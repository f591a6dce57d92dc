------------------------- MODULE ApiGateway_proofs -------------------------
(***************************************************************************)
(* Proofs about ApiGateway, for any requests, times and bounds: it         *)
(* implements CachedSource, keeps its token alive and has one fetch under  *)
(* way at a time.                                                          *)
(***************************************************************************)
EXTENDS ApiGateway, SequenceTheorems, TLAPS

\* The data was the source's until u or later: nothing from version v on ended before.
Until(v, u) == \A n \in v .. Version - 1 : u <= changed[n + 1]

\* The app waits only for what the gateway has in hand.
WaitsForWork == \A r \in Reqs : Waiting(r) => pc[r] # "idle"

\* A GET at the external API holds the lock, and the entry is not fresh.
HasLock == \A r \in Reqs : AtSource(r) => holder = r /\ ~ Fresh

\* What was shown, is stored, or will be stored, in this order.
ShownInOrder ==
  /\ newest <= Version
  /\ \A r \in Reqs : floor[r] <= newest
  /\ entry # NoEntry => newest <= entry.value
  /\ \A r \in Reqs : AtSource(r) => newest <= sent[r].seen

\* An entry is at most a call older than the moment it was stored.
EntryRecent == entry # NoEntry => entry.at <= now /\ Until(entry.value, entry.at - Timeout)

\* A call is within its time, and so is the version it began with.
CallRecent ==
  \A r \in Reqs :
    /\ pc[r] = "token" => sent[r].at <= now
    /\ pc[r] = "fetch" => /\ sent[r].at <= now /\ now <= sent[r].at + Timeout
                          /\ Until(sent[r].seen, sent[r].at)

\* The end of a token is known up to the skew, unless the answer with it was slow.
TokenKnown == ~ token.slow => token.until <= token.dies + Skew

IInv ==
  /\ TypeOK /\ WaitsForWork /\ HasLock /\ ShownInOrder /\ EntryRecent /\ CallRecent
  /\ TokenKnown

LEMMA TimesAreNat ==
  Ttl \in Nat /\ Timeout \in Nat /\ Skew \in Nat
BY TimesAssumption

LEMMA VersionIsNat == ASSUME TypeOK PROVE Version \in Nat
BY LenProperties DEF TypeOK, Version

LEMMA InitIInv == Init => IInv
<1> SUFFICES ASSUME Init PROVE IInv
  OBVIOUS
<1>1. changed \in Seq(Nat) /\ Version = 0 /\ queue \in Seq(Reqs)
  BY EmptySeq DEF Init, Version
<1>2. TypeOK
  BY <1>1 DEF Init, TypeOK, NoEntry, NoToken, NoCall, Result
<1>3. WaitsForWork /\ HasLock /\ ShownInOrder /\ EntryRecent
  BY <1>1 DEF Init, WaitsForWork, HasLock, ShownInOrder, EntryRecent, Waiting, AtSource, Fresh, Result
<1>4. CallRecent /\ TokenKnown
  BY TimesAreNat DEF Init, CallRecent, TokenKnown, NoToken
<1> QED BY <1>2, <1>3, <1>4 DEF IInv

(***************************************************************************)
(* What the actions have in common.                                        *)
(***************************************************************************)

Answers == {"waiting", "value", "none"}

LEMMA ShowEffect ==
  ASSUME TypeOK, NEW R \in SUBSET Reqs, NEW is \in {"value", "none"},
         NEW v \in 0 .. Version, Show(R, is, v)
  PROVE  /\ shown' \in [Reqs -> [is : Answers, v : 0 .. Version]]
         /\ floor' \in [Reqs -> 0 .. Version]
         /\ newest' \in 0 .. Version
         /\ \A r \in Reqs : Waiting(r)' <=> Waiting(r) /\ r \notin R
         /\ newest' = newest \/ newest' = v
         /\ newest <= newest' /\ (newest' = newest \/ \E r \in R : Waiting(r))
         /\ \A r \in Reqs : floor'[r] = floor[r] \/ floor'[r] = 0
<1> DEFINE done == {r \in R : Waiting(r)}
<1>1. /\ shown' = [r \in Reqs |-> IF r \in done THEN Result(is, v) ELSE shown[r]]
      /\ floor' = [r \in Reqs |-> IF r \in done THEN 0 ELSE floor[r]]
      /\ newest' = IF done # {} /\ v > newest THEN v ELSE newest
  BY DEF Show
<1>2. Version \in Nat /\ newest \in 0 .. Version /\ shown \in [Reqs -> [is : Answers, v : 0 .. Version]]
  BY VersionIsNat DEF TypeOK, Answers
<1>3. shown' \in [Reqs -> [is : Answers, v : 0 .. Version]]
  BY <1>1, <1>2 DEF Result, Answers
<1>4. floor' \in [Reqs -> 0 .. Version]
  BY <1>1, <1>2 DEF TypeOK
<1>5. \A r \in Reqs : Waiting(r)' <=> Waiting(r) /\ r \notin R
  BY <1>1, <1>2 DEF Result, Waiting
<1>6. /\ newest' \in 0 .. Version /\ (newest' = newest \/ newest' = v) /\ newest <= newest'
      /\ newest' = newest \/ \E r \in R : Waiting(r)
  BY <1>1, <1>2
<1>7. \A r \in Reqs : floor'[r] = floor[r] \/ floor'[r] = 0
  BY <1>1
<1> QED BY <1>3, <1>4, <1>5, <1>6, <1>7

\* A response that shows version v, or no version.
LEMMA RespondEffect ==
  ASSUME TypeOK, NEW r \in Reqs, NEW is \in {"value", "none"},
         NEW v \in 0 .. Version, Respond(r, is, v)
  PROVE  /\ pc' = [pc EXCEPT ![r] = "idle"] /\ kind' = [kind EXCEPT ![r] = "get"]
         /\ sent' = [sent EXCEPT ![r] = NoCall]
         /\ Show({r}, is, v)
         /\ UNCHANGED <<now, changed>> /\ Version' = Version
         /\ \A q \in Reqs : AtSource(q)' => AtSource(q) /\ q # r
BY DEF TypeOK, Respond, AtSource, Version, source
LEMMA RespondKeeps ==
  ASSUME IInv, NEW r \in Reqs, NEW is \in {"value", "none"},
         NEW v \in 0 .. Version, Respond(r, is, v), UNCHANGED token,
         entry' \in [at : Nat, value : 0 .. Version] \cup {NoEntry},
         holder' \in Reqs \cup {NoReq}, queue' \in Seq(Reqs),
         \A q \in Reqs \ {r} : AtSource(q) => holder' = q /\ ~ Fresh' /\ newest' <= sent[q].seen,
         entry' # NoEntry => newest' <= entry'.value,
         EntryRecent'
  PROVE  IInv'
<1>1. TypeOK /\ Version' = Version /\ Version \in Nat
  BY VersionIsNat, RespondEffect DEF IInv
<1>2. /\ pc' = [pc EXCEPT ![r] = "idle"] /\ kind' = [kind EXCEPT ![r] = "get"]
      /\ sent' = [sent EXCEPT ![r] = NoCall] /\ UNCHANGED <<now, changed>>
      /\ \A q \in Reqs : AtSource(q)' => AtSource(q) /\ q # r
  BY <1>1, RespondEffect
<1>3. Show({r}, is, v)
  BY <1>1, RespondEffect
<1>4. /\ shown' \in [Reqs -> [is : Answers, v : 0 .. Version]]
      /\ floor' \in [Reqs -> 0 .. Version]
      /\ newest' \in 0 .. Version /\ newest <= newest'
      /\ \A q \in Reqs : Waiting(q)' <=> Waiting(q) /\ q \notin {r}
      /\ \A q \in Reqs : floor'[q] = floor[q] \/ floor'[q] = 0
  BY <1>1, <1>3, ShowEffect
<1>5. sent' \in [Reqs -> [at : Nat, seen : 0 .. Version]]
  BY <1>1, <1>2 DEF TypeOK, NoCall
<1>6. TypeOK'
  BY <1>1, <1>2, <1>4, <1>5 DEF TypeOK, Answers
<1>7. WaitsForWork'
  BY <1>1, <1>2, <1>4 DEF IInv, WaitsForWork, TypeOK
<1>8. HasLock'
  BY <1>2 DEF HasLock
<1>9. ShownInOrder'
  <2>1. ASSUME NEW q \in Reqs PROVE floor'[q] <= newest'
    <3>1. floor[q] \in Nat /\ newest \in Nat /\ newest' \in Nat /\ floor[q] <= newest
      BY <1>1, <1>4, <2>1 DEF IInv, ShownInOrder, TypeOK
    <3>2. (floor'[q] = floor[q] \/ floor'[q] = 0) /\ newest <= newest'
      BY <1>4, <2>1
    <3> QED BY <3>1, <3>2
  <2>2. \A q \in Reqs : AtSource(q)' => newest' <= sent'[q].seen
    BY <1>1, <1>2 DEF TypeOK
  <2> QED BY <1>1, <1>4, <2>1, <2>2 DEF ShownInOrder
<1>10. CallRecent'
  BY <1>1, <1>2 DEF IInv, CallRecent, Until, TypeOK
<1>11. TokenKnown'
  BY DEF IInv, TokenKnown
<1> QED BY <1>6, <1>7, <1>8, <1>9, <1>10, <1>11 DEF IInv

LEMMA CallKeeps ==
  ASSUME IInv, NEW r \in Reqs, Call(r), UNCHANGED entry,
         holder' \in Reqs \cup {NoReq}, queue' \in Seq(Reqs),
         kind[r] = "get" => holder' = r /\ ~ Fresh,
         \A q \in Reqs \ {r} : AtSource(q) => holder' = q
  PROVE  IInv'
<1>1. /\ TypeOK /\ UNCHANGED <<now, changed, token, kind, shown, floor, newest>>
      /\ pc' \in [Reqs -> {"idle", "sent", "queued", "token", "fetch"}]
      /\ pc' = [pc EXCEPT ![r] = IF TokenValid THEN "fetch" ELSE "token"]
      /\ sent' = [sent EXCEPT ![r] = [at |-> now, seen |-> Version]]
  BY DEF IInv, TypeOK, Call, source, history
<1>2. Version' = Version /\ Version \in Nat /\ now \in Nat /\ (Fresh' <=> Fresh)
  BY <1>1, VersionIsNat DEF Version, TypeOK, Fresh
<1>3. TypeOK'
  <2>1. sent' \in [Reqs -> [at : Nat, seen : 0 .. Version]]
    BY <1>1, <1>2 DEF TypeOK
  <2> QED BY <1>1, <1>2, <2>1 DEF TypeOK
<1>4. \A q \in Reqs :
        /\ q # r => pc'[q] = pc[q] /\ sent'[q] = sent[q]
        /\ q = r => pc'[q] \in {"token", "fetch"} /\ sent'[q] = [at |-> now, seen |-> Version]
  BY <1>1 DEF TypeOK
<1>5. WaitsForWork'
  BY <1>1, <1>4 DEF IInv, WaitsForWork, Waiting
<1>6. HasLock'
  BY <1>1, <1>2, <1>4 DEF IInv, HasLock, AtSource
<1>7. ShownInOrder'
  BY <1>1, <1>2, <1>4 DEF IInv, ShownInOrder, AtSource, NoEntry, TypeOK
<1>8. EntryRecent' /\ TokenKnown'
  BY <1>1, <1>2 DEF IInv, EntryRecent, Until, TokenKnown, NoEntry
<1>9. CallRecent'
  <2>1. \A n \in Version .. Version - 1 : FALSE
    BY <1>2
  <2>2. ASSUME NEW q \in Reqs
        PROVE  /\ pc'[q] = "token" => sent'[q].at <= now
               /\ pc'[q] = "fetch" =>
                    /\ sent'[q].at <= now /\ now <= sent'[q].at + Timeout
                    /\ \A n \in sent'[q].seen .. Version - 1 : sent'[q].at <= changed[n + 1]
    <3>1. CASE q = r
      <4>1. sent'[q].at = now /\ sent'[q].seen = Version
        BY <1>4, <3>1
      <4>2. now <= now /\ now <= now + Timeout
        BY <1>2, TimesAreNat
      <4> QED BY <2>1, <4>1, <4>2
    <3>2. CASE q # r
      <4>1. pc'[q] = pc[q] /\ sent'[q] = sent[q]
        BY <1>4, <3>2
      <4> QED BY <2>2, <4>1 DEF IInv, CallRecent, Until
    <3> QED BY <3>1, <3>2
  <2> QED BY <1>1, <1>2, <2>2 DEF CallRecent, Until
<1> QED BY <1>3, <1>5, <1>6, <1>7, <1>8, <1>9 DEF IInv

\* A response from a fresh entry: nobody is at the external API.
LEMMA HitKeeps ==
  ASSUME IInv, NEW r \in Reqs, Fresh, Respond(r, "value", entry.value), UNCHANGED <<entry, holder, token>>,
         queue' \in Seq(Reqs)
  PROVE  IInv'
<1>1. /\ TypeOK /\ Version \in Nat /\ entry # NoEntry /\ entry.value \in 0 .. Version
      /\ entry \in [at : Nat, value : 0 .. Version] /\ holder \in Reqs \cup {NoReq}
      /\ newest \in 0 .. Version /\ newest <= entry.value
  BY VersionIsNat DEF IInv, TypeOK, Fresh, ShownInOrder
<1>2. \A q \in Reqs : ~ AtSource(q)
  BY DEF IInv, HasLock
<1>3. Show({r}, "value", entry.value) /\ UNCHANGED <<now, changed>>
  BY <1>1, RespondEffect
<1>4. newest' <= entry.value
  <2>1. newest' = newest \/ newest' = entry.value
    BY <1>3 DEF Show
  <2> QED BY <1>1, <2>1
<1>5. EntryRecent'
  BY <1>3 DEF IInv, EntryRecent, Until, Version, NoEntry
<1> QED BY <1>1, <1>2, <1>4, <1>5, RespondKeeps

LEMMA ArriveStep ==
  ASSUME IInv, NEW r \in Reqs, ArriveGet(r) \/ ArrivePost(r) PROVE IInv'
<1>1. TypeOK /\ queue \in Seq(Reqs) /\ holder \in Reqs \cup {NoReq}
  BY DEF IInv, TypeOK
<1>2. CASE Fresh /\ Respond(r, "value", entry.value) /\ UNCHANGED <<cache, token>>
  BY <1>1, <1>2, HitKeeps DEF cache
<1>3. CASE ~ Fresh /\ holder = NoReq /\ holder' = r /\ Call(r) /\ UNCHANGED <<entry, queue>>
  <2>1. \A q \in Reqs : ~ AtSource(q)
    BY <1>3, NoReqAssumption DEF IInv, HasLock
  <2> QED BY <1>1, <1>3, <2>1, CallKeeps
<1>4. CASE pc[r] = "sent" /\ queue' = Append(queue, r) /\ pc' = [pc EXCEPT ![r] = "queued"]
           /\ UNCHANGED <<source, entry, holder, token, kind, sent, shown, history>>
  <2>1. queue' \in Seq(Reqs)
    BY <1>1, <1>4, AppendProperties
  <2>2. /\ UNCHANGED <<now, changed, entry, holder, token, kind, sent, shown, floor, newest>>
        /\ pc' \in [Reqs -> {"idle", "sent", "queued", "token", "fetch"}]
        /\ \A q \in Reqs : IF q = r THEN pc'[q] = "queued" ELSE pc'[q] = pc[q]
        /\ Version' = Version /\ (Fresh' <=> Fresh)
    BY <1>1, <1>4 DEF source, history, TypeOK, Version, Fresh
  <2>3. TypeOK'
    BY <1>1, <2>1, <2>2 DEF TypeOK
  <2>4. WaitsForWork' /\ HasLock'
    BY <1>4, <2>2 DEF IInv, WaitsForWork, HasLock, Waiting, AtSource
  <2>5. ShownInOrder' /\ EntryRecent'
    BY <2>2 DEF IInv, ShownInOrder, EntryRecent, Until, AtSource, NoEntry
  <2>6. CallRecent' /\ TokenKnown'
    BY <2>2 DEF IInv, CallRecent, TokenKnown, Until
  <2> QED BY <2>3, <2>4, <2>5, <2>6 DEF IInv
<1>5. CASE ArrivePost(r)
  <2>1. kind[r] = "post" /\ Call(r) /\ UNCHANGED <<entry, holder, queue>>
    BY <1>5 DEF ArrivePost, cache
  <2>2. \A q \in Reqs : AtSource(q) => holder = q
    BY DEF IInv, HasLock
  <2> QED BY <1>1, <2>1, <2>2, CallKeeps
<1> QED BY <1>2, <1>3, <1>4, <1>5 DEF ArriveGet

LEMMA WakeStep ==
  ASSUME IInv, NEW r \in Reqs, Wake(r) PROVE IInv'
<1>1. TypeOK /\ queue \in Seq(Reqs) /\ queue # <<>> /\ holder = NoReq /\ queue' = Tail(queue) /\ UNCHANGED entry
  BY DEF IInv, TypeOK, Wake
<1>2. queue' \in Seq(Reqs)
  BY <1>1, HeadTailProperties
<1>3. CASE Fresh /\ Respond(r, "value", entry.value) /\ UNCHANGED <<holder, token>>
  BY <1>1, <1>2, <1>3, HitKeeps
<1>4. CASE ~ Fresh /\ holder' = r /\ Call(r)
  <2>1. \A q \in Reqs : ~ AtSource(q)
    BY <1>1, NoReqAssumption DEF IInv, HasLock
  <2> QED BY <1>1, <1>2, <1>4, <2>1, CallKeeps
<1> QED BY <1>3, <1>4 DEF Wake

LEMMA TokenStep ==
  ASSUME IInv, NEW r \in Reqs, TokenReply(r) PROVE IInv'
<1>1. TypeOK /\ Version \in Nat /\ now \in Nat /\ pc[r] = "token" /\ sent[r].at \in Nat
      /\ sent[r].at <= now
  BY VersionIsNat DEF IInv, TypeOK, TokenReply, CallRecent
<1>2. PICK issued \in sent[r].at .. now, life \in Lives :
        token' = [until |-> now + life, dies |-> issued + life, slow |-> now - sent[r].at > Skew]
  BY DEF TokenReply
<1>3. /\ UNCHANGED <<now, changed, entry, holder, queue, kind, shown, floor, newest>>
      /\ pc' = [pc EXCEPT ![r] = "fetch"] /\ sent' = [sent EXCEPT ![r] = [at |-> now, seen |-> Version]]
  BY DEF TokenReply, source, cache, history
<1>4. Version' = Version /\ (Fresh' <=> Fresh)
  BY <1>3 DEF Version, Fresh
<1>5. token' \in [until : Nat, dies : Nat, slow : BOOLEAN] /\ TokenKnown'
  <2>1. life \in Nat /\ issued \in Nat /\ sent[r].at <= issued
    BY <1>1, <1>2, TimesAssumption
  <2>2. token'.until = now + life /\ token'.dies = issued + life
        /\ token'.slow = (now - sent[r].at > Skew)
    BY <1>2
  <2>3. now + life \in Nat /\ issued + life \in Nat /\ (now - sent[r].at > Skew) \in BOOLEAN
    BY <1>1, <2>1
  <2>4. ASSUME ~ token'.slow PROVE token'.until <= token'.dies + Skew
    <3>1. ~ (now - sent[r].at > Skew)
      BY <2>2, <2>4
    <3>2. now + life <= issued + life + Skew
      BY <1>1, <2>1, <3>1, TimesAreNat
    <3> QED BY <2>2, <3>2
  <2> QED BY <1>2, <2>3, <2>4 DEF TokenKnown
<1>6. /\ pc' \in [Reqs -> {"idle", "sent", "queued", "token", "fetch"}]
      /\ sent' \in [Reqs -> [at : Nat, seen : 0 .. Version]]
      /\ \A q \in Reqs : q # r => pc'[q] = pc[q] /\ sent'[q] = sent[q]
      /\ pc'[r] = "fetch" /\ sent'[r] = [at |-> now, seen |-> Version]
  <2>1. [at |-> now, seen |-> Version] \in [at : Nat, seen : 0 .. Version]
    BY <1>1
  <2> QED BY <1>1, <1>3, <2>1 DEF TypeOK
<1>7. TypeOK'
  BY <1>1, <1>3, <1>4, <1>5, <1>6 DEF TypeOK
<1>8. WaitsForWork' /\ HasLock'
  BY <1>1, <1>3, <1>4, <1>6 DEF IInv, WaitsForWork, HasLock, Waiting, AtSource
<1>9. ShownInOrder' /\ EntryRecent'
  BY <1>1, <1>3, <1>4, <1>6 DEF IInv, ShownInOrder, EntryRecent, Until, AtSource, NoEntry
<1>10. CallRecent'
  <2>1. \A n \in Version .. Version - 1 : FALSE
    BY <1>1
  <2>2. now <= now /\ now <= now + Timeout
    BY <1>1, TimesAreNat
  <2>3. ASSUME NEW q \in Reqs
        PROVE  /\ pc'[q] = "token" => sent'[q].at <= now
               /\ pc'[q] = "fetch" =>
                    /\ sent'[q].at <= now /\ now <= sent'[q].at + Timeout
                    /\ \A n \in sent'[q].seen .. Version - 1 : sent'[q].at <= changed[n + 1]
    <3>1. CASE q = r
      BY <1>6, <2>1, <2>2, <3>1
    <3>2. CASE q # r
      <4>1. pc'[q] = pc[q] /\ sent'[q] = sent[q]
        BY <1>6, <2>3, <3>2
      <4> QED BY <2>3, <4>1 DEF IInv, CallRecent, Until
    <3> QED BY <3>1, <3>2
  <2> QED BY <1>3, <1>4, <2>3 DEF CallRecent, Until
<1> QED BY <1>5, <1>7, <1>8, <1>9, <1>10 DEF IInv

LEMMA ReplyStep ==
  ASSUME IInv, NEW r \in Reqs, Reply(r) PROVE IInv'
<1>1. /\ TypeOK /\ Version \in Nat /\ now \in Nat /\ pc[r] = "fetch" /\ UNCHANGED token
      /\ sent[r].at \in Nat /\ sent[r].seen \in 0 .. Version /\ queue \in Seq(Reqs)
      /\ holder \in Reqs \cup {NoReq}
      /\ entry \in [at : Nat, value : 0 .. Version] \cup {NoEntry}
  BY VersionIsNat DEF IInv, TypeOK, Reply
<1>2. PICK v \in sent[r].seen .. Version :
        IF kind[r] = "get"
        THEN /\ entry' = [at |-> now, value |-> v] /\ holder' = NoReq /\ UNCHANGED queue
             /\ Respond(r, "value", v)
        ELSE Respond(r, "none", 0) /\ UNCHANGED cache
  BY DEF Reply
<1>3. v \in 0 .. Version /\ v \in Nat
  BY <1>1, <1>2
<1>4. CASE kind[r] = "get"
  <2>1. /\ entry' = [at |-> now, value |-> v] /\ holder' = NoReq /\ UNCHANGED queue
        /\ Respond(r, "value", v)
    BY <1>2, <1>4
  <2>2. UNCHANGED <<now, changed>> /\ Version' = Version /\ Show({r}, "value", v)
    BY <1>1, <1>3, <2>1, RespondEffect
  <2>3. AtSource(r) /\ newest <= sent[r].seen /\ newest \in Nat
    BY <1>1, <1>4 DEF AtSource, IInv, ShownInOrder, TypeOK
  <2>4. \A q \in Reqs \ {r} : ~ AtSource(q)
    BY <2>3 DEF IInv, HasLock
  <2>5. newest' <= v
    <3>1. newest' = newest \/ newest' = v
      BY <2>2 DEF Show
    <3> QED BY <1>1, <1>2, <1>3, <2>3, <3>1
  <2>6. EntryRecent'
    <3>1. /\ sent[r].at <= now /\ now <= sent[r].at + Timeout
          /\ \A n \in sent[r].seen .. Version - 1 : sent[r].at <= changed[n + 1]
      BY <1>1 DEF IInv, CallRecent, Until
    <3>2. now - Timeout <= sent[r].at /\ now <= now /\ now - Timeout \in Int
      BY <1>1, <3>1, TimesAreNat
    <3>3. ASSUME NEW n \in v .. Version - 1 PROVE now - Timeout <= changed[n + 1]
      <4>1. n \in sent[r].seen .. Version - 1 /\ n + 1 \in 1 .. Version
        BY <1>1, <1>2, <1>3, <3>3
      <4>2. changed[n + 1] \in Nat
        BY <1>1, <4>1, ElementOfSeq DEF TypeOK, Version
      <4> QED BY <1>1, <3>1, <3>2, <4>1, <4>2
    <3> QED BY <2>1, <2>2, <3>2, <3>3 DEF EntryRecent, Until
  <2>7. entry' \in [at : Nat, value : 0 .. Version] /\ entry'.value = v
    BY <1>1, <1>3, <2>1
  <2> QED BY <1>1, <1>3, <2>1, <2>4, <2>5, <2>6, <2>7, RespondKeeps
<1>5. CASE kind[r] # "get"
  <2>1. Respond(r, "none", 0) /\ UNCHANGED <<entry, holder, queue>>
    BY <1>2, <1>5 DEF cache
  <2>2. UNCHANGED <<now, changed>> /\ Version' = Version /\ Show({r}, "none", 0) /\ 0 \in 0 .. Version
    BY <1>1, <2>1 DEF Respond, source, Version
  <2>3. newest' = newest
    BY <2>2 DEF Show, IInv, TypeOK
  <2>4. EntryRecent' /\ (entry' # NoEntry => newest' <= entry'.value)
    BY <2>1, <2>2, <2>3 DEF IInv, EntryRecent, Until, NoEntry, ShownInOrder
  <2>5. \A q \in Reqs \ {r} : AtSource(q) => holder' = q /\ ~ Fresh' /\ newest' <= sent[q].seen
    BY <2>1, <2>2, <2>3 DEF IInv, HasLock, ShownInOrder, Fresh, NoEntry
  <2>6. entry' \in [at : Nat, value : 0 .. Version] \cup {NoEntry}
    BY <1>1, <2>1
  <2> QED BY <1>1, <2>1, <2>2, <2>4, <2>5, <2>6, RespondKeeps
<1> QED BY <1>4, <1>5

LEMMA FailStep ==
  ASSUME IInv, NEW r \in Reqs, CallFails(r) PROVE IInv'
<1> DEFINE freed == IF holder = r THEN NoReq ELSE holder
<1>1. /\ TypeOK /\ queue \in Seq(Reqs) /\ freed \in Reqs \cup {NoReq} /\ Version \in Nat
      /\ entry \in [at : Nat, value : 0 .. Version] \cup {NoEntry} /\ 0 \in 0 .. Version
      /\ \A q \in Reqs \ {r} : holder = q => freed = q
  <2>1. TypeOK
    BY DEF IInv
  <2>2. Version \in Nat /\ 0 \in 0 .. Version
    BY <2>1, VersionIsNat
  <2>3. freed \in Reqs \cup {NoReq} /\ \A q \in Reqs \ {r} : holder = q => freed = q
    BY <2>1 DEF TypeOK
  <2> QED BY <2>1, <2>2, <2>3 DEF TypeOK
<1>2. /\ UNCHANGED <<now, changed, entry, queue, token>> /\ Version' = Version
      /\ holder' = freed /\ Respond(r, "none", 0) /\ Show({r}, "none", 0)
  BY DEF CallFails, Respond, source, Version
<1> HIDE DEF freed
<1>3. newest' = newest
  BY <1>2 DEF Show, IInv, TypeOK
<1>4. EntryRecent' /\ (entry' # NoEntry => newest' <= entry'.value)
  BY <1>1, <1>2, <1>3 DEF IInv, EntryRecent, Until, NoEntry, ShownInOrder
<1>5. \A q \in Reqs \ {r} : AtSource(q) => holder' = q /\ ~ Fresh' /\ newest' <= sent[q].seen
  BY <1>1, <1>2, <1>3 DEF IInv, HasLock, ShownInOrder, Fresh, NoEntry
<1> QED BY <1>1, <1>2, <1>4, <1>5, RespondKeeps

LEMMA AppStep ==
  ASSUME IInv, NEW r \in Reqs, GiveUp(r) \/ \E k \in KindsOf[r] : Ask(r, k)
  PROVE  IInv'
<1>1. TypeOK /\ Version \in Nat
  BY VersionIsNat DEF IInv
<1>2. ASSUME GiveUp(r) PROVE IInv'
  <2>1. /\ UNCHANGED <<now, changed, entry, holder, queue, token, pc, kind, sent>>
        /\ Show({r}, "none", 0) /\ Version' = Version /\ (Fresh' <=> Fresh) /\ Waiting(r)
    BY <1>2 DEF GiveUp, source, cache, Version, Fresh
  <2>2. 0 \in 0 .. Version
    BY <1>1
  <2>3. /\ shown' \in [Reqs -> [is : Answers, v : 0 .. Version]]
        /\ floor' \in [Reqs -> 0 .. Version]
        /\ \A q \in Reqs : Waiting(q)' <=> Waiting(q) /\ q \notin {r}
        /\ \A q \in Reqs : floor'[q] = floor[q] \/ floor'[q] = 0
    BY <1>1, <2>1, <2>2, ShowEffect
  <2>4. newest' = newest /\ newest \in Nat
    BY <1>1, <2>1 DEF Show, TypeOK
  <2>5. TypeOK'
    BY <1>1, <2>1, <2>3, <2>4 DEF TypeOK, Answers
  <2>6. WaitsForWork' /\ HasLock'
    BY <2>1, <2>3 DEF IInv, WaitsForWork, HasLock, AtSource
  <2>7. ShownInOrder'
    BY <2>1, <2>3, <2>4 DEF IInv, ShownInOrder, AtSource, NoEntry
  <2>8. EntryRecent' /\ CallRecent' /\ TokenKnown'
    BY <2>1 DEF IInv, EntryRecent, CallRecent, TokenKnown, Until, NoEntry
  <2> QED BY <2>5, <2>6, <2>7, <2>8 DEF IInv
<1>3. ASSUME NEW k \in KindsOf[r], Ask(r, k) PROVE IInv'
  <2>1. /\ UNCHANGED <<now, changed, entry, holder, queue, token, sent, newest>>
        /\ Version' = Version /\ (Fresh' <=> Fresh)
    BY <1>3 DEF Ask, source, cache, Version, Fresh
  <2>2. TypeOK'
    <3>1. pc' \in [Reqs -> {"idle", "sent", "queued", "token", "fetch"}] /\ kind' \in [Reqs -> {"get", "post"}]
      BY <1>1, <1>3, KindsAssumption DEF TypeOK, Ask
    <3>2. shown' \in [Reqs -> [is : Answers, v : 0 .. Version]]
      BY <1>1, <1>3 DEF TypeOK, Ask, Result, Answers
    <3>3. floor' \in [Reqs -> 0 .. Version]
      BY <1>1, <1>3 DEF TypeOK, Ask
    <3> QED BY <1>1, <2>1, <3>1, <3>2, <3>3 DEF TypeOK, Answers
  <2>3. pc[r] = "idle" /\ pc'[r] = "sent"
        /\ \A q \in Reqs : q # r => pc'[q] = pc[q] /\ kind'[q] = kind[q] /\ shown'[q] = shown[q]
    BY <1>1, <1>3 DEF TypeOK, Ask
  <2>4. WaitsForWork' /\ HasLock'
    BY <2>1, <2>3 DEF IInv, WaitsForWork, HasLock, Waiting, AtSource
  <2>5. ShownInOrder'
    <3>1. \A q \in Reqs : floor'[q] = floor[q] \/ floor'[q] = newest
      BY <1>1, <1>3 DEF TypeOK, Ask
    <3>2. newest \in Nat
      BY <1>1 DEF TypeOK
    <3> QED BY <2>1, <2>3, <3>1, <3>2 DEF IInv, ShownInOrder, AtSource, NoEntry
  <2>6. EntryRecent' /\ TokenKnown'
    BY <2>1 DEF IInv, EntryRecent, TokenKnown, Until, NoEntry
  <2>7. CallRecent'
    BY <2>1, <2>3 DEF IInv, CallRecent, Until
  <2> QED BY <2>2, <2>4, <2>5, <2>6, <2>7 DEF IInv
<1> QED BY <1>2, <1>3

LEMMA TickStep ==
  ASSUME IInv, Tick PROVE IInv'
<1>1. /\ TypeOK /\ Version \in Nat /\ now \in Nat /\ now' = now + 1 /\ now' \in Nat
      /\ UNCHANGED <<changed, entry, holder, queue, token, pc, kind, sent, shown, floor, newest>>
      /\ Version' = Version
  <2>1. TypeOK /\ Version \in Nat
    BY VersionIsNat DEF IInv
  <2>2. now \in Nat /\ now' = now + 1 /\ now' \in Nat
    BY <2>1 DEF TypeOK, Tick
  <2>3. UNCHANGED <<changed, entry, holder, queue, token, pc, kind, sent, shown, floor, newest>>
    BY DEF Tick, cache, history
  <2> QED BY <2>1, <2>2, <2>3 DEF Version
<1>2. TypeOK'
  BY <1>1 DEF TypeOK
<1>3. WaitsForWork' /\ TokenKnown'
  BY <1>1 DEF IInv, WaitsForWork, TokenKnown, Waiting
<1>4. Fresh' => Fresh
  BY <1>1, TimesAreNat DEF Fresh, TypeOK, NoEntry
<1>5. HasLock' /\ ShownInOrder'
  BY <1>1, <1>4 DEF IInv, HasLock, ShownInOrder, AtSource, NoEntry
<1>6. EntryRecent'
  <2>1. entry # NoEntry => entry.at \in Nat /\ entry.at <= now'
    BY <1>1 DEF IInv, EntryRecent, TypeOK
  <2> QED BY <1>1, <2>1 DEF IInv, EntryRecent, Until, NoEntry
<1>7. CallRecent'
  <2>1. ASSUME NEW r \in Reqs
        PROVE  /\ pc[r] = "token" => sent[r].at <= now'
               /\ pc[r] = "fetch" => sent[r].at <= now' /\ now' <= sent[r].at + Timeout
    <3>1. sent[r].at \in Nat
      BY <1>1, <2>1 DEF TypeOK
    <3>2. CASE pc[r] = "token"
      BY <1>1, <2>1, <3>1, <3>2, TimesAreNat DEF Tick, IInv, CallRecent
    <3>3. CASE pc[r] = "fetch"
      BY <1>1, <2>1, <3>1, <3>3, TimesAreNat DEF Tick, IInv, CallRecent
    <3> QED BY <3>2, <3>3
  <2> QED BY <1>1, <2>1 DEF IInv, CallRecent, Until
<1> QED BY <1>2, <1>3, <1>5, <1>6, <1>7 DEF IInv

LEMMA ChangeStep ==
  ASSUME IInv, Change PROVE IInv'
<1>1. /\ TypeOK /\ Version \in Nat /\ now \in Nat
      /\ changed \in Seq(Nat) /\ Version = Len(changed) /\ changed' = Append(changed, now)
      /\ UNCHANGED <<now, entry, holder, queue, token, pc, kind, sent, shown, floor, newest>>
  BY VersionIsNat DEF IInv, TypeOK, Change, cache, history, Version
<1>2. /\ changed' \in Seq(Nat) /\ Version' = Version + 1
      /\ \A n \in 1 .. Version : changed'[n] = changed[n]
      /\ changed'[Version + 1] = now
  BY <1>1, AppendProperties DEF Version
<1>3. 0 .. Version \subseteq 0 .. Version'
  BY <1>1, <1>2
<1>4. TypeOK'
  <2>1. entry \in [at : Nat, value : 0 .. Version'] \cup {NoEntry}
    BY <1>1, <1>3 DEF TypeOK
  <2>2. sent \in [Reqs -> [at : Nat, seen : 0 .. Version']]
    BY <1>1, <1>3 DEF TypeOK
  <2>3. shown \in [Reqs -> [is : Answers, v : 0 .. Version']]
    BY <1>1, <1>3 DEF TypeOK, Answers
  <2>4. floor \in [Reqs -> 0 .. Version'] /\ newest \in 0 .. Version'
    BY <1>1, <1>3 DEF TypeOK
  <2> QED BY <1>1, <1>2, <2>1, <2>2, <2>3, <2>4 DEF TypeOK, NoEntry, Answers
<1>5. \A v \in Nat, u \in Int : u <= now /\ Until(v, u) => Until(v, u)'
  <2>1. SUFFICES ASSUME NEW v \in Nat, NEW u \in Int, u <= now, Until(v, u),
                        NEW n \in v .. Version' - 1
                 PROVE  u <= changed'[n + 1]
    BY DEF Until
  <2>2. CASE n = Version
    BY <1>2, <2>1, <2>2
  <2>3. CASE n # Version
    <3>1. n \in v .. Version - 1 /\ n + 1 \in 1 .. Version
      BY <1>1, <1>2, <2>1, <2>3
    <3> QED BY <1>2, <2>1, <3>1 DEF Until
  <2> QED BY <2>2, <2>3
<1>6. WaitsForWork' /\ HasLock' /\ TokenKnown'
  BY <1>1 DEF IInv, WaitsForWork, HasLock, TokenKnown, Waiting, AtSource, Fresh, NoEntry
<1>7. ShownInOrder'
  BY <1>1, <1>2 DEF IInv, ShownInOrder, AtSource, NoEntry, TypeOK
<1>8. EntryRecent'
  <2>1. ASSUME entry # NoEntry PROVE entry.at <= now /\ Until(entry.value, entry.at - Timeout)'
    <3>1. entry.value \in Nat /\ entry.at \in Nat /\ entry.at <= now
      BY <1>1, <2>1 DEF TypeOK, IInv, EntryRecent
    <3>2. entry.at - Timeout \in Int /\ entry.at - Timeout <= now
      BY <1>1, <3>1, TimesAreNat
    <3>3. \A n \in entry.value .. Version - 1 : entry.at - Timeout <= changed[n + 1]
      BY <2>1 DEF IInv, EntryRecent, Until
    <3>4. \A n \in entry.value .. Version' - 1 : entry.at - Timeout <= changed'[n + 1]
      BY <1>5, <3>1, <3>2, <3>3 DEF Until
    <3> QED BY <1>1, <3>1, <3>4 DEF Until
  <2> QED BY <1>1, <2>1 DEF EntryRecent, NoEntry
<1>9. CallRecent'
  <2>1. ASSUME NEW r \in Reqs, pc[r] = "fetch"
        PROVE  \A n \in sent[r].seen .. Version' - 1 : sent[r].at <= changed'[n + 1]
    <3>1. sent[r].seen \in Nat /\ sent[r].at \in Int /\ sent[r].at <= now /\ Until(sent[r].seen, sent[r].at)
      BY <1>1, <2>1 DEF TypeOK, IInv, CallRecent
    <3> QED BY <1>5, <3>1 DEF Until
  <2> QED BY <1>1, <2>1 DEF IInv, CallRecent, Until
<1> QED BY <1>4, <1>6, <1>7, <1>8, <1>9 DEF IInv

LEMMA RestartStep ==
  ASSUME IInv, Restart PROVE IInv'
<1>1. /\ TypeOK /\ Version \in Nat /\ Version' = Version /\ 0 \in 0 .. Version
      /\ UNCHANGED <<now, changed>> /\ Show(Reqs, "none", 0)
      /\ entry' = NoEntry /\ holder' = NoReq /\ queue' = <<>> /\ token' = NoToken
      /\ pc' = [r \in Reqs |-> "idle"] /\ sent' = [r \in Reqs |-> NoCall] /\ kind' = [r \in Reqs |-> "get"]
  <2>1. TypeOK
    BY DEF IInv
  <2>2. Version \in Nat /\ 0 \in 0 .. Version
    BY <2>1, VersionIsNat
  <2> QED BY <2>1, <2>2 DEF Restart, source, Version
<1>2. /\ shown' \in [Reqs -> [is : Answers, v : 0 .. Version]]
      /\ floor' \in [Reqs -> 0 .. Version]
      /\ \A q \in Reqs : Waiting(q)' <=> Waiting(q) /\ q \notin Reqs
      /\ \A q \in Reqs : floor'[q] = floor[q] \/ floor'[q] = 0
  BY <1>1, ShowEffect
<1>3. newest' = newest /\ newest \in Nat
  BY <1>1 DEF Show, TypeOK
<1>4. TypeOK'
  <2>1. queue' \in Seq(Reqs)
    BY <1>1, EmptySeq
  <2>2. sent' \in [Reqs -> [at : Nat, seen : 0 .. Version]] /\ token' \in [until : Nat, dies : Nat, slow : BOOLEAN]
    BY <1>1 DEF NoCall, NoToken
  <2>3. /\ pc' \in [Reqs -> {"idle", "sent", "queued", "token", "fetch"}]
        /\ kind' \in [Reqs -> {"get", "post"}] /\ newest' \in 0 .. Version
    BY <1>1, <1>3 DEF TypeOK
  <2>4. now' \in Nat /\ changed' \in Seq(Nat) /\ entry' \in {NoEntry}' /\ holder' \in {NoReq}
    BY <1>1 DEF TypeOK, NoEntry
  <2> QED BY <1>1, <1>2, <2>1, <2>2, <2>3, <2>4 DEF TypeOK, Answers
<1>5. WaitsForWork' /\ HasLock' /\ EntryRecent' /\ CallRecent'
  BY <1>1, <1>2 DEF WaitsForWork, HasLock, EntryRecent, CallRecent, AtSource, NoEntry
<1>6. ShownInOrder' /\ TokenKnown'
  <2>1. \A r \in Reqs : floor'[r] <= newest'
    BY <1>2, <1>3 DEF IInv, ShownInOrder
  <2>2. newest' <= Version' /\ entry' = NoEntry' /\ \A r \in Reqs : ~ AtSource(r)'
    BY <1>1, <1>3 DEF IInv, ShownInOrder, AtSource, NoEntry
  <2>3. TokenKnown'
    BY <1>1, TimesAreNat DEF TokenKnown, NoToken
  <2> QED BY <2>1, <2>2, <2>3 DEF ShownInOrder
<1> QED BY <1>4, <1>5, <1>6 DEF IInv

(***************************************************************************)
(* The theorems.                                                           *)
(***************************************************************************)

LEMMA StepIInv == IInv /\ [Next]_vars => IInv'
<1> SUFFICES ASSUME IInv, [Next]_vars PROVE IInv'
  OBVIOUS
<1>1. ASSUME NEW r \in Reqs, GatewayStep(r) PROVE IInv'
  BY <1>1, ArriveStep, WakeStep, TokenStep, ReplyStep, FailStep DEF GatewayStep
<1>2. ASSUME NEW r \in Reqs, GiveUp(r) \/ \E k \in KindsOf[r] : Ask(r, k) PROVE IInv'
  BY <1>2, AppStep
<1>3. ASSUME Tick \/ Change \/ Restart PROVE IInv'
  BY <1>3, TickStep, ChangeStep, RestartStep
<1>4. CASE UNCHANGED vars
  <2>1. /\ UNCHANGED <<now, changed, entry, holder, queue, token, pc, kind, sent, shown, floor, newest>>
        /\ Version' = Version
    BY <1>4 DEF vars, source, cache, history, Version
  <2>2. TypeOK'
    BY <2>1 DEF IInv, TypeOK, NoEntry
  <2>3. WaitsForWork' /\ HasLock' /\ ShownInOrder'
    BY <2>1 DEF IInv, WaitsForWork, HasLock, ShownInOrder, Waiting, AtSource, Fresh, NoEntry
  <2>4. EntryRecent' /\ CallRecent' /\ TokenKnown'
    BY <2>1 DEF IInv, EntryRecent, CallRecent, TokenKnown, Until, NoEntry
  <2> QED BY <2>2, <2>3, <2>4 DEF IInv
<1> QED BY <1>1, <1>2, <1>3, <1>4 DEF Next

THEOREM Invariance == Spec => []IInv
BY InitIInv, StepIInv, PTL DEF Spec

\* The types of every variable, and that an entry, a call and what is shown are of
\* versions the source has had.
THEOREM TypeCorrect == Spec => []TypeOK
<1>1. IInv => TypeOK
  BY DEF IInv
<1> QED BY <1>1, Invariance, PTL

\* TTLCache.get_or_set: one request at a time is at the external API for a key, and none
\* while its entry is fresh.
THEOREM NoStampede == Spec => []OneFetch
<1>1. IInv => OneFetch
  BY DEF IInv, HasLock, OneFetch
<1> QED BY <1>1, Invariance, PTL

\* A call for the data goes out with the token at hand, or with the one just received.
LEMMA GoesOut ==
  ASSUME IInv, Next, NEW r \in Reqs, pc[r] # "fetch", pc'[r] = "fetch"
  PROVE  TokenReply(r) \/ (TokenValid /\ UNCHANGED token)
<1>1. TypeOK
  BY DEF IInv
<1>2. ASSUME NEW q \in Reqs, Call(q) PROVE TokenValid /\ UNCHANGED token
  BY <1>1, <1>2 DEF Call, TypeOK
<1>3. ASSUME NEW q \in Reqs, NEW is, NEW v, Respond(q, is, v) PROVE FALSE
  BY <1>1, <1>3 DEF Respond, TypeOK
<1>4. ASSUME NEW q \in Reqs, GatewayStep(q) \/ GiveUp(q) \/ \E k \in KindsOf[q] : Ask(q, k)
      PROVE  TokenReply(r) \/ (TokenValid /\ UNCHANGED token)
  <2>1. CASE ArriveGet(q) \/ ArrivePost(q) \/ Wake(q)
    BY <1>1, <1>2, <1>3, <2>1 DEF ArriveGet, ArrivePost, Wake, TypeOK
  <2>2. CASE TokenReply(q)
    BY <1>1, <2>2 DEF TokenReply, TypeOK
  <2>3. CASE Reply(q) \/ CallFails(q)
    BY <1>3, <2>3 DEF Reply, CallFails
  <2>4. CASE GiveUp(q) \/ \E k \in KindsOf[q] : Ask(q, k)
    BY <1>1, <2>4 DEF GiveUp, Ask, TypeOK
  <2> QED BY <1>4, <2>1, <2>2, <2>3, <2>4 DEF GatewayStep
<1>5. CASE Tick \/ Change \/ Restart
  BY <1>5 DEF Tick, Change, Restart
<1> QED BY <1>4, <1>5 DEF Next

\* M2MTokenProvider: no call goes out with a token that has expired, for any lives of tokens
\* and any time the calls for them take, unless the answer with it took longer than the
\* skew, or, for the call that asked for it, as long as its life.
THEOREM TokenNeverStale == Spec => TokenAlive
<1> DEFINE Alive ==
      \A r \in Reqs : pc[r] # "fetch" /\ pc'[r] = "fetch" =>
        \/ now < token'.dies
        \/ token'.slow
        \/ pc[r] = "token" /\ now - sent[r].at >= token'.until - now
<1>1. ASSUME IInv, Next PROVE Alive
  <2> SUFFICES ASSUME NEW r \in Reqs, pc[r] # "fetch", pc'[r] = "fetch"
               PROVE  \/ now < token'.dies
                      \/ token'.slow
                      \/ pc[r] = "token" /\ now - sent[r].at >= token'.until - now
    OBVIOUS
  <2>1. \/ TokenReply(r)
        \/ TokenValid /\ UNCHANGED token
    BY <1>1, GoesOut
  <2>2. TypeOK /\ TokenKnown /\ now \in Nat /\ token.until \in Nat /\ token.dies \in Nat
    BY <1>1 DEF IInv, TypeOK
  <2>3. CASE TokenValid /\ UNCHANGED token
    BY <2>2, <2>3, TimesAreNat DEF TokenValid, TokenKnown
  <2>4. CASE TokenReply(r)
    <3>1. sent[r].at \in Nat /\ sent[r].at <= now /\ pc[r] = "token"
      BY <1>1, <2>2, <2>4 DEF TypeOK, IInv, CallRecent, TokenReply
    <3>2. PICK issued \in sent[r].at .. now, life \in Lives :
            token' = [until |-> now + life, dies |-> issued + life, slow |-> now - sent[r].at > Skew]
      BY <2>4 DEF TokenReply
    <3>3. life \in Nat /\ issued \in Nat /\ sent[r].at <= issued
      BY <3>1, <3>2, <2>2, TimesAssumption
    <3>4. token'.until - now = life /\ token'.dies = issued + life
      BY <2>2, <3>2, <3>3
    <3> QED BY <2>2, <3>1, <3>3, <3>4
  <2> QED BY <2>1, <2>3, <2>4
<1>2. IInv /\ [Next]_vars => [Alive]_vars
  BY <1>1
<1> QED BY <1>2, Invariance, PTL DEF Spec, TokenAlive

(***************************************************************************)
(* ApiGateway implements CachedSource: a response with a value is its      *)
(* Answer, any other its NoValue, and one that nobody waits for, or a step *)
(* inside the gateway, changes nothing there.                              *)
(***************************************************************************)

Seen == <<now, changed, shown, floor, newest>>

\* A response with a version that is recent enough, and not older than what was shown.
LEMMA ValueIsAnswer ==
  ASSUME IInv, NEW r \in Reqs, NEW v \in newest .. Version,
         v < Version => now - changed[v + 1] <= Ttl + Timeout, Respond(r, "value", v)
  PROVE  [Promise!Next]_Seen
<1>1. /\ TypeOK /\ Version \in Nat /\ newest \in Nat /\ floor[r] \in Nat /\ floor[r] <= newest
      /\ Promise!Version = Version
  <2>1. TypeOK /\ Promise!Version = Version
    BY DEF IInv, Promise!Version, Version
  <2>2. Version \in Nat
    BY <2>1, VersionIsNat
  <2> QED BY <2>1, <2>2 DEF IInv, TypeOK, ShownInOrder
<1>2. UNCHANGED <<now, changed>> /\ Show({r}, "value", v)
  BY DEF Respond, source
<1>3. CASE Waiting(r)
  <2>1. {q \in {r} : Waiting(q)} = {r}
    BY <1>3
  <2>2. /\ shown' = [q \in Reqs |-> IF q \in {r} THEN Result("value", v) ELSE shown[q]]
        /\ floor' = [q \in Reqs |-> IF q \in {r} THEN 0 ELSE floor[q]]
        /\ newest' = IF v > newest THEN v ELSE newest
    BY <1>2, <2>1 DEF Show
  <2>3. shown' = [shown EXCEPT ![r] = Result("value", v)] /\ floor' = [floor EXCEPT ![r] = 0]
    BY <1>1, <2>2 DEF TypeOK
  <2>4. v \in floor[r] .. Version /\ v \in 0 .. Version
    BY <1>1
  <2>5. Promise!Answer(r, v)
    BY <1>1, <1>2, <1>3, <2>2, <2>3, <2>4 DEF Promise!Answer, Promise!Recent, Promise!Result, Result, Waiting
  <2> QED BY <1>1, <2>4, <2>5 DEF Promise!Next
<1>4. CASE ~ Waiting(r)
  <2>1. {q \in {r} : Waiting(q)} = {}
    BY <1>4
  <2>2. /\ shown' = [q \in Reqs |-> shown[q]] /\ floor' = [q \in Reqs |-> floor[q]]
        /\ newest' = newest
    BY <1>2, <2>1 DEF Show
  <2> QED BY <1>1, <1>2, <2>2 DEF TypeOK, Seen
<1> QED BY <1>3, <1>4

\* The end of requests that are shown no value.
LEMMA EmptyIsNoValue ==
  ASSUME IInv, NEW R \in SUBSET Reqs, NEW is \in {"none", "none"}, Show(R, is, 0),
         UNCHANGED <<now, changed>>
  PROVE  [Promise!Next]_Seen
<1> DEFINE done == {r \in R : Waiting(r)}
<1>1. /\ shown' = [r \in Reqs |-> IF r \in done THEN Result(is, 0) ELSE shown[r]]
      /\ floor' = [r \in Reqs |-> IF r \in done THEN 0 ELSE floor[r]]
      /\ newest' = newest
  BY DEF Show, IInv, TypeOK
<1>2. done \in SUBSET Reqs /\ \A r \in done : shown[r].is = "waiting"
  BY DEF Waiting
<1>3. Promise!NoValue(done)
  BY <1>1, <1>2 DEF Promise!NoValue, Promise!Result, Result
<1> QED BY <1>2, <1>3 DEF Promise!Next

LEMMA HitIsAnswer ==
  ASSUME IInv, NEW r \in Reqs, Fresh, Respond(r, "value", entry.value)
  PROVE  [Promise!Next]_Seen
<1>1. /\ TypeOK /\ Version \in Nat /\ newest \in Nat /\ now \in Nat /\ entry.at \in Nat
      /\ entry.value \in newest .. Version /\ now - entry.at < Ttl
      /\ Until(entry.value, entry.at - Timeout)
  <2>1. TypeOK /\ entry # NoEntry /\ now - entry.at < Ttl /\ newest <= entry.value
        /\ Until(entry.value, entry.at - Timeout)
    BY DEF IInv, ShownInOrder, EntryRecent, Fresh
  <2>2. Version \in Nat
    BY <2>1, VersionIsNat
  <2>3. newest \in Nat /\ now \in Nat /\ entry \in [at : Nat, value : 0 .. Version]
    BY <2>1 DEF TypeOK
  <2>4. entry.at \in Nat /\ entry.value \in newest .. Version
    BY <2>1, <2>2, <2>3
  <2> QED BY <2>1, <2>2, <2>3, <2>4
<1>2. ASSUME entry.value < Version PROVE now - changed[entry.value + 1] <= Ttl + Timeout
  <2>1. entry.value \in entry.value .. Version - 1 /\ entry.value + 1 \in 1 .. Version
    BY <1>1, <1>2
  <2>2. changed[entry.value + 1] \in Nat
    BY <1>1, <2>1, ElementOfSeq DEF TypeOK, Version
  <2>3. entry.at - Timeout <= changed[entry.value + 1]
    BY <1>1, <2>1 DEF Until
  <2> QED BY <1>1, <2>2, <2>3, TimesAreNat
<1> QED BY <1>1, <1>2, ValueIsAnswer

LEMMA ReplyIsAnswer ==
  ASSUME IInv, NEW r \in Reqs, Reply(r) PROVE [Promise!Next]_Seen
<1>1. /\ TypeOK /\ Version \in Nat /\ newest \in Nat /\ now \in Nat /\ sent[r].at \in Nat
      /\ sent[r].seen \in 0 .. Version /\ now <= sent[r].at + Timeout
      /\ Until(sent[r].seen, sent[r].at) /\ pc[r] = "fetch"
  <2>1. TypeOK /\ pc[r] = "fetch"
    BY DEF IInv, Reply
  <2>2. Version \in Nat
    BY <2>1, VersionIsNat
  <2>3. now <= sent[r].at + Timeout /\ Until(sent[r].seen, sent[r].at)
    BY <2>1 DEF IInv, CallRecent
  <2>4. newest \in Nat /\ now \in Nat /\ sent[r] \in [at : Nat, seen : 0 .. Version]
    BY <2>1 DEF TypeOK
  <2>5. sent[r].at \in Nat /\ sent[r].seen \in 0 .. Version
    BY <2>4
  <2> QED BY <2>1, <2>2, <2>3, <2>4, <2>5
<1>2. PICK v \in sent[r].seen .. Version :
        IF kind[r] = "get" THEN Respond(r, "value", v) ELSE Respond(r, "none", 0)
  BY DEF Reply
<1>3. CASE kind[r] = "get"
  <2>1. newest <= sent[r].seen
    BY <1>1, <1>3 DEF IInv, ShownInOrder, AtSource
  <2>2. v \in newest .. Version
    BY <1>1, <1>2, <2>1
  <2>3. ASSUME v < Version PROVE now - changed[v + 1] <= Ttl + Timeout
    <3>1. v \in sent[r].seen .. Version - 1 /\ v + 1 \in 1 .. Version
      BY <1>1, <1>2, <2>3
    <3>2. changed[v + 1] \in Nat
      BY <1>1, <3>1, ElementOfSeq DEF TypeOK, Version
    <3>3. sent[r].at <= changed[v + 1]
      BY <1>1, <3>1 DEF Until
    <3> QED BY <1>1, <3>2, <3>3, TimesAreNat
  <2> QED BY <1>2, <1>3, <2>2, <2>3, ValueIsAnswer
<1>4. CASE kind[r] # "get"
  BY <1>2, <1>4, EmptyIsNoValue DEF Respond, source
<1> QED BY <1>3, <1>4

LEMMA StepKeepsPromise ==
  IInv /\ [Next]_vars => [Promise!Next]_(Promise!vars)
<1> SUFFICES ASSUME IInv, [Next]_vars PROVE [Promise!Next]_Seen
  BY DEF Promise!vars, Seen
<1> USE DEF Seen
<1>1. ASSUME NEW r \in Reqs, ArriveGet(r) \/ ArrivePost(r) \/ Wake(r) PROVE [Promise!Next]_Seen
  BY <1>1, HitIsAnswer DEF ArriveGet, ArrivePost, Wake, Call, source, history
<1>2. ASSUME NEW r \in Reqs, TokenReply(r) PROVE [Promise!Next]_Seen
  BY <1>2 DEF TokenReply, source, history
<1>3. ASSUME NEW r \in Reqs, Reply(r) PROVE [Promise!Next]_Seen
  BY <1>3, ReplyIsAnswer
<1>4. ASSUME NEW r \in Reqs, CallFails(r) \/ GiveUp(r) PROVE [Promise!Next]_Seen
  <2>1. Show({r}, "none", 0) /\ UNCHANGED <<now, changed>>
    BY <1>4 DEF CallFails, GiveUp, Respond, source
  <2> QED BY <1>4, <2>1, EmptyIsNoValue
<1>5. ASSUME NEW r \in Reqs, NEW k \in KindsOf[r], Ask(r, k) PROVE [Promise!Next]_Seen
  <2>1. ~ Waiting(r)
    BY <1>5 DEF IInv, WaitsForWork, Ask
  <2>2. Promise!Ask(r)
    BY <1>5, <2>1 DEF Ask, Promise!Ask, Promise!Result, Result, Waiting, source
  <2> QED BY <1>5, <2>2 DEF Promise!Next
<1>6. ASSUME Tick PROVE [Promise!Next]_Seen
  BY <1>6 DEF Tick, Promise!Next, Promise!Tick, history
<1>7. ASSUME Change PROVE [Promise!Next]_Seen
  BY <1>7 DEF Change, Promise!Next, Promise!Change, history
<1>8. ASSUME Restart PROVE [Promise!Next]_Seen
  BY <1>8, EmptyIsNoValue DEF Restart, source
<1>9. CASE UNCHANGED vars
  BY <1>9 DEF vars, source, history
<1> QED BY <1>1, <1>2, <1>3, <1>4, <1>5, <1>6, <1>7, <1>8, <1>9 DEF Next, GatewayStep

\* remote_service.py and the gateway: whatever the app is shown was the source's at most
\* Ttl + Timeout ago, and is not older than anything shown before it was asked for, for
\* any number of requests and any times.
THEOREM PromiseKept == Spec => KeepsPromise
<1>1. Init => Promise!Init
  BY DEF Init, Promise!Init, Promise!Result, Result
<1> QED BY <1>1, Invariance, StepKeepsPromise, PTL DEF Spec, KeepsPromise, Promise!Spec
=============================================================================
