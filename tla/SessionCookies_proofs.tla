------------------------ MODULE SessionCookies_proofs ------------------------
(***************************************************************************)
(* For any number of requests in flight and of sessions: the types of      *)
(* SessionCookies; that no answer puts back older tokens (IInv); that a    *)
(* live session keeps its tokens and a logout ends it (KInv); and that the *)
(* page's CSRF value stays the cookie's (WInv), up to the causes that the  *)
(* properties name.                                                        *)
(***************************************************************************)
EXTENDS SessionCookies, TLAPS

-----------------------------------------------------------------------------
(* The inductive invariant. *)

\* The conditions of NoRollback.
Strict == revoking /\ "evicted" \notin causes

\* No cookies with tokens and without a CSRF value.
Paired(c) == c.bundle # NoBundle => c.csrf # 0

\* Of the tokens of one login (one CSRF value), c has older ones than r.
Older(c, r) == c.csrf = r.csrf /\ c.bundle.sid = r.bundle.sid => c.bundle.gen < r.bundle.gen

\* c is not of r's login.
Foreign(c, r) == c.csrf # r.csrf

\* An answer that carries a session: that of a new login, or a renewed one.
Carries(p) == req[p].pc = "answered" /\ req[p].reply.set = "session"

\* What p's answer carries is newer than c, or of another login than c.
Yields(c, p) ==
  Carries(p) => IF req[p].kind = "callback" THEN Foreign(c, req[p].reply)
                ELSE Older(c, req[p].reply)

Ordered ==
  /\ Paired(jar)
  /\ \A p \in Reqs :
       /\ Paired(req[p].sent)
       /\ Carries(p) => req[p].reply.csrf # 0
       /\ Yields(jar, p)
       /\ \A q \in Reqs : Yields(req[q].sent, p) /\ (q # p => Yields(req[q].reply, p))

IInv == TypeOK /\ (Strict => Ordered)

-----------------------------------------------------------------------------
(* Types. *)

LEMMA Constants ==
  /\ NoBundle \in Bundles /\ EmptyJar \in Jars /\ Nothing \in Replies /\ Clear \in Replies
  /\ [Nothing EXCEPT !.set = "state"] \in Replies
  /\ Idle \in Requests
  BY DEF NoBundle, Bundles, EmptyJar, Jars, Nothing, Replies, Clear, Idle, Requests, Kinds

LEMMA InitType == Init => TypeOK
  BY Constants, RealmsAssumption
     DEF Init, TypeOK, Issued, Idle, EmptyJar, Nothing

\* Keycloak's and the server's counters only grow.
LEMMA Growth ==
  ASSUME TypeOK, Next
  PROVE  /\ newest' \in [Sids -> Nat] /\ \A s \in Sids : newest[s] <= newest'[s]
         /\ minted' \in Nat /\ minted <= minted'
         /\ revoking' = revoking /\ causes \subseteq causes' /\ causes' \subseteq Causes
         /\ stale' \in [Sids -> Nat] /\ phase' \in [Sids -> {"new", "live", "over"}]
         /\ sends' \in Nat
<1>1. CASE \E s \in Sids : AccessTokenExpires(s) \/ SessionEnds(s)
  BY <1>1 DEF AccessTokenExpires, SessionEnds, Live, TypeOK
<1>2. CASE Evict
  <2>1. UNCHANGED <<revoking, phase, newest, stale, minted, sends>>
    BY <1>2 DEF Evict, keycloakVars
  <2>2. causes' = causes \cup {"evicted"}
    BY <1>2 DEF Evict
  <2>3. causes \subseteq causes' /\ causes' \subseteq Causes
    BY <2>2 DEF TypeOK, Causes
  <2> QED
    BY <2>1, <2>3 DEF TypeOK
<1>3. ASSUME NEW p \in Reqs, NEW kind \in Kinds, Send(p, kind)
      PROVE  sends' \in Nat /\ UNCHANGED <<keycloakVars, minted, causes>>
  BY <1>3 DEF Send, TypeOK
<1>4. ASSUME NEW p \in Reqs, NEW s \in Sids, Authenticate(p, s)
      PROVE  /\ phase' \in [Sids -> {"new", "live", "over"}]
             /\ UNCHANGED <<revoking, newest, stale, minted, sends, causes>>
  BY <1>4 DEF Authenticate, TypeOK
<1> DEFINE CausesGrow == causes \subseteq causes' /\ causes' \subseteq Causes
<1>5. ASSUME NEW p \in Reqs,
             \/ RefuseRequest(p) \/ AdmitRequest(p) \/ NothingToRefresh(p)
             \/ RefreshRejected(p) \/ Login(p) \/ Arrive(p) \/ Lose(p)
      PROVE  /\ UNCHANGED <<keycloakVars, sends>> /\ minted' \in {minted, minted + 1}
             /\ CausesGrow
  <2>1. CASE RefuseRequest(p) \/ AdmitRequest(p) \/ NothingToRefresh(p) \/ Login(p)
    BY <2>1 DEF RefuseRequest, AdmitRequest, NothingToRefresh, Login, Refuse, Mints, TypeOK
  <2>2. CASE RefreshRejected(p) \/ Arrive(p) \/ Lose(p)
    BY <2>2 DEF RefreshRejected, Arrive, Lose, Blame, Dropped, Causes, TypeOK
  <2> QED
    BY <1>5, <2>1, <2>2
<1>6. ASSUME NEW p \in Reqs,
             \/ RotateRequest(p) \/ Refresh(p) \/ RefreshFails(p)
             \/ Callback(p) \/ CallbackFails(p)
      PROVE  /\ UNCHANGED sends /\ minted' \in {minted, minted + 1}
             /\ (\E s \in Sids : Issues(s)) \/ UNCHANGED keycloakVars
             /\ CausesGrow
  <2>1. CASE RotateRequest(p) \/ Refresh(p)
    BY <2>1 DEF RotateRequest, Refresh, Usable, Live, Mints, Blame, Dropped, Causes, TypeOK
  <2>2. CASE RefreshFails(p)
    BY <2>2 DEF RefreshFails, Usable, Live, Refuse, Blame, Dropped, Causes, TypeOK
  <2>3. CASE Callback(p) \/ CallbackFails(p)
    BY <2>3 DEF Callback, CallbackFails, Live, Refuse, Blame, Dropped, Causes, TypeOK
  <2> QED
    BY <1>6, <2>1, <2>2, <2>3
<1>7. ASSUME NEW p \in Reqs, Logout(p)
      PROVE  /\ UNCHANGED <<revoking, newest, stale, minted, sends>>
             /\ phase' \in [Sids -> {"new", "live", "over"}]
             /\ CausesGrow
  BY <1>7 DEF Logout, Live, Blame, Causes, TypeOK
<1>8. ASSUME NEW p \in Reqs, NEW s \in Sids, Issues(s)
      PROVE  /\ newest' \in [Sids -> Nat] /\ \A t \in Sids : newest[t] <= newest'[t]
             /\ UNCHANGED <<revoking, phase, stale>>
  BY <1>8 DEF Issues, TypeOK
<1>9. ASSUME NEW p \in Reqs,
             \/ RotateRequest(p) \/ Refresh(p) \/ RefreshFails(p)
             \/ Callback(p) \/ CallbackFails(p)
      PROVE  /\ newest' \in [Sids -> Nat] /\ \A t \in Sids : newest[t] <= newest'[t]
             /\ UNCHANGED <<revoking, phase, stale>>
  BY <1>6, <1>8, <1>9 DEF keycloakVars, TypeOK
<1> HIDE DEF CausesGrow
<1> QED
  <2>1. CASE \E p \in Reqs : \E kind \in Kinds \ {"none", "callback"} : Send(p, kind)
    BY <2>1, <1>3 DEF TypeOK, keycloakVars
  <2>2. CASE \E p \in Reqs : \E s \in Sids : Authenticate(p, s)
    BY <2>2, <1>4 DEF TypeOK
  <2>3. CASE \E p \in Reqs : \/ RefuseRequest(p) \/ AdmitRequest(p) \/ NothingToRefresh(p)
                             \/ RefreshRejected(p) \/ Login(p) \/ Arrive(p) \/ Lose(p)
    BY <2>3, <1>5 DEF TypeOK, keycloakVars, CausesGrow
  <2>4. CASE \E p \in Reqs : \/ RotateRequest(p) \/ Refresh(p) \/ RefreshFails(p)
                             \/ Callback(p) \/ CallbackFails(p)
    BY <2>4, <1>6, <1>9 DEF TypeOK, CausesGrow
  <2>5. CASE \E p \in Reqs : Logout(p)
    BY <2>5, <1>7 DEF TypeOK, CausesGrow
  <2> QED
    BY <1>1, <1>2, <2>1, <2>2, <2>3, <2>4, <2>5 DEF Next

\* c was issued before the end of this step.
IssuedBy(c) ==
  /\ c.csrf <= minted'
  /\ \/ c.bundle = NoBundle
     \/ c.bundle.sid \in Sids /\ c.bundle.gen \in 1 .. newest'[c.bundle.sid]

LEMMA StillIssued ==
  ASSUME TypeOK, Next, NEW c \in Jars \cup Replies, Issued(c)
  PROVE  IssuedBy(c)
<1>1. c.csrf \in Nat /\ c.bundle \in Bundles
  BY DEF Jars, Replies
<1> QED
  BY <1>1, Growth DEF Issued, IssuedBy, TypeOK, Bundles

\* The answers are well typed when the answer given is.
LEMMA AnswerType ==
  ASSUME TypeOK, Next, NEW p \in Reqs, NEW reply \in Replies, Answer(p, reply), IssuedBy(reply)
  PROVE  /\ req' \in [Reqs -> Requests]
         /\ \A q \in Reqs : IssuedBy(req'[q].sent) /\ IssuedBy(req'[q].reply)
<1>1. req' = [req EXCEPT ![p] = [@ EXCEPT !.pc = "answered", !.reply = reply]]
  BY DEF Answer, TypeOK, Requests
<1>2. req' \in [Reqs -> Requests]
  BY <1>1 DEF TypeOK, Requests
<1>3. ASSUME NEW q \in Reqs PROVE IssuedBy(req[q].sent) /\ IssuedBy(req[q].reply)
  BY StillIssued DEF TypeOK, Requests
<1>4. ASSUME NEW q \in Reqs PROVE IssuedBy(req'[q].sent) /\ IssuedBy(req'[q].reply)
  <2>1. /\ req'[q].sent = req[q].sent
        /\ req'[q].reply \in {req[q].reply, reply}
    BY <1>1 DEF TypeOK, Requests
  <2> QED
    BY <2>1, <1>3
<1> QED
  BY <1>2, <1>4

LEMMA SessionType ==
  ASSUME TypeOK, NEW p \in Reqs, NEW b \in Bundles
  PROVE  /\ Session(p, b) \in Replies
         /\ Mints(p) => Session(p, b).csrf <= minted'
<1>1. req[p].sent.csrf \in Nat /\ req[p].sent.csrf <= minted /\ minted \in Nat
  BY DEF TypeOK, Requests, Jars, Issued
<1> QED
  BY <1>1 DEF Session, Replies, Mints

LEMMA EmptyIssued ==
  ASSUME TypeOK, Next
  PROVE  /\ IssuedBy(Nothing) /\ IssuedBy(Clear) /\ IssuedBy(EmptyJar)
         /\ IssuedBy([Nothing EXCEPT !.set = "state"])
  BY Growth DEF Nothing, Clear, EmptyJar, IssuedBy, TypeOK

\* A handler's answer.
LEMMA HandlerType ==
  ASSUME TypeOK, Next, NEW p \in Reqs,
         \/ RefuseRequest(p) \/ AdmitRequest(p) \/ RotateRequest(p)
         \/ NothingToRefresh(p) \/ Refresh(p) \/ RefreshRejected(p) \/ RefreshFails(p)
         \/ Logout(p) \/ Login(p) \/ Callback(p) \/ CallbackFails(p)
  PROVE  /\ UNCHANGED browserVars
         /\ \E reply \in Replies : Answer(p, reply) /\ IssuedBy(reply)
<1> DEFINE b == req[p].sent.bundle
           Answers == \E reply \in Replies : Answer(p, reply) /\ IssuedBy(reply)
<1>0. /\ b \in Bundles /\ req[p].sent.csrf \in Nat /\ req[p].code \in Sids \cup {NoSid}
      /\ IssuedBy(req[p].sent)
  BY StillIssued DEF TypeOK, Requests, Jars
<1>1. Answer(p, Nothing) \/ Answer(p, Clear) \/ Answer(p, [Nothing EXCEPT !.set = "state"])
        => Answers
  BY Constants, EmptyIssued
<1>2. ASSUME NEW c \in Bundles, Answer(p, Session(p, c)), Mints(p),
             c.sid \in Sids, c.gen \in 1 .. newest'[c.sid]
      PROVE  Answers
  <2>1. Session(p, c) \in Replies /\ Session(p, c).csrf <= minted' /\ Session(p, c).bundle = c
    BY <1>2, SessionType DEF Session
  <2> QED
    BY <1>2, <2>1 DEF IssuedBy
<1>3. ASSUME Usable(b), Issues(b.sid)
      PROVE  /\ Refreshed(b) \in Bundles /\ Refreshed(b).sid \in Sids
             /\ Refreshed(b).gen \in 1 .. newest'[Refreshed(b).sid]
  BY <1>3 DEF Usable, Live, Issues, Refreshed, Bundles, TypeOK
<1>4. CASE RefuseRequest(p) \/ NothingToRefresh(p)
  BY <1>1, <1>4 DEF RefuseRequest, NothingToRefresh, Refuse
<1>5. CASE AdmitRequest(p)
  <2>1. b.sid \in Sids /\ b.gen \in 1 .. newest'[b.sid]
    BY <1>0, <1>5, NamesAssumption DEF AdmitRequest, Valid, IssuedBy, NoBundle
  <2> QED
    BY <1>0, <1>1, <1>2, <1>5, <2>1 DEF AdmitRequest
<1>6. CASE RotateRequest(p)
  BY <1>1, <1>2, <1>3, <1>6 DEF RotateRequest
<1>7. CASE Refresh(p)
  BY <1>2, <1>3, <1>7 DEF Refresh
<1>8. CASE RefreshRejected(p) \/ RefreshFails(p)
  BY <1>1, <1>8 DEF RefreshRejected, RefreshFails, Refuse
<1>9. CASE Logout(p) \/ Login(p)
  BY <1>1, <1>9 DEF Logout, Login
<1>10. CASE CallbackFails(p)
  BY <1>1, <1>10 DEF CallbackFails, Refuse
<1>11. CASE Callback(p)
  <2> DEFINE s == req[p].code
             reply == [set |-> "session", csrf |-> minted + 1,
                       bundle |-> [sid |-> s, gen |-> newest[s] + 1]]
  <2>1. s \in Sids /\ newest'[s] = newest[s] + 1 /\ newest[s] \in Nat /\ minted \in Nat
    BY <1>11 DEF Callback, Live, Issues, TypeOK
  <2>2. reply \in Replies /\ IssuedBy(reply)
    BY <2>1, <1>11 DEF Callback, Replies, Bundles, IssuedBy
  <2> QED
    BY <1>11, <2>2 DEF Callback
<1> QED
  BY <1>4, <1>5, <1>6, <1>7, <1>8, <1>9, <1>10, <1>11

\* The same tokens and CSRF value.
SameCookies(c, d) == c.bundle = d.bundle /\ c.csrf = d.csrf

LEMMA CookiesSent ==
  ASSUME TypeOK, NEW kind \in Kinds
  PROVE  /\ CookiesFor(kind) \in Jars
         /\ SameCookies(CookiesFor(kind), jar) \/ CookiesFor(kind) = EmptyJar
         /\ IssuedBy(jar) /\ IssuedBy(EmptyJar) => IssuedBy(CookiesFor(kind))
  BY Constants DEF CookiesFor, SameCookies, TypeOK, Jars, IssuedBy

\* What the browser and the requests hold after a step.
LEMMA HoldersType ==
  ASSUME TypeOK, Next
  PROVE  /\ jar' \in Jars /\ IssuedBy(jar') /\ tab' \in Nat /\ mine' \in Sids \cup {NoSid}
         /\ req' \in [Reqs -> Requests]
         /\ \A q \in Reqs : IssuedBy(req'[q].sent) /\ IssuedBy(req'[q].reply)
<1> DEFINE BrowserGoal == /\ jar' \in Jars /\ IssuedBy(jar') /\ tab' \in Nat
                          /\ mine' \in Sids \cup {NoSid}
           RequestGoal == /\ req' \in [Reqs -> Requests]
                          /\ \A q \in Reqs : IssuedBy(req'[q].sent) /\ IssuedBy(req'[q].reply)
<1>1. IssuedBy(jar) /\ jar \in Jars
  BY StillIssued DEF TypeOK
<1>2. ASSUME NEW q \in Reqs
      PROVE  /\ req[q] \in Requests /\ req[q].sent \in Jars /\ req[q].reply \in Replies
             /\ IssuedBy(req[q].sent) /\ IssuedBy(req[q].reply)
  BY StillIssued DEF TypeOK, Requests
<1>3. UNCHANGED browserVars => BrowserGoal
  BY <1>1 DEF browserVars, TypeOK
<1>4. UNCHANGED req => RequestGoal
  BY <1>2 DEF TypeOK
<1>5. ASSUME NEW p \in Reqs, NEW r \in Requests, req' = [req EXCEPT ![p] = r],
             IssuedBy(r.sent), IssuedBy(r.reply)
      PROVE  RequestGoal
  BY <1>2, <1>5 DEF TypeOK
<1>6. /\ Idle.sent = EmptyJar /\ Idle.reply = Nothing
      /\ IssuedBy(EmptyJar) /\ IssuedBy(Nothing)
  BY EmptyIssued DEF Idle
<1>7. CASE \E s \in Sids : AccessTokenExpires(s) \/ SessionEnds(s)
  BY <1>3, <1>4, <1>7 DEF AccessTokenExpires, SessionEnds
<1>8. CASE Evict
  <2>1. /\ jar' = [jar EXCEPT !.csrf = 0] /\ UNCHANGED <<tab, mine, req>>
    BY <1>8 DEF Evict
  <2>2. jar' \in Jars /\ IssuedBy(jar')
    BY <1>1, <2>1, Growth DEF Jars, IssuedBy
  <2> QED
    BY <1>4, <2>1, <2>2 DEF TypeOK
<1>9. ASSUME NEW p \in Reqs, NEW kind \in Kinds, Send(p, kind)
      PROVE  BrowserGoal /\ RequestGoal
  <2> DEFINE r == [Idle EXCEPT !.pc = "sent", !.kind = kind, !.sent = CookiesFor(kind),
                               !.header = IF kind = "write" THEN tab ELSE 0]
  <2>0. CookiesFor(kind) \in Jars /\ IssuedBy(CookiesFor(kind))
    BY <1>1, <1>6, CookiesSent
  <2>1. r \in Requests /\ r.sent = CookiesFor(kind) /\ r.reply = Nothing
    BY <2>0, Constants DEF Idle, Requests, TypeOK
  <2>2. req' = [req EXCEPT ![p] = r] /\ UNCHANGED browserVars
    BY <1>9 DEF Send
  <2> HIDE DEF r
  <2> QED
    BY <1>3, <1>5, <1>6, <2>0, <2>1, <2>2
<1>10. ASSUME NEW p \in Reqs, NEW s \in Sids, Authenticate(p, s)
       PROVE  BrowserGoal /\ RequestGoal
  <2> DEFINE r == [req[p] EXCEPT !.pc = "sent", !.kind = "callback", !.sent = jar, !.code = s]
  <2>1. r \in Requests /\ r.sent = jar /\ r.reply = req[p].reply
    BY <1>1, <1>2 DEF Requests, Kinds
  <2>2. req' = [req EXCEPT ![p] = r] /\ UNCHANGED browserVars
    BY <1>10 DEF Authenticate, TypeOK, Requests
  <2> HIDE DEF r
  <2> QED
    BY <1>1, <1>2, <1>3, <1>5, <2>1, <2>2
<1>11. ASSUME NEW p \in Reqs,
              \/ RefuseRequest(p) \/ AdmitRequest(p) \/ RotateRequest(p)
              \/ NothingToRefresh(p) \/ Refresh(p) \/ RefreshRejected(p) \/ RefreshFails(p)
              \/ Logout(p) \/ Login(p) \/ Callback(p) \/ CallbackFails(p)
       PROVE  BrowserGoal /\ RequestGoal
  BY <1>3, <1>11, HandlerType, AnswerType
<1>12. ASSUME NEW p \in Reqs, Arrive(p)
       PROVE  BrowserGoal /\ RequestGoal
  <2> DEFINE r == req[p].reply
             next == IF r.set = "state" THEN [Idle EXCEPT !.pc = "keycloak"] ELSE Idle
  <2>1. next \in Requests /\ next.sent = EmptyJar /\ next.reply = Nothing
    BY Constants DEF Idle, Requests
  <2>2. req' = [req EXCEPT ![p] = next]
    BY <1>12 DEF Arrive
  <2>3. RequestGoal
    <3> HIDE DEF next
    <3> QED
      BY <1>5, <1>6, <2>1, <2>2
  <2>4. r \in Replies /\ IssuedBy(r)
    BY <1>2
  <2>5. jar' \in { jar, [jar EXCEPT !.state = p], [jar EXCEPT !.bundle = NoBundle, !.csrf = 0],
                   [bundle |-> r.bundle, csrf |-> r.csrf, state |-> NoReq],
                   [bundle |-> r.bundle, csrf |-> r.csrf, state |-> jar.state] }
    BY <1>12, <2>4 DEF Arrive, Replies
  <2>6. jar' \in Jars /\ IssuedBy(jar')
    <3>1. jar.bundle \in Bundles /\ jar.csrf \in Nat /\ jar.state \in Reqs \cup {NoReq}
      BY <1>1 DEF Jars
    <3>2. r.bundle \in Bundles /\ r.csrf \in Nat
      BY <2>4 DEF Replies
    <3>3. CASE jar' = jar \/ jar' = [jar EXCEPT !.state = p]
      BY <1>1, <3>1, <3>3 DEF Jars, IssuedBy
    <3>4. CASE jar' = [jar EXCEPT !.bundle = NoBundle, !.csrf = 0]
      <4>1. jar' = [bundle |-> NoBundle, csrf |-> 0, state |-> jar.state]
        BY <1>1, <3>4 DEF Jars
      <4> QED
        BY <3>1, <4>1, Constants, Growth DEF Jars, IssuedBy
    <3>5. ASSUME NEW st \in Reqs \cup {NoReq},
                 jar' = [bundle |-> r.bundle, csrf |-> r.csrf, state |-> st]
          PROVE  jar' \in Jars /\ IssuedBy(jar')
      BY <2>4, <3>2, <3>5 DEF Jars, IssuedBy
    <3> QED
      BY <2>5, <3>1, <3>3, <3>4, <3>5
  <2>7. /\ r.set = "session" => r.bundle.sid \in Sids \cup {NoSid}
        /\ r.csrf \in Nat
    BY <2>4 DEF Replies, Bundles
  <2>8. tab' \in Nat /\ mine' \in Sids \cup {NoSid}
    BY <1>12, <2>7 DEF Arrive, TypeOK
  <2> QED
    BY <2>3, <2>6, <2>8
<1>13. ASSUME NEW p \in Reqs, Lose(p)
       PROVE  BrowserGoal /\ RequestGoal
  <2>1. req' = [req EXCEPT ![p] = Idle] /\ UNCHANGED browserVars
    BY <1>13 DEF Lose
  <2> QED
    BY <1>3, <1>5, <1>6, <2>1, Constants
<1> QED
  BY <1>7, <1>8, <1>9, <1>10, <1>11, <1>12, <1>13 DEF Next

LEMMA StepType == TypeOK /\ [Next]_vars => TypeOK'
<1> SUFFICES ASSUME TypeOK, [Next]_vars PROVE TypeOK'
  OBVIOUS
<1>1. CASE UNCHANGED vars
  BY <1>1 DEF vars, keycloakVars, browserVars, TypeOK, Issued
<1>2. CASE Next
  <2>1. Issued(jar)' /\ \A q \in Reqs : Issued(req[q].sent)' /\ Issued(req[q].reply)'
    BY <1>2, HoldersType DEF Issued, IssuedBy
  <2> QED
    BY <1>2, <2>1, HoldersType, Growth DEF TypeOK
<1> QED
  BY <1>1, <1>2

\* Types, and that every cookie held or on its way was issued.
THEOREM TypeCorrect == Spec => []TypeOK
  BY InitType, StepType, PTL DEF Spec

-----------------------------------------------------------------------------
(* Order. *)

\* A request that is sent, or whose answer arrives or is lost.
LEMMA OrderedBrowser ==
  ASSUME TypeOK, Ordered, NEW p \in Reqs, NEW r \in Requests,
         req' = [req EXCEPT ![p] = r], r.pc # "answered",
         SameCookies(r.sent, jar) \/ r.sent = EmptyJar, r.reply \in {req[p].reply, Nothing},
         \/ SameCookies(jar', jar) \/ SameCookies(jar', EmptyJar)
         \/ Carries(p) /\ SameCookies(jar', req[p].reply)
  PROVE  Ordered'
<1>1. /\ req'[p] = r
      /\ \A q \in Reqs \ {p} : req'[q] = req[q]
  BY DEF TypeOK
<1>2. EmptyJar.csrf = 0 /\ EmptyJar.bundle = NoBundle /\ Nothing.csrf = 0
  BY DEF EmptyJar, Nothing
<1>3. Paired(jar)' /\ \A q \in Reqs : Paired(req[q].sent)'
  BY <1>1, <1>2 DEF Ordered, Paired, SameCookies
<1>4. ASSUME NEW q \in Reqs, Carries(q)'
      PROVE  /\ q # p /\ req'[q] = req[q] /\ Carries(q) /\ req[q].reply.csrf # 0
             /\ Yields(jar, q) /\ Yields(req[p].reply, q)
  BY <1>1, <1>4 DEF Ordered, Carries
<1>5. ASSUME NEW q \in Reqs PROVE Yields(jar, q)'
  BY <1>2, <1>4 DEF Yields, Older, Foreign, SameCookies
<1>6. ASSUME NEW q \in Reqs, NEW t \in Reqs
      PROVE  Yields(req[t].sent, q)' /\ (t # q => Yields(req[t].reply, q)')
  <2> SUFFICES ASSUME Carries(q)'
               PROVE  Yields(req[t].sent, q)' /\ (t # q => Yields(req[t].reply, q)')
    BY DEF Yields
  <2>1. CASE t # p
    <3>1. req'[t] = req[t] /\ Yields(req[t].sent, q) /\ (t # q => Yields(req[t].reply, q))
      BY <1>1, <2>1 DEF Ordered
    <3> QED
      BY <1>4, <3>1 DEF Yields, Older, Foreign
  <2>2. CASE t = p
    BY <1>1, <1>2, <1>4, <2>2 DEF Yields, Older, Foreign, SameCookies
  <2> QED
    BY <2>1, <2>2
<1> QED
  BY <1>3, <1>4, <1>5, <1>6 DEF Ordered

\* An answer that carries nothing, the next tokens of the newest, or a new login.
Plain(reply) == reply.set # "session" /\ reply.csrf = 0
Renewal(p, reply) ==
  LET b == req[p].sent.bundle IN
  /\ req[p].kind # "callback" /\ b.sid \in Sids /\ b.gen = newest[b.sid]
  /\ reply.bundle = Refreshed(b) /\ reply.csrf = req[p].sent.csrf /\ reply.csrf # 0
NewLogin(p, reply) == req[p].kind = "callback" /\ reply.csrf = minted + 1

LEMMA OrderedAnswer ==
  ASSUME TypeOK, Ordered, NEW p \in Reqs, NEW reply \in Replies, Answer(p, reply),
         UNCHANGED jar, Plain(reply) \/ Renewal(p, reply) \/ NewLogin(p, reply)
  PROVE  Ordered'
<1>1. /\ \A q \in Reqs \ {p} : req'[q] = req[q]
      /\ req'[p].pc = "answered" /\ req'[p].reply = reply
      /\ req'[p].sent = req[p].sent /\ req'[p].kind = req[p].kind
  BY DEF Answer, TypeOK, Requests
<1>2. /\ jar.csrf \in Nat /\ jar.csrf <= minted /\ minted \in Nat
      /\ jar.bundle.gen \in Nat /\ newest \in [Sids -> Nat]
      /\ jar.bundle.sid \in Sids => jar.bundle.gen <= newest[jar.bundle.sid]
  BY NamesAssumption DEF TypeOK, Jars, Bundles, Issued, NoBundle
<1>3. ASSUME NEW q \in Reqs, NEW c \in {req[q].sent, req[q].reply}
      PROVE  /\ c.csrf \in Nat /\ c.csrf <= minted /\ c.bundle.gen \in Nat
             /\ c.bundle.sid \in Sids => c.bundle.gen <= newest[c.bundle.sid]
  BY NamesAssumption DEF TypeOK, Requests, Replies, Jars, Bundles, Issued, NoBundle
<1>4. ASSUME NEW q \in Reqs PROVE Paired(req[q].sent)'
  BY <1>1 DEF Ordered, Paired
<1>5. ASSUME NEW q \in Reqs, Carries(q)' PROVE (req[q].reply.csrf # 0)'
  BY <1>1, <1>2, <1>5 DEF Ordered, Carries, Plain, Renewal, NewLogin
\* Everything held yields to the new answer.
<1>6. ASSUME NEW c, c.csrf \in Nat, c.csrf <= minted, c.bundle.gen \in Nat,
             c.bundle.sid \in Sids => c.bundle.gen <= newest[c.bundle.sid], Carries(p)'
      PROVE  IF req[p].kind = "callback" THEN Foreign(c, reply) ELSE Older(c, reply)
  <2>1. Renewal(p, reply) \/ NewLogin(p, reply)
    BY <1>1, <1>6 DEF Carries, Plain
  <2> QED
    BY <1>2, <1>6, <2>1 DEF Renewal, NewLogin, Refreshed, Foreign, Older
\* The new answer yields to the others on their way.
<1>7. ASSUME NEW q \in Reqs, q # p, Carries(q)
      PROVE  IF req[q].kind = "callback" THEN Foreign(reply, req[q].reply)
             ELSE Older(reply, req[q].reply)
  <2>1. /\ req[q].reply.csrf # 0 /\ req[q].reply.csrf \in Nat /\ req[q].reply.csrf <= minted
        /\ req[q].reply.bundle.gen \in Nat
        /\ req[q].reply.bundle.sid \in Sids
             => req[q].reply.bundle.gen <= newest[req[q].reply.bundle.sid]
    BY <1>3, <1>7 DEF Ordered
  <2>2. CASE Plain(reply)
    BY <2>1, <2>2 DEF Plain, Foreign, Older
  <2>3. CASE NewLogin(p, reply)
    BY <1>2, <2>1, <2>3 DEF NewLogin, Foreign, Older
  <2>4. CASE Renewal(p, reply)
    <3>1. IF req[q].kind = "callback" THEN Foreign(req[p].sent, req[q].reply)
          ELSE Older(req[p].sent, req[q].reply)
      BY <1>7 DEF Ordered, Yields
    <3> QED
      BY <1>2, <2>1, <2>4, <3>1 DEF Renewal, Refreshed, Foreign, Older
  <2> QED
    BY <2>2, <2>3, <2>4
<1>8. ASSUME NEW q \in Reqs PROVE Yields(jar, q)'
  <2>1. CASE q = p
    BY <1>1, <1>2, <1>6, <2>1 DEF Yields
  <2>2. CASE q # p
    BY <1>1, <2>2 DEF Ordered, Yields, Carries, Foreign, Older
  <2> QED
    BY <2>1, <2>2
<1>9. ASSUME NEW q \in Reqs, NEW t \in Reqs
      PROVE  Yields(req[t].sent, q)' /\ (t # q => Yields(req[t].reply, q)')
  <2>1. CASE q = p
    <3>1. Carries(q)' => /\ IF req[p].kind = "callback" THEN Foreign(req[t].sent, reply)
                            ELSE Older(req[t].sent, reply)
                         /\ IF req[p].kind = "callback" THEN Foreign(req[t].reply, reply)
                            ELSE Older(req[t].reply, reply)
      BY <1>3, <1>6, <2>1
    <3>2. req'[t].sent = req[t].sent /\ (t # q => req'[t].reply = req[t].reply)
      BY <1>1, <2>1
    <3> QED
      BY <1>1, <2>1, <3>1, <3>2 DEF Yields
  <2>2. CASE q # p
    <3>1. req'[q] = req[q] /\ req'[t].sent = req[t].sent
      BY <1>1, <2>2
    <3>2. Yields(req[t].sent, q) /\ (t # q => Yields(req[t].reply, q))
      BY DEF Ordered
    <3>3. t = p \/ req'[t].reply = req[t].reply
      BY <1>1
    <3>4. Carries(q)' <=> Carries(q)
      BY <3>1 DEF Carries
    <3>5. Yields(req[t].sent, q)'
      BY <3>1, <3>2, <3>4 DEF Yields, Foreign, Older
    <3>6. CASE t = p
      BY <1>1, <1>7, <2>2, <3>1, <3>4, <3>5, <3>6 DEF Yields
    <3>7. CASE t # p
      BY <1>1, <3>1, <3>2, <3>4, <3>5, <3>7 DEF Yields, Foreign, Older
    <3> QED
      BY <3>6, <3>7
  <2> QED
    BY <2>1, <2>2
<1>10. Paired(jar)'
  BY DEF Ordered, Paired
<1> QED
  BY <1>4, <1>5, <1>8, <1>9, <1>10 DEF Ordered

\* The handlers give no other answers.
LEMMA OrderedHandler ==
  ASSUME TypeOK, Next, Strict, Ordered, NEW p \in Reqs,
         \/ RefuseRequest(p) \/ AdmitRequest(p) \/ RotateRequest(p)
         \/ NothingToRefresh(p) \/ Refresh(p) \/ RefreshRejected(p) \/ RefreshFails(p)
         \/ Logout(p) \/ Login(p) \/ Callback(p) \/ CallbackFails(p)
  PROVE  Ordered'
<1> DEFINE b == req[p].sent.bundle
<1>0. UNCHANGED jar
  BY HandlerType DEF browserVars
<1>1. Answer(p, Nothing) \/ Answer(p, Clear) \/ Answer(p, [Nothing EXCEPT !.set = "state"])
        => Ordered'
  <2>1. Plain(Nothing) /\ Plain(Clear) /\ Plain([Nothing EXCEPT !.set = "state"])
    BY DEF Plain, Nothing, Clear
  <2> QED
    BY <1>0, <2>1, OrderedAnswer, Constants
<1>2. b.sid \in Sids => req[p].sent.csrf # 0
  BY NamesAssumption DEF Ordered, Paired, NoBundle
<1>3. ASSUME Usable(b), Handles(p, {"read", "write", "refresh"}), Answer(p, Session(p, Refreshed(b)))
      PROVE  Ordered'
  <2>1. b \in Bundles /\ b.sid \in Sids /\ Refreshed(b) \in Bundles
    BY <1>3 DEF Usable, Live, Refreshed, TypeOK, Requests, Jars, Bundles
  <2>2. Session(p, Refreshed(b)) \in Replies
    BY <2>1, SessionType
  <2>3. Renewal(p, Session(p, Refreshed(b)))
    BY <1>2, <1>3, <2>1 DEF Renewal, Session, Usable, Strict, Handles
  <2> QED
    BY <1>0, <1>3, <2>2, <2>3, OrderedAnswer
<1>4. CASE RefuseRequest(p) \/ NothingToRefresh(p)
  BY <1>1, <1>4 DEF RefuseRequest, NothingToRefresh, Refuse
<1>5. CASE AdmitRequest(p)
  BY <1>1, <1>2, <1>5 DEF AdmitRequest, Valid
<1>6. CASE RotateRequest(p)
  BY <1>1, <1>3, <1>6 DEF RotateRequest, Handles
<1>7. CASE Refresh(p)
  BY <1>3, <1>7 DEF Refresh, Handles
<1>8. CASE RefreshRejected(p) \/ RefreshFails(p)
  BY <1>1, <1>8 DEF RefreshRejected, RefreshFails, Refuse
<1>9. CASE Logout(p) \/ Login(p)
  BY <1>1, <1>9 DEF Logout, Login
<1>10. CASE CallbackFails(p)
  BY <1>1, <1>10 DEF CallbackFails, Refuse
<1>11. CASE Callback(p)
  <2> DEFINE reply == [set |-> "session", csrf |-> minted + 1,
                       bundle |-> [sid |-> req[p].code, gen |-> newest[req[p].code] + 1]]
  <2>1. req[p].code \in Sids /\ newest[req[p].code] \in Nat /\ minted \in Nat
    BY <1>11 DEF Callback, Live, TypeOK
  <2>2. reply \in Replies /\ NewLogin(p, reply) /\ Answer(p, reply)
    BY <1>11, <2>1 DEF Callback, Replies, Bundles, NewLogin, Handles
  <2> QED
    BY <1>0, <2>2, OrderedAnswer
<1> QED
  BY <1>4, <1>5, <1>6, <1>7, <1>8, <1>9, <1>10, <1>11

\* What Arrive does to the cookies.
LEMMA ArriveEffect ==
  ASSUME TypeOK, NEW p \in Reqs, Arrive(p)
  PROVE  \/ SameCookies(jar', jar)
         \/ SameCookies(jar', EmptyJar)
         \/ Carries(p) /\ SameCookies(jar', req[p].reply)
  BY DEF Arrive, SameCookies, Carries, EmptyJar, TypeOK, Requests, Replies, Jars

LEMMA StepOrdered ==
  ASSUME IInv, Next, Strict'
  PROVE  Ordered'
<1>1. TypeOK /\ Strict /\ Ordered
  BY Growth DEF IInv, Strict
<1>2. CASE \E s \in Sids : AccessTokenExpires(s) \/ SessionEnds(s)
  <2>1. UNCHANGED <<jar, req>>
    BY <1>2 DEF AccessTokenExpires, SessionEnds, browserVars
  <2> QED
    BY <1>1, <2>1 DEF Ordered, Paired, Yields, Carries, Older, Foreign
<1>3. CASE Evict
  BY <1>3 DEF Evict, Strict
<1>4. ASSUME NEW p \in Reqs, NEW kind \in Kinds, Send(p, kind)
      PROVE  Ordered'
  <2> DEFINE r == [Idle EXCEPT !.pc = "sent", !.kind = kind, !.sent = CookiesFor(kind),
                               !.header = IF kind = "write" THEN tab ELSE 0]
  <2>1. /\ r \in Requests /\ r.pc # "answered" /\ r.sent = CookiesFor(kind)
        /\ r.reply = Nothing
    BY <1>1, CookiesSent, Constants DEF Idle, Requests, TypeOK
  <2>2. req' = [req EXCEPT ![p] = r] /\ SameCookies(jar', jar)
    BY <1>4 DEF Send, browserVars, SameCookies
  <2> HIDE DEF r
  <2> QED
    BY <1>1, <2>1, <2>2, CookiesSent, OrderedBrowser
<1>5. ASSUME NEW p \in Reqs, NEW s \in Sids, Authenticate(p, s)
      PROVE  Ordered'
  <2> DEFINE r == [req[p] EXCEPT !.pc = "sent", !.kind = "callback", !.sent = jar, !.code = s]
  <2>1. /\ r \in Requests /\ r.pc # "answered" /\ SameCookies(r.sent, jar)
        /\ r.reply = req[p].reply
    BY <1>1 DEF Requests, Kinds, TypeOK, SameCookies
  <2>2. req' = [req EXCEPT ![p] = r] /\ SameCookies(jar', jar)
    BY <1>1, <1>5 DEF Authenticate, TypeOK, Requests, browserVars, SameCookies
  <2> HIDE DEF r
  <2> QED
    BY <1>1, <2>1, <2>2, OrderedBrowser
<1>6. ASSUME NEW p \in Reqs, Arrive(p) \/ Lose(p)
      PROVE  Ordered'
  <2>1. PICK r \in {Idle, [Idle EXCEPT !.pc = "keycloak"]} : req' = [req EXCEPT ![p] = r]
    BY <1>6 DEF Arrive, Lose
  <2>2. r \in Requests /\ r.pc # "answered" /\ r.sent = EmptyJar /\ r.reply = Nothing
    BY <2>1, Constants DEF Idle, Requests
  <2>3. \/ SameCookies(jar', jar) \/ SameCookies(jar', EmptyJar)
        \/ Carries(p) /\ SameCookies(jar', req[p].reply)
    BY <1>1, <1>6, ArriveEffect DEF Lose, browserVars, SameCookies
  <2> QED
    BY <1>1, <2>1, <2>2, <2>3, OrderedBrowser
<1> QED
  BY <1>1, <1>2, <1>3, <1>4, <1>5, <1>6, OrderedHandler DEF Next

-----------------------------------------------------------------------------

LEMMA InitOK == Init => IInv
  BY InitType DEF Init, IInv, Ordered, Paired, Yields, Carries, EmptyJar, Idle

LEMMA StepOK == IInv /\ [Next]_vars => IInv'
<1> SUFFICES ASSUME IInv, [Next]_vars PROVE IInv'
  OBVIOUS
<1>1. TypeOK'
  BY StepType DEF IInv
<1>2. CASE Next
  BY <1>1, <1>2, StepOrdered DEF IInv
<1>3. CASE UNCHANGED vars
  BY <1>1, <1>3 DEF IInv, vars, keycloakVars, browserVars, Strict, Ordered, Paired, Yields,
     Carries, Older, Foreign
<1> QED
  BY <1>2, <1>3

LEMMA Invariance == Spec => []IInv
  BY InitOK, StepOK, PTL DEF Spec

\* With refresh tokens spent by their use, and the CSRF cookie in its place, no
\* answer puts back older tokens of a login, for any number of requests.
THEOREM NeverRolledBack == Spec => NoRollback
<1>1. IInv /\ [Next]_vars =>
        [revoking /\ "evicted" \notin causes /\ jar'.csrf = jar.csrf
           /\ jar'.bundle.sid = jar.bundle.sid
         => jar'.bundle.gen >= jar.bundle.gen]_vars
  <2> SUFFICES ASSUME IInv, Next, revoking, "evicted" \notin causes, jar'.csrf = jar.csrf,
                      jar'.bundle.sid = jar.bundle.sid
               PROVE  jar'.bundle.gen >= jar.bundle.gen
    OBVIOUS
  <2>1. TypeOK /\ Ordered /\ jar.bundle.gen \in Nat
    BY DEF IInv, Strict, TypeOK, Jars, Bundles
  <2>2. jar'.bundle = jar.bundle => jar'.bundle.gen >= jar.bundle.gen
    BY <2>1
  <2>3. ASSUME NEW p \in Reqs, Arrive(p)
        PROVE  jar'.bundle.gen >= jar.bundle.gen
    <3>1. CASE SameCookies(jar', jar)
      BY <2>2, <3>1 DEF SameCookies
    <3>2. CASE SameCookies(jar', EmptyJar)
      <4>1. jar.bundle = NoBundle
        BY <2>1, <3>2, NamesAssumption DEF SameCookies, EmptyJar, NoBundle, TypeOK, Issued
      <4> QED
        BY <2>2, <3>2, <4>1 DEF SameCookies, EmptyJar
    <3>3. CASE Carries(p) /\ SameCookies(jar', req[p].reply)
      <4>1. req[p].reply.bundle.gen \in Nat
        BY <2>1 DEF TypeOK, Requests, Replies, Bundles
      <4>2. IF req[p].kind = "callback" THEN Foreign(jar, req[p].reply)
            ELSE Older(jar, req[p].reply)
        BY <2>1, <3>3 DEF Ordered, Yields
      <4> QED
        BY <2>1, <3>3, <4>1, <4>2 DEF SameCookies, Foreign, Older
    <3> QED
      BY <2>1, <2>3, <3>1, <3>2, <3>3, ArriveEffect
  <2>4. CASE \E p \in Reqs : Arrive(p)
    BY <2>3, <2>4
  <2>5. CASE Evict
    BY <2>1, <2>2, <2>5 DEF Evict, TypeOK, Jars
  <2>6. CASE ~ Evict /\ ~ \E p \in Reqs : Arrive(p)
    <3>1. ASSUME NEW p \in Reqs,
                 \/ RefuseRequest(p) \/ AdmitRequest(p) \/ RotateRequest(p)
                 \/ NothingToRefresh(p) \/ Refresh(p) \/ RefreshRejected(p) \/ RefreshFails(p)
                 \/ Logout(p) \/ Login(p) \/ Callback(p) \/ CallbackFails(p)
          PROVE  jar' = jar
      BY <2>1, <3>1, HandlerType DEF browserVars
    <3>2. jar' = jar
      BY <2>6, <3>1 DEF Next, AccessTokenExpires, SessionEnds, Send, Authenticate, Lose,
         browserVars
    <3> QED
      BY <2>2, <3>2
  <2> QED
    BY <2>4, <2>5, <2>6
<1> QED
  BY Invariance, <1>1, PTL DEF Spec, NoRollback
-----------------------------------------------------------------------------
(* Where the tokens of the live session are. *)

\* The causes that each property rules out, and those of a session taken by mistake.
NothingLost == causes \cap {"logout", "outage", "spent", "dropped", "late"} = {}
NothingHalf == causes \cap {"outage", "spent", "late", "half login"} = {}
NotRefused == causes \cap {"outage", "spent"} = {}

\* At most one session of the user lives, and one that is new has no tokens yet.
OneLive ==
  /\ \A s, t \in Sids : Live(s) /\ Live(t) => s = t
  /\ \A s \in Sids : phase[s] = "new" => newest[s] = 0 /\ mine # s

\* p's answer keeps the session of the cookies that were sent, while that lives, and
\* either repeats them or leaves them behind.  It takes them away only if that session
\* is over, or with the causes named.
Answered(p) ==
  LET c == req[p].sent.bundle
      b == req[p].reply.bundle
  IN /\ Carries(p) =>
          /\ req[p].kind # "callback" \/ Live(c.sid) => b.sid = c.sid
          /\ Live(c.sid) => b = c \/ c.gen < newest[c.sid]
     /\ req[p].pc = "answered" =>
          /\ req[p].kind = "logout" => req[p].reply.set = "clear"
          /\ req[p].reply.set = "clear" /\ NotRefused => ~ Live(c.sid)

\* The newest tokens of session s are in the browser, or on their way to it.
Held(s) ==
  \/ jar.bundle = [sid |-> s, gen |-> newest[s]]
  \/ \E p \in Reqs : Carries(p) /\ req[p].reply.bundle = [sid |-> s, gen |-> newest[s]]

\* p is the end of a login into session s.
LoginOf(p, s) ==
  /\ req[p].kind = "callback"
  /\ \/ req[p].pc = "sent" /\ req[p].code = s
     \/ Carries(p) /\ req[p].reply.bundle.sid = s

NewestHeld ==
  revoking /\ NothingLost =>
    \A s \in Sids : Live(s) /\ newest[s] > 0 => Held(s)

MineHeld == NothingLost /\ Live(mine) => jar.bundle.sid = mine

\* A live session is the one the browser is logged into, or a login into it is under way.
LoginHeld ==
  NothingHalf =>
    \A s \in Sids : Live(s) =>
      (mine = s /\ jar.bundle.sid = s) \/ \E p \in Reqs : LoginOf(p, s)

KInv ==
  /\ OneLive
  /\ \A p \in Reqs : Answered(p)
  /\ NewestHeld
  /\ MineHeld
  /\ LoginHeld

\* A bundle of a session has a generation that was issued.
Good(b) == b.sid \in Sids => b.gen \in Nat /\ 0 < b.gen /\ b.gen <= newest[b.sid]

LEMMA HeldGood ==
  ASSUME TypeOK
  PROVE  /\ Good(jar.bundle)
         /\ \A p \in Reqs : Good(req[p].sent.bundle) /\ Good(req[p].reply.bundle)
<1>1. ASSUME NEW c \in Jars \cup Replies, Issued(c) PROVE Good(c.bundle)
  BY <1>1, NamesAssumption DEF Issued, Good, NoBundle, TypeOK
<1> QED
  BY <1>1 DEF TypeOK, Requests

\* A session that has tokens never comes to life again.
LEMMA PhaseStep ==
  ASSUME TypeOK, Next
  PROVE  \A s \in Sids : phase'[s] = "live" => phase[s] \in {"new", "live"}
<1>1. ASSUME NEW s \in Sids, AccessTokenExpires(s) \/ SessionEnds(s)
      PROVE  phase' = phase \/ phase' = [phase EXCEPT ![s] = "over"]
  BY <1>1 DEF AccessTokenExpires, SessionEnds
<1>2. CASE \E s \in Sids : AccessTokenExpires(s) \/ SessionEnds(s)
  BY <1>1, <1>2 DEF TypeOK
<1>3. CASE Evict
  BY <1>3 DEF Evict, keycloakVars, TypeOK
<1>4. ASSUME NEW p \in Reqs, NEW kind \in Kinds, Send(p, kind) PROVE phase' = phase
  BY <1>4 DEF Send, keycloakVars
<1>5. ASSUME NEW p \in Reqs, NEW s \in Sids, Authenticate(p, s)
      PROVE  \/ phase' = phase
             \/ phase[s] = "new" /\ phase' = [phase EXCEPT ![s] = "live"]
  BY <1>5 DEF Authenticate
<1>6. ASSUME NEW p \in Reqs, Logout(p)
      PROVE  phase' = phase \/ \E s \in Sids : phase' = [phase EXCEPT ![s] = "over"]
  BY <1>6 DEF Logout, Live
<1>7. ASSUME NEW p \in Reqs,
             \/ RefuseRequest(p) \/ AdmitRequest(p) \/ RotateRequest(p)
             \/ NothingToRefresh(p) \/ Refresh(p) \/ RefreshRejected(p) \/ RefreshFails(p)
             \/ Login(p) \/ Callback(p) \/ CallbackFails(p) \/ Arrive(p) \/ Lose(p)
      PROVE  phase' = phase
  BY <1>7 DEF RefuseRequest, AdmitRequest, RotateRequest, NothingToRefresh, Refresh,
     RefreshRejected, RefreshFails, Login, Callback, CallbackFails, Arrive, Lose, Refuse,
     Issues, keycloakVars
<1>8. ASSUME NEW s \in Sids, phase' = [phase EXCEPT ![s] = "over"]
      PROVE  \A t \in Sids : phase'[t] = "live" => phase[t] \in {"new", "live"}
  BY <1>8 DEF TypeOK
<1>9. CASE \E p \in Reqs : Logout(p)
  BY <1>6, <1>8, <1>9 DEF TypeOK
<1>10. CASE \E p \in Reqs, s \in Sids : Authenticate(p, s)
  BY <1>5, <1>10 DEF TypeOK
<1> QED
  BY <1>2, <1>3, <1>4, <1>7, <1>9, <1>10 DEF Next

LEMMA StillLive ==
  ASSUME TypeOK, OneLive, Next, NEW b, Good(b), Live(b.sid)'
  PROVE  Live(b.sid)
<1>1. b.sid \in Sids /\ phase'[b.sid] = "live" /\ newest[b.sid] > 0
  BY DEF Live, Good, TypeOK
<1>2. phase[b.sid] # "new"
  BY <1>1 DEF OneLive
<1> QED
  BY <1>1, <1>2, PhaseStep DEF Live

\* What holds of an answer goes on holding while it is on its way.
LEMMA AnsweredStays ==
  ASSUME TypeOK, OneLive, Next, NEW p \in Reqs, req'[p] = req[p], Answered(p)
  PROVE  Answered(p)'
<1> DEFINE c == req[p].sent.bundle
<1>1. Good(c)
  BY HeldGood
<1>2. Live(c.sid)' => Live(c.sid) /\ c.sid \in Sids /\ c.gen \in Nat /\ newest[c.sid] \in Nat
  BY <1>1, StillLive DEF Live, Good, TypeOK
<1>3. c.sid \in Sids => newest'[c.sid] \in Nat /\ newest[c.sid] <= newest'[c.sid]
  BY Growth
<1>4. NotRefused' => NotRefused
  BY Growth DEF NothingLost, NothingHalf, NotRefused
<1>5. Carries(p)' <=> Carries(p)
  BY DEF Carries
<1> QED
  BY <1>2, <1>3, <1>4, <1>5 DEF Answered

\* A live session whose tokens have not been given away stays as it is.
LEMMA OneLiveStays ==
  ASSUME TypeOK, OneLive, Next, UNCHANGED <<phase, mine>>,
         \/ UNCHANGED newest
         \/ \E s \in Sids : Live(s) /\ newest' = [newest EXCEPT ![s] = @ + 1]
  PROVE  OneLive'
<1>1. \A s, t \in Sids : Live(s)' /\ Live(t)' => s = t
  BY DEF OneLive, Live
<1>2. ASSUME NEW s \in Sids, phase'[s] = "new" PROVE newest'[s] = 0 /\ mine' # s
  <2>1. newest[s] = 0 /\ mine # s /\ ~ Live(s)
    BY <1>2 DEF OneLive, Live
  <2> QED
    BY <2>1 DEF TypeOK
<1> QED
  BY <1>1, <1>2 DEF OneLive

\* What a handler does: it gives no cookies, and then tokens issued are lost; ...
Silent(p, reply) ==
  /\ reply.set \notin {"session", "clear"} /\ req[p].kind # "logout" /\ phase' = phase
  /\ req[p].kind = "callback" => "half login" \in causes'
  /\ \/ newest' = newest
     \/ /\ \E s \in Sids : Live(s) /\ newest' = [newest EXCEPT ![s] = @ + 1]
        /\ revoking => "dropped" \in causes'

\* ... it takes the cookies away; ...
Clears(p, reply) ==
  /\ reply.set = "clear" /\ req[p].kind # "callback" /\ newest' = newest
  /\ \/ phase' = phase
     \/ \E s \in Sids : phase' = [phase EXCEPT ![s] = "over"]
  /\ NotRefused' => ~ Live(req[p].sent.bundle.sid)'

\* ... it gives back the tokens that came, or the next ones; ...
Renews(p, reply) ==
  LET b == req[p].sent.bundle IN
  /\ reply.set = "session" /\ req[p].kind \notin {"callback", "logout"} /\ phase' = phase
  /\ \/ reply.bundle = b /\ newest' = newest
     \/ /\ Live(b.sid) /\ newest' = [newest EXCEPT ![b.sid] = @ + 1]
        /\ reply.bundle = [sid |-> b.sid, gen |-> newest'[b.sid]]

\* ... or it ends a login.
LogsIn(p, reply) ==
  LET s == req[p].code IN
  /\ reply.set = "session" /\ req[p].kind = "callback" /\ phase' = phase
  /\ Live(s) /\ newest' = [newest EXCEPT ![s] = @ + 1]
  /\ reply.bundle = [sid |-> s, gen |-> newest'[s]]

LEMMA HandlerEffect ==
  ASSUME TypeOK, NEW p \in Reqs,
         \/ RefuseRequest(p) \/ AdmitRequest(p) \/ RotateRequest(p)
         \/ NothingToRefresh(p) \/ Refresh(p) \/ RefreshRejected(p) \/ RefreshFails(p)
         \/ Logout(p) \/ Login(p) \/ Callback(p) \/ CallbackFails(p)
  PROVE  /\ req[p].pc = "sent"
         /\ \E reply : /\ Answer(p, reply)
                       /\ \/ Silent(p, reply) \/ Clears(p, reply)
                          \/ Renews(p, reply) \/ LogsIn(p, reply)
<1> DEFINE b == req[p].sent.bundle
           Effect(reply) == \/ Silent(p, reply) \/ Clears(p, reply)
                            \/ Renews(p, reply) \/ LogsIn(p, reply)
<1>0. newest \in [Sids -> Nat] /\ phase \in [Sids -> {"new", "live", "over"}]
  BY DEF TypeOK
<1>1. /\ Nothing.set = "none" /\ Clear.set = "clear" /\ [Nothing EXCEPT !.set = "state"].set = "state"
      /\ \A c : Session(p, c).set = "session" /\ Session(p, c).bundle = c
  BY DEF Nothing, Clear, Session
<1>2. CASE RefuseRequest(p) \/ NothingToRefresh(p) \/ Login(p)
  <2>1. Handles(p, {"read", "write", "refresh", "login"}) /\ UNCHANGED <<phase, newest>>
    BY <1>2 DEF RefuseRequest, NothingToRefresh, Login, Handles, Refuse, keycloakVars
  <2>2. Answer(p, Nothing) \/ Answer(p, [Nothing EXCEPT !.set = "state"])
    BY <1>2 DEF RefuseRequest, NothingToRefresh, Login, Refuse
  <2> QED
    BY <1>1, <2>1, <2>2 DEF Silent, Handles
<1>3. CASE AdmitRequest(p)
  <2>1. Handles(p, {"read", "write"}) /\ UNCHANGED <<phase, newest>>
    BY <1>3 DEF AdmitRequest, keycloakVars
  <2>2. Answer(p, Nothing) \/ Answer(p, Session(p, b))
    BY <1>3 DEF AdmitRequest
  <2> QED
    BY <1>1, <2>1, <2>2 DEF Silent, Renews, Handles
<1>4. ASSUME Usable(b), Issues(b.sid), Handles(p, {"read", "write", "refresh"})
      PROVE  /\ Live(b.sid) /\ phase' = phase /\ newest' = [newest EXCEPT ![b.sid] = @ + 1]
             /\ Renews(p, Session(p, Refreshed(b)))
  <2>1. Live(b.sid) /\ b.sid \in Sids /\ phase' = phase /\ newest' = [newest EXCEPT ![b.sid] = @ + 1]
    BY <1>4 DEF Usable, Live, Issues
  <2>2. Refreshed(b) = [sid |-> b.sid, gen |-> newest'[b.sid]]
    BY <1>0, <2>1 DEF Refreshed
  <2> QED
    BY <1>1, <1>4, <2>1, <2>2 DEF Renews, Handles
<1>5. CASE RotateRequest(p)
  <2>1. Handles(p, {"read", "write"}) /\ Usable(b) /\ Issues(b.sid)
    BY <1>5 DEF RotateRequest
  <2>2. \/ Answer(p, Session(p, Refreshed(b)))
        \/ Answer(p, Nothing) /\ Blame(Dropped)
    BY <1>5 DEF RotateRequest
  <2>3. CASE Answer(p, Session(p, Refreshed(b)))
    BY <1>4, <2>1, <2>3 DEF Handles
  <2>4. CASE Answer(p, Nothing) /\ Blame(Dropped)
    <3>1. Silent(p, Nothing)
      BY <1>1, <1>4, <2>1, <2>4 DEF Silent, Handles, Blame, Dropped, Live
    <3> QED
      BY <2>1, <2>4, <3>1 DEF Handles
  <2> QED
    BY <2>2, <2>3, <2>4
<1>6. CASE Refresh(p)
  <2>1. Handles(p, {"refresh"}) /\ Usable(b) /\ Issues(b.sid) /\ Answer(p, Session(p, Refreshed(b)))
    BY <1>6 DEF Refresh
  <2> QED
    BY <1>4, <2>1 DEF Handles
<1>7. CASE RefreshRejected(p)
  <2>1. /\ Handles(p, {"refresh"}) /\ UNCHANGED <<phase, newest>> /\ Answer(p, Clear)
        /\ Blame(IF Usable(b) THEN {"outage"} ELSE IF Live(b.sid) THEN {"spent"} ELSE {})
    BY <1>7 DEF RefreshRejected, keycloakVars
  <2>2. NotRefused' => ~ Live(b.sid)
    BY <2>1 DEF NothingLost, NothingHalf, NotRefused, Blame, Usable
  <2>3. Live(b.sid)' <=> Live(b.sid)
    <3>1. \A x : (x \in Sids /\ phase'[x] = "live") <=> Live(x)
      BY <2>1 DEF Live
    <3>2. req'[p].sent = req[p].sent
      BY <2>1 DEF Answer, TypeOK, Requests
    <3> QED
      BY <3>1, <3>2 DEF Live
  <2>4. Clears(p, Clear)
    BY <1>1, <2>1, <2>2, <2>3 DEF Clears, Handles
  <2> QED
    BY <2>1, <2>4 DEF Handles
<1>8. CASE RefreshFails(p)
  <2>1. Handles(p, {"refresh"}) /\ Answer(p, Nothing)
    BY <1>8 DEF RefreshFails, Refuse
  <2>2. \/ UNCHANGED <<phase, newest>>
        \/ Usable(b) /\ Issues(b.sid) /\ Blame(Dropped)
    BY <1>8 DEF RefreshFails, Refuse, keycloakVars
  <2>3. Silent(p, Nothing)
    BY <1>1, <1>4, <2>1, <2>2 DEF Silent, Handles, Blame, Dropped, Live
  <2> QED
    BY <2>1, <2>3 DEF Handles
<1>9. CASE Logout(p)
  <2> DEFINE s == b.sid
  <2>1. Handles(p, {"logout"}) /\ newest' = newest /\ Answer(p, Clear)
    BY <1>9 DEF Logout
  <2>2. \/ /\ phase' = IF Live(s) THEN [phase EXCEPT ![s] = "over"] ELSE phase
        \/ phase' = phase /\ "outage" \in causes'
    BY <1>9 DEF Logout, Blame
  <2>3. req'[p].sent = req[p].sent
    BY <2>1 DEF Answer, TypeOK, Requests
  <2>4. NotRefused' => ~ Live(s)'
    <3> SUFFICES ASSUME "outage" \notin causes' PROVE ~ (s \in Sids /\ phase'[s] = "live")
      BY <2>3 DEF NothingLost, NothingHalf, NotRefused, Live
    <3> QED
      BY <1>0, <2>2 DEF Live
  <2>5. phase' = phase \/ \E t \in Sids : phase' = [phase EXCEPT ![t] = "over"]
    BY <2>2 DEF Live
  <2>6. Clears(p, Clear)
    BY <1>1, <2>1, <2>4, <2>5 DEF Clears, Handles
  <2> QED
    BY <2>1, <2>6 DEF Handles
<1>10. CASE Callback(p)
  <2> DEFINE s == req[p].code
             reply == [set |-> "session", csrf |-> minted + 1,
                       bundle |-> [sid |-> s, gen |-> newest[s] + 1]]
  <2>1. /\ Handles(p, {"callback"}) /\ Live(s) /\ s \in Sids /\ Answer(p, reply)
        /\ phase' = phase /\ newest' = [newest EXCEPT ![s] = @ + 1]
    BY <1>10 DEF Callback, Issues, Live
  <2>2. newest'[s] = newest[s] + 1
    BY <1>0, <2>1
  <2>3. LogsIn(p, reply)
    BY <2>1, <2>2 DEF LogsIn, Handles
  <2> QED
    BY <2>1, <2>3 DEF Handles
<1>11. CASE CallbackFails(p)
  <2>1. Handles(p, {"callback"}) /\ Answer(p, Nothing)
    BY <1>11 DEF CallbackFails, Refuse
  <2>2. \/ UNCHANGED <<phase, newest>> /\ Blame({"half login"})
        \/ Live(req[p].code) /\ Issues(req[p].code) /\ Blame({"half login"} \cup Dropped)
    BY <1>11 DEF CallbackFails, Refuse, keycloakVars
  <2>3. Silent(p, Nothing)
    BY <1>1, <2>1, <2>2 DEF Silent, Handles, Blame, Dropped, Live, Issues
  <2> QED
    BY <2>1, <2>3 DEF Handles
<1> QED
  BY <1>2, <1>3, <1>5, <1>6, <1>7, <1>8, <1>9, <1>10, <1>11

\* Session s has no tokens yet.
Fresh(s) == newest[s] = 0 /\ mine # s

LEMMA FreshHasNone ==
  ASSUME TypeOK, NEW s \in Sids, newest[s] > 0 PROVE ~ Fresh(s)
  BY DEF Fresh, TypeOK

\* A step that leaves the browser's tokens alone: requests are sent or lost, a session
\* ends, or is opened for a login.
LEMMA PlainStep ==
  ASSUME TypeOK, KInv, Next, OneLive', jar'.bundle = jar.bundle, mine' = mine, newest' = newest,
         \A q \in Reqs :
           \/ req'[q] = req[q]
           \/ /\ req'[q].pc # "answered"
              /\ Carries(q) /\ revoking => "dropped" \in causes'
              /\ (\E s \in Sids : LoginOf(q, s)) => "half login" \in causes',
         \A s \in Sids : Live(s)' =>
           Live(s) \/ (Fresh(s) /\ \E q \in Reqs : LoginOf(q, s)')
  PROVE  KInv'
<1>1. causes \subseteq causes' /\ revoking' = revoking
  BY Growth
<1>2. ASSUME NEW q \in Reqs PROVE Answered(q)'
  <2>1. CASE req'[q] = req[q]
    BY <2>1, AnsweredStays DEF KInv
  <2>2. CASE req'[q].pc # "answered"
    BY <2>2 DEF Answered, Carries
  <2> QED
    BY <2>1, <2>2
<1>3. NewestHeld'
  <2> SUFFICES ASSUME revoking, NothingLost',
                      NEW s \in Sids, Live(s)', newest[s] > 0
               PROVE  Held(s)'
    BY <1>1 DEF NewestHeld
  <2>1. NothingLost /\ "dropped" \notin causes'
    BY <1>1 DEF NothingLost, NothingHalf, NotRefused
  <2>2. Held(s)
    <3>1. ~ Fresh(s)
      BY FreshHasNone
    <3>2. Live(s)
      BY <3>1
    <3> QED
      BY <2>1, <3>2 DEF KInv, NewestHeld
  <2>3. ASSUME NEW q \in Reqs, Carries(q) PROVE req'[q] = req[q]
    BY <2>1, <2>3
  <2> QED
    BY <2>2, <2>3 DEF Held, Carries
<1>4. MineHeld'
  <2> SUFFICES ASSUME NothingLost', Live(mine)'
               PROVE  jar.bundle.sid = mine
    BY DEF MineHeld
  <2>1. NothingLost
    BY <1>1 DEF NothingLost, NothingHalf, NotRefused
  <2>2. Live(mine)
    BY DEF Live, Fresh
  <2> QED
    BY <2>1, <2>2 DEF KInv, MineHeld
<1>5. LoginHeld'
  <2> SUFFICES ASSUME NothingHalf', NEW s \in Sids, Live(s)'
               PROVE  (mine = s /\ jar.bundle.sid = s) \/ \E q \in Reqs : LoginOf(q, s)'
    BY DEF LoginHeld
  <2>1. NothingHalf /\ "half login" \notin causes'
    BY <1>1 DEF NothingLost, NothingHalf, NotRefused
  <2>2. CASE Live(s)
    <3>1. (mine = s /\ jar.bundle.sid = s) \/ \E q \in Reqs : LoginOf(q, s)
      BY <2>1, <2>2 DEF KInv, LoginHeld
    <3>2. ASSUME NEW q \in Reqs, LoginOf(q, s) PROVE LoginOf(q, s)'
      <4>1. req'[q] = req[q]
        BY <2>1, <3>2
      <4> QED
        BY <3>2, <4>1 DEF LoginOf, Carries
    <3> QED
      BY <3>1, <3>2
  <2> QED
    BY <2>2
<1> QED
  BY <1>2, <1>3, <1>4, <1>5 DEF KInv

\* A handler's step.
LEMMA HandlerStep ==
  ASSUME TypeOK, KInv, Next, NEW p \in Reqs, NEW reply, Answer(p, reply),
         req[p].pc = "sent", UNCHANGED browserVars,
         \/ Silent(p, reply) \/ Clears(p, reply) \/ Renews(p, reply) \/ LogsIn(p, reply)
  PROVE  KInv'
<1> DEFINE c == req[p].sent.bundle
<1>0. /\ \A q \in Reqs \ {p} : req'[q] = req[q]
      /\ req'[p].pc = "answered" /\ req'[p].reply = reply
      /\ req'[p].sent = req[p].sent /\ req'[p].kind = req[p].kind
      /\ jar' = jar /\ mine' = mine
  BY DEF Answer, TypeOK, Requests, browserVars
<1>1. /\ causes \subseteq causes' /\ revoking' = revoking
      /\ newest \in [Sids -> Nat] /\ newest' \in [Sids -> Nat]
      /\ phase \in [Sids -> {"new", "live", "over"}]
  BY Growth DEF TypeOK
<1>2. \A x : Live(x)' => Live(x)
  BY <1>1 DEF Silent, Clears, Renews, LogsIn, Live
<1>3. OneLive'
  <2>1. CASE Clears(p, reply)
    <3>1. \A s \in Sids : phase'[s] = "new" => phase[s] = "new"
      BY <1>1, <2>1 DEF Clears
    <3> QED
      BY <1>0, <1>2, <2>1, <3>1 DEF KInv, OneLive, Clears
  <2>2. CASE ~ Clears(p, reply)
    <3>1. \/ UNCHANGED newest
          \/ \E s \in Sids : Live(s) /\ newest' = [newest EXCEPT ![s] = @ + 1]
      BY <2>2 DEF Silent, Renews, LogsIn, Live
    <3> QED
      BY <1>0, <2>2, <3>1, OneLiveStays DEF KInv, Silent, Renews, LogsIn
  <2> QED
    BY <2>1, <2>2
<1>4. Answered(p)'
  <2>1. Good(c) /\ \A x : Live(x) => x \in Sids
    BY HeldGood DEF Live
  <2>2. CASE Silent(p, reply)
    BY <1>0, <2>2 DEF Silent, Answered, Carries
  <2>3. CASE Clears(p, reply)
    BY <1>0, <2>3 DEF Clears, Answered, Carries
  <2>4. CASE Renews(p, reply)
    <3>1. reply.bundle.sid = c.sid /\ reply.set = "session" /\ req[p].kind # "logout"
      BY <2>4 DEF Renews
    <3>2. reply.bundle = c \/ (Live(c.sid) /\ newest' = [newest EXCEPT ![c.sid] = @ + 1])
      BY <2>4 DEF Renews
    <3>3. Live(c.sid) => reply.bundle = c \/ c.gen < newest'[c.sid]
      BY <1>1, <2>1, <3>2 DEF Good
    <3> QED
      BY <1>0, <1>2, <3>1, <3>3 DEF Answered, Carries
  <2>5. CASE LogsIn(p, reply)
    <3>1. /\ reply.bundle.sid = req[p].code /\ reply.set = "session" /\ req[p].kind = "callback"
          /\ Live(req[p].code) /\ newest' = [newest EXCEPT ![req[p].code] = @ + 1]
      BY <2>5 DEF LogsIn
    <3>2. Live(c.sid) => c.sid = req[p].code
      BY <2>1, <3>1 DEF KInv, OneLive
    <3>3. Live(c.sid) => c.gen < newest'[c.sid]
      BY <1>1, <2>1, <3>1, <3>2 DEF Good
    <3> QED
      BY <1>0, <1>2, <3>1, <3>2, <3>3 DEF Answered, Carries
  <2> QED
    BY <2>2, <2>3, <2>4, <2>5
<1>5. ASSUME NEW q \in Reqs PROVE Answered(q)'
  BY <1>0, <1>4, AnsweredStays DEF KInv
<1>6. \A q \in Reqs : Carries(q) => q # p /\ Carries(q)' /\ req'[q] = req[q]
  BY <1>0 DEF Carries
<1>7. NewestHeld'
  <2> SUFFICES ASSUME revoking, NothingLost',
                      NEW s \in Sids, Live(s), newest'[s] > 0
               PROVE  Held(s)'
    BY <1>1, <1>2 DEF NewestHeld
  <2>1. NothingLost /\ "dropped" \notin causes'
    BY <1>1 DEF NothingLost, NothingHalf, NotRefused
  <2>2. CASE newest'[s] = newest[s]
    <3>1. Held(s)
      BY <2>1, <2>2 DEF KInv, NewestHeld
    <3> QED
      BY <1>0, <1>6, <2>2, <3>1 DEF Held
  <2>3. CASE newest'[s] # newest[s]
    <3>1. /\ reply.set = "session" /\ reply.bundle = [sid |-> s, gen |-> newest'[s]]
      BY <1>1, <2>1, <2>3 DEF Silent, Clears, Renews, LogsIn
    <3> QED
      BY <1>0, <3>1 DEF Held, Carries
  <2> QED
    BY <2>2, <2>3
<1>8. MineHeld'
  <2>1. NothingLost'
          => NothingLost
    BY <1>1 DEF NothingLost, NothingHalf, NotRefused
  <2>2. Live(mine)' => Live(mine)
    BY <1>0, <1>2 DEF Live
  <2> QED
    BY <1>0, <2>1, <2>2 DEF KInv, MineHeld
<1>9. LoginHeld'
  <2> SUFFICES ASSUME NothingHalf', NEW s \in Sids, Live(s)
               PROVE  (mine = s /\ jar.bundle.sid = s) \/ \E q \in Reqs : LoginOf(q, s)'
    BY <1>0, <1>2 DEF LoginHeld
  <2>1. NothingHalf /\ "half login" \notin causes'
    BY <1>1 DEF NothingLost, NothingHalf, NotRefused
  <2>2. (mine = s /\ jar.bundle.sid = s) \/ \E q \in Reqs : LoginOf(q, s)
    BY <2>1 DEF KInv, LoginHeld
  <2>3. ASSUME NEW q \in Reqs, LoginOf(q, s) PROVE LoginOf(q, s)'
    <3>1. CASE q # p
      BY <1>0, <2>3, <3>1 DEF LoginOf, Carries
    <3>2. CASE q = p
      <4>1. req[p].kind = "callback" /\ req[p].code = s
        BY <2>3, <3>2 DEF LoginOf, Carries
      <4>2. LogsIn(p, reply)
        BY <2>1, <4>1 DEF Silent, Clears, Renews
      <4>3. reply.set = "session" /\ reply.bundle = [sid |-> req[p].code, gen |-> newest'[req[p].code]]
        BY <4>2 DEF LogsIn
      <4>4. reply.bundle.sid = s
        BY <4>1, <4>3
      <4>5. LoginOf(p, s)'
        BY <1>0, <4>1, <4>3, <4>4 DEF LoginOf, Carries
      <4> QED
        BY <3>2, <4>5
    <3> QED
      BY <3>1, <3>2
  <2> QED
    BY <2>2, <2>3
<1> QED
  BY <1>3, <1>5, <1>7, <1>8, <1>9 DEF KInv

\* Unless it is late, an answer leaves the tokens of a live session in the browser, and
\* the newest ones as they are.
LEMMA ArriveKeeps ==
  ASSUME TypeOK, KInv, NEW p \in Reqs, Arrive(p), "late" \notin causes', NotRefused,
         NEW s \in Sids, Live(s), jar.bundle.sid = s
  PROVE  /\ req[p].reply.set # "clear"
         /\ jar'.bundle.sid = s
         /\ revoking /\ jar.bundle.gen = newest[s] => jar'.bundle = jar.bundle
<1> DEFINE r == req[p].reply
           c == req[p].sent.bundle
<1>0. req[p].pc = "answered" /\ r.set \in {"none", "session", "clear", "state"}
  BY DEF Arrive, TypeOK, Requests, Replies
<1>1. ~ Overwrites(p)
  BY DEF Arrive, Blame
<1>2. Good(jar.bundle) /\ Answered(p)
  BY HeldGood DEF KInv
<1>3. r.set # "clear"
  <2> SUFFICES ASSUME r.set = "clear" PROVE FALSE
    OBVIOUS
  <2>1. jar.bundle = c
    BY <1>1 DEF Overwrites
  <2> QED
    BY <1>0, <1>2, <2>1 DEF Answered
<1>4. CASE r.set # "session"
  <2>1. jar'.bundle = jar.bundle
    BY <1>0, <1>3, <1>4 DEF Arrive, TypeOK, Jars
  <2> QED
    BY <1>3, <2>1
<1>5. CASE r.set = "session"
  <2>1. jar'.bundle = r.bundle /\ Carries(p)
    BY <1>0, <1>5 DEF Arrive, Carries
  <2>2. CASE jar.bundle = c
    <3>1. Live(c.sid)
      BY <2>2
    <3>2. r.bundle.sid = s /\ (r.bundle = c \/ c.gen < newest[s])
      BY <1>2, <2>1, <2>2, <3>1 DEF Answered
    <3>3. jar.bundle.gen = newest[s] => ~ (c.gen < newest[s])
      BY <1>2, <2>2 DEF Good
    <3> QED
      BY <1>3, <2>1, <2>2, <3>2, <3>3
  <2>3. CASE jar.bundle # c
    <3>1. ~ revoking /\ r.bundle.sid = jar.bundle.sid
      BY <1>1, <1>5, <2>3 DEF Overwrites
    <3> QED
      BY <1>3, <2>1, <3>1
  <2> QED
    BY <2>2, <2>3
<1> QED
  BY <1>4, <1>5

LEMMA ArriveStep ==
  ASSUME TypeOK, KInv, Next, NEW p \in Reqs, Arrive(p)
  PROVE  KInv'
<1> DEFINE r == req[p].reply
<1>0. /\ req[p].pc = "answered" /\ req'[p].pc # "answered"
      /\ \A q \in Reqs \ {p} : req'[q] = req[q]
      /\ UNCHANGED <<revoking, phase, newest>>
  BY DEF Arrive, TypeOK, Requests, Idle, keycloakVars
<1>1. /\ causes \subseteq causes'
      /\ \A x : Live(x)' <=> Live(x)
  BY <1>0, Growth DEF Live
<1>2. \/ Carries(p) /\ req[p].kind = "callback" /\ mine' = r.bundle.sid
      \/ req[p].kind = "logout" /\ mine' = NoSid
      \/ mine' = mine /\ req[p].kind # "logout" /\ ~ (Carries(p) /\ req[p].kind = "callback")
  BY DEF Arrive, Carries
<1>3. Carries(p) => jar'.bundle = r.bundle
  BY DEF Arrive, Carries
<1>4. OneLive'
  <2>1. ASSUME NEW s \in Sids, phase[s] = "new" PROVE newest[s] = 0 /\ mine' # s
    <3>1. newest[s] = 0 /\ mine # s
      BY <2>1 DEF KInv, OneLive
    <3>2. r.bundle.sid # s
      BY <3>1, HeldGood DEF Good
    <3> QED
      BY <1>2, <3>1, <3>2, NamesAssumption
  <2> QED
    BY <1>0, <1>1, <2>1 DEF KInv, OneLive
<1>5. ASSUME NEW q \in Reqs PROVE Answered(q)'
  <2>1. CASE q = p
    BY <1>0, <2>1 DEF Answered, Carries
  <2>2. CASE q # p
    BY <1>0, <2>2, AnsweredStays DEF KInv
  <2> QED
    BY <2>1, <2>2
<1>6. NewestHeld'
  <2> SUFFICES ASSUME revoking, NothingLost', NEW s \in Sids, Live(s), newest[s] > 0
               PROVE  Held(s)'
    BY <1>0, <1>1 DEF NewestHeld
  <2>1. NothingLost /\ NotRefused /\ "late" \notin causes'
    BY <1>1 DEF NothingLost, NotRefused
  <2>2. Held(s)
    BY <2>1 DEF KInv, NewestHeld
  <2>3. CASE jar.bundle = [sid |-> s, gen |-> newest[s]]
    <3>1. jar'.bundle = jar.bundle
      BY <2>1, <2>3, ArriveKeeps
    <3> QED
      BY <1>0, <2>3, <3>1 DEF Held
  <2>4. ASSUME NEW q \in Reqs, Carries(q), req[q].reply.bundle = [sid |-> s, gen |-> newest[s]]
        PROVE  Held(s)'
    <3>1. CASE q = p
      BY <1>0, <1>3, <2>4, <3>1 DEF Held
    <3>2. CASE q # p
      BY <1>0, <2>4, <3>2 DEF Held, Carries
    <3> QED
      BY <3>1, <3>2
  <2> QED
    BY <2>2, <2>3, <2>4 DEF Held
<1>7. MineHeld'
  <2> SUFFICES ASSUME NothingLost', Live(mine') PROVE jar'.bundle.sid = mine'
    BY <1>0 DEF MineHeld, Live
  <2>1. NothingLost /\ NotRefused /\ "late" \notin causes' /\ mine' \in Sids
    BY <1>1 DEF NothingLost, NotRefused, Live
  <2>2. CASE Carries(p) /\ mine' = r.bundle.sid
    BY <1>3, <2>2
  <2>3. CASE mine' = mine
    <3>1. jar.bundle.sid = mine
      BY <2>1, <2>3 DEF KInv, MineHeld
    <3> QED
      BY <2>1, <2>3, <3>1, ArriveKeeps
  <2> QED
    BY <1>2, <2>1, <2>2, <2>3, NamesAssumption
<1>8. LoginHeld'
  <2> SUFFICES ASSUME NothingHalf', NEW s \in Sids, Live(s)
               PROVE  (mine' = s /\ jar'.bundle.sid = s) \/ \E q \in Reqs : LoginOf(q, s)'
    BY <1>1 DEF LoginHeld
  <2>1. NothingHalf /\ NotRefused /\ "late" \notin causes'
    BY <1>1 DEF NothingHalf, NotRefused
  <2>2. CASE mine = s /\ jar.bundle.sid = s
    <3>1. r.set # "clear" /\ jar'.bundle.sid = s
      BY <2>1, <2>2, ArriveKeeps
    <3>2. req[p].kind # "logout"
      BY <1>0, <3>1 DEF KInv, Answered
    <3> QED
      BY <1>2, <1>3, <2>2, <3>1, <3>2
  <2>3. ASSUME NEW q \in Reqs, LoginOf(q, s)
        PROVE  (mine' = s /\ jar'.bundle.sid = s) \/ LoginOf(q, s)'
    <3>1. CASE q = p
      <4>1. Carries(p) /\ req[p].kind = "callback" /\ r.bundle.sid = s
        BY <1>0, <2>3, <3>1 DEF LoginOf
      <4> QED
        BY <1>2, <1>3, <4>1
    <3>2. CASE q # p
      BY <1>0, <2>3, <3>2 DEF LoginOf, Carries
    <3> QED
      BY <3>1, <3>2
  <2> QED
    BY <2>1, <2>2, <2>3 DEF KInv, LoginHeld
<1> QED
  BY <1>4, <1>5, <1>6, <1>7, <1>8 DEF KInv

LEMMA KStep == TypeOK /\ KInv /\ [Next]_vars => KInv'
<1> SUFFICES ASSUME TypeOK, KInv, [Next]_vars PROVE KInv'
  OBVIOUS
<1>1. CASE UNCHANGED vars
  <2>1. UNCHANGED <<revoking, phase, newest, jar, mine, req, causes>>
    BY <1>1 DEF vars, keycloakVars, browserVars
  <2>2. /\ \A x : Live(x)' <=> Live(x)
        /\ \A p \in Reqs : Carries(p)' <=> Carries(p)
        /\ (NothingLost' <=> NothingLost) /\ (NothingHalf' <=> NothingHalf)
        /\ NotRefused' <=> NotRefused
    BY <2>1 DEF Live, Carries, NothingLost, NothingHalf, NotRefused
  <2>3. OneLive'
    BY <2>1, <2>2 DEF KInv, OneLive
  <2>4. ASSUME NEW p \in Reqs PROVE Answered(p)'
    BY <2>1, <2>2 DEF KInv, Answered
  <2>5. NewestHeld'
    BY <2>1, <2>2 DEF KInv, NewestHeld, Held
  <2>6. MineHeld'
    BY <2>1, <2>2 DEF KInv, MineHeld
  <2>7. LoginHeld'
    BY <2>1, <2>2 DEF KInv, LoginHeld, LoginOf
  <2> QED
    BY <2>3, <2>4, <2>5, <2>6, <2>7 DEF KInv
<1> SUFFICES ASSUME Next PROVE KInv'
  BY <1>1
<1>0. /\ req \in [Reqs -> Requests] /\ jar \in Jars
      /\ phase \in [Sids -> {"new", "live", "over"}]
  BY DEF TypeOK
<1>2. ASSUME NEW s \in Sids, AccessTokenExpires(s) \/ SessionEnds(s) PROVE KInv'
  <2>1. UNCHANGED <<newest, jar, mine, req>>
        /\ (phase' = phase \/ phase' = [phase EXCEPT ![s] = "over"])
    BY <1>2 DEF AccessTokenExpires, SessionEnds, browserVars
  <2>2. \A t \in Sids : (Live(t)' => Live(t)) /\ (phase'[t] = "new" => phase[t] = "new")
    BY <1>0, <2>1 DEF Live
  <2>3. OneLive'
    BY <2>1, <2>2 DEF KInv, OneLive
  <2> QED
    BY <2>1, <2>2, <2>3, PlainStep
<1>3. CASE Evict
  <2>1. UNCHANGED <<newest, mine, req, phase>> /\ jar'.bundle = jar.bundle
    BY <1>0, <1>3 DEF Evict, keycloakVars, Jars
  <2>2. OneLive'
    BY <2>1, OneLiveStays DEF KInv
  <2>3. \A t \in Sids : Live(t)' => Live(t)
    BY <2>1 DEF Live
  <2> QED
    BY <2>1, <2>2, <2>3, PlainStep
<1>4. ASSUME NEW p \in Reqs, NEW kind \in Kinds \ {"none", "callback"}, Send(p, kind) PROVE KInv'
  <2>1. UNCHANGED <<newest, mine, jar, phase>> /\ req[p].pc = "idle"
    BY <1>4 DEF Send, keycloakVars, browserVars
  <2>2. OneLive'
    BY <2>1, OneLiveStays DEF KInv
  <2>3. \A t \in Sids : Live(t)' => Live(t)
    BY <2>1 DEF Live
  <2>4. req'[p].pc = "sent" /\ \A q \in Reqs \ {p} : req'[q] = req[q]
    BY <1>0, <1>4 DEF Send, Idle
  <2>5. ~ Carries(p) /\ \A s \in Sids : ~ LoginOf(p, s)
    BY <2>1 DEF Carries, LoginOf
  <2> QED
    BY <2>1, <2>2, <2>3, <2>4, <2>5, PlainStep
<1>5. ASSUME NEW p \in Reqs, NEW s \in Sids, Authenticate(p, s) PROVE KInv'
  <2>1. UNCHANGED <<newest, mine, jar>> /\ req[p].pc = "keycloak"
    BY <1>5 DEF Authenticate, browserVars
  <2>2. \/ phase' = phase
        \/ /\ phase[s] = "new" /\ (\A t \in Sids : ~ Live(t))
           /\ phase' = [phase EXCEPT ![s] = "live"]
    BY <1>5 DEF Authenticate
  <2>3. OneLive'
    <3>1. CASE phase' = phase
      BY <2>1, <3>1, OneLiveStays DEF KInv
    <3>2. CASE /\ \A t \in Sids : ~ Live(t)
               /\ phase' = [phase EXCEPT ![s] = "live"]
      <4>1. \A t \in Sids : (Live(t)' => t = s) /\ (phase'[t] = "new" => phase[t] = "new")
        BY <1>0, <3>2 DEF Live
      <4> QED
        BY <2>1, <4>1 DEF KInv, OneLive
    <3> QED
      BY <2>2, <3>1, <3>2
  <2>4. /\ req'[p].pc = "sent" /\ req'[p].kind = "callback" /\ req'[p].code = s
        /\ \A q \in Reqs \ {p} : req'[q] = req[q]
    BY <1>0, <1>5 DEF Authenticate, Requests
  <2>5. ~ Carries(p) /\ \A t \in Sids : ~ LoginOf(p, t)
    BY <2>1 DEF Carries, LoginOf
  <2>6. LoginOf(p, s)'
    BY <2>4 DEF LoginOf
  <2>7. ASSUME NEW t \in Sids, Live(t)'
        PROVE  Live(t) \/ (Fresh(t) /\ \E q \in Reqs : LoginOf(q, t)')
    <3>1. CASE phase' = phase
      BY <2>7, <3>1 DEF Live
    <3>2. CASE phase[s] = "new" /\ phase' = [phase EXCEPT ![s] = "live"]
      <4>1. CASE t = s
        BY <2>6, <3>2, <4>1 DEF KInv, OneLive, Fresh
      <4>2. CASE t # s
        BY <1>0, <2>7, <3>2, <4>2 DEF Live
      <4> QED
        BY <4>1, <4>2
    <3> QED
      BY <2>2, <3>1, <3>2
  <2> QED
    BY <2>1, <2>3, <2>4, <2>5, <2>7, PlainStep
<1>6. ASSUME NEW p \in Reqs, Lose(p) PROVE KInv'
  <2>1. UNCHANGED <<revoking, newest, mine, jar, phase>>
    BY <1>6 DEF Lose, keycloakVars, browserVars
  <2>2. OneLive'
    BY <2>1, OneLiveStays DEF KInv
  <2>3. \A t \in Sids : Live(t)' => Live(t)
    BY <2>1 DEF Live
  <2>4. req'[p].pc # "answered" /\ \A q \in Reqs \ {p} : req'[q] = req[q]
    BY <1>0, <1>6 DEF Lose, Idle
  <2>5. Carries(p) /\ revoking => "dropped" \in causes'
    BY <1>6 DEF Lose, Carries, Blame, Dropped
  <2>6. (\E s \in Sids : LoginOf(p, s)) => "half login" \in causes'
    BY <1>6 DEF Lose, LoginOf, Blame
  <2> QED
    BY <2>1, <2>2, <2>3, <2>4, <2>5, <2>6, PlainStep
<1>7. ASSUME NEW p \in Reqs,
             \/ RefuseRequest(p) \/ AdmitRequest(p) \/ RotateRequest(p)
             \/ NothingToRefresh(p) \/ Refresh(p) \/ RefreshRejected(p) \/ RefreshFails(p)
             \/ Logout(p) \/ Login(p) \/ Callback(p) \/ CallbackFails(p)
      PROVE  KInv'
  <2>1. UNCHANGED browserVars
    BY <1>7, HandlerType
  <2>2. PICK reply : /\ Answer(p, reply)
                     /\ \/ Silent(p, reply) \/ Clears(p, reply)
                        \/ Renews(p, reply) \/ LogsIn(p, reply)
    BY <1>7, HandlerEffect
  <2>3. req[p].pc = "sent"
    BY <1>7, HandlerEffect
  <2> QED
    BY <2>1, <2>2, <2>3, HandlerStep
<1> QED
  BY <1>2, <1>3, <1>4, <1>5, <1>6, <1>7, ArriveStep DEF Next

LEMMA KInvariance == Spec => []KInv
<1>1. Init => KInv
  BY NamesAssumption DEF Init, KInv, OneLive, Answered, Carries, Idle, NewestHeld, Held, MineHeld,
     LoginHeld, Live
<1> QED
  BY <1>1, KStep, TypeCorrect, PTL DEF Spec

\* app_env.py:667-675, auth_routes.py:244-300: for any number of requests in flight and
\* any order of the answers, the session of the last login keeps cookies that can be
\* refreshed, but for the causes that SessionKept names.
THEOREM TokensAreKept == Spec => []SessionKept
<1>1. TypeOK /\ KInv => SessionKept
  <2> SUFFICES ASSUME TypeOK, KInv, Quiet, Live(mine), NothingLost
               PROVE  jar.bundle.sid = mine /\ Usable(jar.bundle)
    BY DEF SessionKept, NothingLost
  <2>1. jar.bundle.sid = mine /\ mine \in Sids
    BY DEF KInv, MineHeld, Live
  <2>2. newest[mine] > 0
    BY <2>1, HeldGood DEF Good, TypeOK
  <2>3. revoking => Held(mine)
    BY <2>1, <2>2 DEF KInv, NewestHeld
  <2>4. \A p \in Reqs : ~ Carries(p)
    BY DEF Quiet, Carries
  <2> QED
    BY <2>1, <2>3, <2>4 DEF Usable, Held
<1> QED
  BY <1>1, TypeCorrect, KInvariance, PTL

\* auth_routes.py:154-168: once the user has logged out none of the user's sessions is
\* alive at Keycloak, but for the causes that LogoutEndsTheSession names.
THEOREM LoggedOutIsOver == Spec => []LogoutEndsTheSession
<1>1. KInv => LogoutEndsTheSession
  <2> SUFFICES ASSUME KInv, Quiet, mine = NoSid, NothingHalf, NEW s \in Sids, Live(s)
               PROVE  FALSE
    BY DEF LogoutEndsTheSession, NothingHalf
  <2>1. \A p \in Reqs : ~ LoginOf(p, s)
    BY DEF Quiet, LoginOf, Carries
  <2> QED
    BY <2>1, NamesAssumption DEF KInv, LoginHeld
<1> QED
  BY <1>1, KInvariance, PTL
-----------------------------------------------------------------------------
(* The CSRF value of the page. *)

\* The conditions of PageCanWrite.
Calm == causes \cap {"late", "evicted"} = {}

\* The cookies the browser has, those of its requests, those on their way back.
Hands == {jar} \cup {req[p].sent : p \in Reqs} \cup {req[p].reply : p \in Reqs}

\* The same tokens come with the same CSRF value.
Agree(c, d) == c.bundle = d.bundle /\ c.bundle # NoBundle => c.csrf = d.csrf

\* An answer with a session is that of a login, or keeps the CSRF value that was sent.
Repeats(p) ==
  Carries(p) /\ req[p].kind # "callback" =>
    req[p].sent.bundle # NoBundle /\ req[p].reply.csrf = req[p].sent.csrf

Coupled == \A c \in Hands : Paired(c) /\ \A d \in Hands : Agree(c, d)

Matched ==
  /\ Coupled
  /\ \A p \in Reqs : Repeats(p)
  /\ jar.bundle # NoBundle => tab = jar.csrf

WInv == Calm => Matched

\* Tokens that nobody has been given yet.
Unissued(b) == b.sid \in Sids /\ b.gen = newest[b.sid] + 1

LEMMA HandsGood ==
  ASSUME TypeOK, NEW c \in Hands
  PROVE  Good(c.bundle)
  BY HeldGood DEF Hands

\* Cookies that are handed on, dropped or issued remain coupled.
LEMMA CoupledStep ==
  ASSUME TypeOK, Coupled, NEW n, Paired(n), n.bundle = NoBundle \/ Unissued(n.bundle),
         \A d \in Hands' : \/ d.bundle = NoBundle \/ SameCookies(d, n)
                           \/ \E c \in Hands : SameCookies(d, c)
  PROVE  Coupled'
<1>1. ASSUME NEW d \in Hands' PROVE Paired(d)
  BY DEF Coupled, Paired, SameCookies
<1>2. ASSUME NEW c \in Hands, Unissued(n.bundle) PROVE c.bundle # n.bundle
  BY <1>2, HandsGood DEF Good, Unissued, TypeOK
<1>3. ASSUME NEW d \in Hands', NEW e \in Hands' PROVE Agree(d, e)
  <2> SUFFICES ASSUME d.bundle = e.bundle, d.bundle # NoBundle PROVE d.csrf = e.csrf
    BY DEF Agree
  <2>1. CASE SameCookies(d, n) /\ SameCookies(e, n)
    BY <2>1 DEF SameCookies
  <2>2. ASSUME NEW c \in Hands, SameCookies(d, c), SameCookies(e, n) PROVE FALSE
    BY <1>2, <2>2 DEF SameCookies
  <2>3. ASSUME NEW c \in Hands, SameCookies(e, c), SameCookies(d, n) PROVE FALSE
    BY <1>2, <2>3 DEF SameCookies
  <2>4. ASSUME NEW c \in Hands, NEW b \in Hands, SameCookies(d, c), SameCookies(e, b)
        PROVE  d.csrf = e.csrf
    BY <2>4 DEF Coupled, Agree, SameCookies
  <2> QED
    BY <2>1, <2>2, <2>3, <2>4
<1> QED
  BY <1>1, <1>3 DEF Coupled, Paired, Agree

\* One request changes, and its cookies and the browser's are handed on or dropped.
LEMMA HandedOn ==
  ASSUME TypeOK, Coupled, NEW p \in Reqs, NEW r \in Requests, req' = [req EXCEPT ![p] = r],
         NEW n, Paired(n), n.bundle = NoBundle \/ Unissued(n.bundle),
         \A d \in {jar', r.sent, r.reply} :
           \/ d.bundle = NoBundle \/ SameCookies(d, n)
           \/ \E c \in Hands : SameCookies(d, c)
  PROVE  Coupled'
<1>1. \A q \in Reqs : req'[q] = IF q = p THEN r ELSE req[q]
  BY DEF TypeOK
<1>2. Hands' = {jar'} \cup {req'[q].sent : q \in Reqs} \cup {req'[q].reply : q \in Reqs}
  BY DEF Hands
<1>3. ASSUME NEW d \in Hands'
      PROVE  d \in {jar', r.sent, r.reply} \/ d \in Hands
  BY <1>1, <1>2 DEF Hands
<1>4. ASSUME NEW d \in Hands'
      PROVE  \/ d.bundle = NoBundle \/ SameCookies(d, n)
             \/ \E c \in Hands : SameCookies(d, c)
  BY <1>3 DEF SameCookies
<1> QED
  BY <1>4, CoupledStep

\* A handler's answer: no tokens, or new ones with the CSRF value that was sent, or
\* those of a login with a new value.
Gives(p, reply) ==
  \/ reply.set # "session" /\ reply.bundle = NoBundle
  \/ /\ Unissued(reply.bundle) /\ reply.csrf # 0
     /\ \/ req[p].kind = "callback"
        \/ req[p].sent.bundle # NoBundle /\ reply.csrf = req[p].sent.csrf

LEMMA HandlerGives ==
  ASSUME TypeOK, Coupled, NEW p \in Reqs,
         \/ RefuseRequest(p) \/ AdmitRequest(p) \/ RotateRequest(p)
         \/ NothingToRefresh(p) \/ Refresh(p) \/ RefreshRejected(p) \/ RefreshFails(p)
         \/ Logout(p) \/ Login(p) \/ Callback(p) \/ CallbackFails(p)
  PROVE  \E reply : Answer(p, reply) /\ Gives(p, reply)
<1> DEFINE b == req[p].sent.bundle
           Given == \E reply : Answer(p, reply) /\ Gives(p, reply)
<1>1. Answer(p, Nothing) \/ Answer(p, Clear) \/ Answer(p, [Nothing EXCEPT !.set = "state"])
        => Given
  BY DEF Gives, Nothing, Clear
<1>2. b # NoBundle => req[p].sent.csrf # 0
  BY DEF Coupled, Hands, Paired
<1>3. b.sid \in Sids => b # NoBundle
  BY NamesAssumption DEF NoBundle
<1>4. ASSUME Usable(b), Answer(p, Session(p, Refreshed(b))) PROVE Given
  <2>1. b.sid \in Sids /\ Unissued(Refreshed(b))
    BY <1>4 DEF Usable, Live, Refreshed, Unissued
  <2> QED
    BY <1>2, <1>3, <1>4, <2>1 DEF Gives, Session
<1>5. CASE RefuseRequest(p) \/ NothingToRefresh(p)
  BY <1>1, <1>5 DEF RefuseRequest, NothingToRefresh, Refuse
<1>6. CASE AdmitRequest(p)
  BY <1>1, <1>2, <1>3, <1>6 DEF AdmitRequest, Valid
<1>7. CASE RotateRequest(p)
  BY <1>1, <1>4, <1>7 DEF RotateRequest
<1>8. CASE Refresh(p)
  BY <1>4, <1>8 DEF Refresh
<1>9. CASE RefreshRejected(p) \/ RefreshFails(p)
  BY <1>1, <1>9 DEF RefreshRejected, RefreshFails, Refuse
<1>10. CASE Logout(p) \/ Login(p)
  BY <1>1, <1>10 DEF Logout, Login
<1>11. CASE CallbackFails(p)
  BY <1>1, <1>11 DEF CallbackFails, Refuse
<1>12. CASE Callback(p)
  <2> DEFINE reply == [set |-> "session", csrf |-> minted + 1,
                       bundle |-> [sid |-> req[p].code, gen |-> newest[req[p].code] + 1]]
  <2>1. req[p].code \in Sids /\ minted \in Nat /\ Handles(p, {"callback"}) /\ Answer(p, reply)
    BY <1>12 DEF Callback, Live, TypeOK
  <2>2. Gives(p, reply)
    BY <2>1 DEF Gives, Unissued, Handles
  <2> QED
    BY <2>1, <2>2
<1> QED
  BY <1>5, <1>6, <1>7, <1>8, <1>9, <1>10, <1>11, <1>12

LEMMA MatchedHandler ==
  ASSUME TypeOK, Matched, NEW p \in Reqs, NEW reply \in Replies, Answer(p, reply),
         Gives(p, reply), UNCHANGED browserVars
  PROVE  Matched'
<1> DEFINE r == [req[p] EXCEPT !.pc = "answered", !.reply = reply]
<1>1. /\ r \in Requests /\ r.sent = req[p].sent /\ r.reply = reply /\ r.kind = req[p].kind
      /\ req' = [req EXCEPT ![p] = r]
  BY DEF Answer, TypeOK, Requests
<1>2. jar \in Hands /\ req[p].sent \in Hands
  BY DEF Hands
<1>3. Paired(reply) /\ (reply.bundle = NoBundle \/ Unissued(reply.bundle))
  BY DEF Gives, Paired
<1>4. Coupled'
  <2>1. jar' = jar
    BY DEF browserVars
  <2>2. \A d \in {jar', r.sent, r.reply} :
          \/ d.bundle = NoBundle \/ SameCookies(d, reply)
          \/ \E c \in Hands : SameCookies(d, c)
    BY <1>1, <1>2, <2>1 DEF SameCookies
  <2> HIDE DEF r
  <2> QED
    BY <1>1, <1>3, <2>2, HandedOn DEF Matched
<1>5. ASSUME NEW q \in Reqs PROVE Repeats(q)'
  <2>1. CASE q = p
    <3>1. req'[q] = r
      BY <1>1, <2>1 DEF TypeOK
    <3>2. Carries(q)' => reply.set = "session"
      BY <1>1, <3>1 DEF Carries
    <3>3. reply.set = "session" /\ req[p].kind # "callback"
            => req[p].sent.bundle # NoBundle /\ reply.csrf = req[p].sent.csrf
      BY DEF Gives
    <3> HIDE DEF r
    <3> QED
      BY <1>1, <2>1, <3>1, <3>2, <3>3 DEF Repeats
  <2>2. CASE q # p
    <3>1. req'[q] = req[q]
      BY <2>2 DEF Answer, TypeOK
    <3> QED
      BY <3>1 DEF Matched, Repeats, Carries
  <2> QED
    BY <2>1, <2>2
<1> QED
  BY <1>4, <1>5 DEF Matched, browserVars

\* A request that is sent, or whose answer arrives or is lost.
LEMMA MatchedBrowser ==
  ASSUME TypeOK, Matched, NEW p \in Reqs, NEW r \in Requests, req' = [req EXCEPT ![p] = r],
         r.pc # "answered", SameCookies(r.sent, jar) \/ r.sent = EmptyJar,
         r.reply \in {req[p].reply, Nothing},
         \/ SameCookies(jar', jar) \/ SameCookies(jar', EmptyJar)
         \/ Carries(p) /\ SameCookies(jar', req[p].reply)
  PROVE  Coupled' /\ \A q \in Reqs : Repeats(q)'
<1>1. /\ jar \in Hands /\ req[p].reply \in Hands
      /\ EmptyJar.bundle = NoBundle /\ Nothing.bundle = NoBundle
  BY DEF Hands, EmptyJar, Nothing
<1>2. Paired(EmptyJar)
  BY <1>1 DEF Paired
<1>3. \A d \in {jar', r.sent, r.reply} :
        d.bundle = NoBundle \/ \E c \in Hands : SameCookies(d, c)
  BY <1>1 DEF SameCookies
<1>4. Coupled'
  BY <1>1, <1>2, <1>3, HandedOn DEF Matched
<1>5. ASSUME NEW q \in Reqs PROVE Repeats(q)'
  <2>1. req'[q] = IF q = p THEN r ELSE req[q]
    BY DEF TypeOK
  <2> QED
    BY <2>1 DEF Matched, Repeats, Carries
<1> QED
  BY <1>4, <1>5

\* What arrives leaves the page's value in the cookie, or gives both a new one.
LEMMA ArriveMatches ==
  ASSUME TypeOK, Matched, NEW p \in Reqs, Arrive(p), "late" \notin causes', jar'.bundle # NoBundle
  PROVE  tab' = jar'.csrf
<1> DEFINE r == req[p].reply
           c == req[p].sent
<1>0. req[p].pc = "answered" /\ r.set \in {"none", "session", "clear", "state"}
  BY DEF Arrive, TypeOK, Requests, Replies
<1>1. ~ Overwrites(p)
  BY DEF Arrive, Blame
<1>2. CASE r.set \in {"none", "state"}
  <2>1. jar'.bundle = jar.bundle /\ jar'.csrf = jar.csrf /\ tab' = tab
    BY <1>2 DEF Arrive, TypeOK, Jars
  <2> QED
    BY <2>1 DEF Matched
<1>3. CASE r.set = "clear"
  BY <1>3 DEF Arrive, TypeOK, Jars
<1>4. CASE r.set = "session" /\ req[p].kind = "callback"
  BY <1>4 DEF Arrive
<1>5. CASE r.set = "session" /\ req[p].kind # "callback"
  <2>1. jar'.csrf = r.csrf /\ jar'.bundle = r.bundle /\ tab' = tab
    BY <1>5 DEF Arrive
  <2>2. c.bundle # NoBundle /\ r.csrf = c.csrf
    BY <1>0, <1>5 DEF Matched, Repeats, Carries
  <2>3. CASE jar.bundle = c.bundle
    <3>1. jar.csrf = c.csrf
      BY <2>2, <2>3 DEF Matched, Coupled, Hands, Agree
    <3> QED
      BY <2>1, <2>2, <2>3, <3>1 DEF Matched
  <2>4. CASE jar.bundle # c.bundle
    <3>1. r.bundle.sid = jar.bundle.sid /\ r.csrf = jar.csrf
      BY <1>1, <1>5, <2>4 DEF Overwrites
    <3>2. r.bundle # NoBundle => r.bundle.sid \in Sids
      BY DEF TypeOK, Issued
    <3>3. jar.bundle # NoBundle
      BY <2>1, <3>1, <3>2, NamesAssumption DEF NoBundle
    <3> QED
      BY <2>1, <3>1, <3>3 DEF Matched
  <2> QED
    BY <2>3, <2>4
<1> QED
  BY <1>0, <1>2, <1>3, <1>4, <1>5

LEMMA WStep == TypeOK /\ WInv /\ [Next]_vars => WInv'
<1> SUFFICES ASSUME TypeOK, WInv, [Next]_vars, Calm' PROVE Matched'
  BY DEF WInv
<1>1. CASE UNCHANGED vars
  <2>1. UNCHANGED <<jar, tab, req, causes>>
    BY <1>1 DEF vars, keycloakVars, browserVars
  <2> QED
    BY <2>1 DEF WInv, Calm, Matched, Coupled, Hands, Paired, Agree, Repeats, Carries
<1> SUFFICES ASSUME Next PROVE Matched'
  BY <1>1
<1>2. Matched
  BY Growth DEF WInv, Calm
<1>3. CASE \E s \in Sids : AccessTokenExpires(s) \/ SessionEnds(s)
  <2>1. UNCHANGED <<jar, tab, req>>
    BY <1>3 DEF AccessTokenExpires, SessionEnds, browserVars
  <2> QED
    BY <1>2, <2>1 DEF Matched, Coupled, Hands, Paired, Agree, Repeats, Carries
<1>4. CASE Evict
  BY <1>4 DEF Evict, Calm
<1>5. ASSUME NEW p \in Reqs, NEW kind \in Kinds, Send(p, kind)
      PROVE  Matched'
  <2> DEFINE r == [Idle EXCEPT !.pc = "sent", !.kind = kind, !.sent = CookiesFor(kind),
                               !.header = IF kind = "write" THEN tab ELSE 0]
  <2>1. /\ r \in Requests /\ r.pc # "answered" /\ r.sent = CookiesFor(kind)
        /\ r.reply = Nothing
    BY CookiesSent, Constants DEF Idle, Requests, TypeOK
  <2>2. req' = [req EXCEPT ![p] = r] /\ UNCHANGED <<jar, tab>> /\ SameCookies(jar', jar)
    BY <1>5 DEF Send, browserVars, SameCookies
  <2> HIDE DEF r
  <2> QED
    BY <1>2, <2>1, <2>2, CookiesSent, MatchedBrowser DEF Matched
<1>6. ASSUME NEW p \in Reqs, NEW s \in Sids, Authenticate(p, s)
      PROVE  Matched'
  <2> DEFINE r == [req[p] EXCEPT !.pc = "sent", !.kind = "callback", !.sent = jar, !.code = s]
  <2>1. /\ r \in Requests /\ r.pc # "answered" /\ SameCookies(r.sent, jar)
        /\ r.reply = req[p].reply
    BY DEF Requests, Kinds, TypeOK, SameCookies
  <2>2. req' = [req EXCEPT ![p] = r] /\ UNCHANGED <<jar, tab>> /\ SameCookies(jar', jar)
    BY <1>6 DEF Authenticate, TypeOK, Requests, browserVars, SameCookies
  <2> HIDE DEF r
  <2> QED
    BY <1>2, <2>1, <2>2, MatchedBrowser DEF Matched
<1>7. ASSUME NEW p \in Reqs, Arrive(p) \/ Lose(p)
      PROVE  Matched'
  <2>1. PICK r \in {Idle, [Idle EXCEPT !.pc = "keycloak"]} : req' = [req EXCEPT ![p] = r]
    BY <1>7 DEF Arrive, Lose
  <2>2. r \in Requests /\ r.pc # "answered" /\ r.sent = EmptyJar /\ r.reply = Nothing
    BY <2>1, Constants DEF Idle, Requests
  <2>3. \/ SameCookies(jar', jar) \/ SameCookies(jar', EmptyJar)
        \/ Carries(p) /\ SameCookies(jar', req[p].reply)
    BY <1>7, ArriveEffect DEF Lose, browserVars, SameCookies
  <2>4. jar'.bundle # NoBundle => tab' = jar'.csrf
    BY <1>2, <1>7, ArriveMatches DEF Lose, browserVars, Matched, Calm
  <2> QED
    BY <1>2, <2>1, <2>2, <2>3, <2>4, MatchedBrowser DEF Matched
<1>8. ASSUME NEW p \in Reqs,
             \/ RefuseRequest(p) \/ AdmitRequest(p) \/ RotateRequest(p)
             \/ NothingToRefresh(p) \/ Refresh(p) \/ RefreshRejected(p) \/ RefreshFails(p)
             \/ Logout(p) \/ Login(p) \/ Callback(p) \/ CallbackFails(p)
      PROVE  Matched'
  <2>1. PICK reply : Answer(p, reply) /\ Gives(p, reply)
    BY <1>2, <1>8, HandlerGives DEF Matched
  <2>2. PICK other \in Replies : Answer(p, other)
    BY <1>8, HandlerType
  <2>3. reply = other
    BY <2>1, <2>2 DEF Answer, TypeOK, Requests
  <2> QED
    BY <1>2, <1>8, <2>1, <2>2, <2>3, HandlerType, MatchedHandler
<1> QED
  BY <1>3, <1>4, <1>5, <1>6, <1>7, <1>8 DEF Next

\* app_env.py:475-476, auth_routes.py:296: for any number of requests, logins and
\* refreshes, in any order, the CSRF value the page read is the cookie's for as long as
\* there is a session, but for the causes that PageCanWrite names.
THEOREM PageKeepsItsValue == Spec => []PageCanWrite
<1>1. Init => WInv
  BY DEF Init, WInv, Matched, Coupled, Hands, Paired, Agree, Repeats, Carries, EmptyJar, Idle,
     Nothing
<1>2. WInv => PageCanWrite
  <2> SUFFICES ASSUME Matched, jar.bundle # NoBundle PROVE tab = jar.csrf /\ tab # 0
    BY DEF WInv, PageCanWrite, Calm
  <2> QED
    BY DEF Matched, Coupled, Hands, Paired
<1> QED
  BY <1>1, <1>2, WStep, TypeCorrect, PTL DEF Spec
=============================================================================
