-------------------------- MODULE SessionRevocation --------------------------
(***************************************************************************)
(* OIDC back-channel logout: Keycloak tells the app that a session of a    *)
(* user has ended, the app stores a `revoked_session` row, and every       *)
(* authenticated request, HTTP or WebSocket, looks the row up after it has *)
(* verified the access token locally.                                      *)
(*                                                                         *)
(* One user; each sid is one SSO session of that user.  A tick is a second:*)
(* `iat` is a whole number of seconds, revoked_at has decimals, so a row   *)
(* written in the tick a token was issued in is later than the token.      *)
(***************************************************************************)
EXTENDS Integers, FiniteSets

CONSTANTS
  Sessions,    \* the sids of the user
  NoSid,       \* the sid of a logout that names the user only (`sub`)
  Requests,    \* authenticated requests and WebSocket actions in flight
  Hooks,       \* back-channel logout requests in flight
  UserWide,    \* TRUE if Keycloak may send a logout token without a sid
  AccessLife,  \* accessTokenLifespan
  Retention,   \* REVOCATION_RETENTION_SECONDS
  MaxTime,     \* bound on the clock, for TLC
  MaxDeliveries \* bound on the deliveries of logout tokens, for TLC

ASSUME NoSidAssumption == NoSid \notin Sessions
ASSUME UserWideAssumption == UserWide \in BOOLEAN
ASSUME TimesAssumption == AccessLife \in Nat /\ Retention \in Nat /\ MaxTime \in Nat
ASSUME DeliveriesAssumption == MaxDeliveries \in Nat
\* session_revocation.py:43-45: the retention covers the life of any access token.
ASSUME RetentionAssumption == AccessLife <= Retention

VARIABLES
  now,
  phase,     \* Keycloak: each session is "new", "open" or "over"
  start,     \* Keycloak: when it was opened
  end,       \* Keycloak: when it ended
  outbox,    \* Keycloak: the sids of the logout tokens sent, maybe more than once
  rows,      \* Mongo: the revoked_session collection
  hookPc,    \* backchannel_logout, one instance per delivery
  hookSid,
  hookAt,    \* the time.time() of revoke_session
  hookOld,   \* the rows the purge found, still to remove
  received,  \* how many logout tokens were delivered
  reqPc,     \* get_authed_env and build_authed_env_from_token
  reqSid,
  reqIat,    \* the claims of the request's access token
  barred,    \* history: the ended sessions whose revocation was stored
  handled    \* history: when user-wide logouts were handled

keycloakVars == <<phase, start, end, outbox>>
hookVars == <<hookPc, hookSid, hookAt, hookOld>>
reqVars == <<reqPc, reqSid, reqIat>>
vars == <<now, keycloakVars, rows, hookVars, received, reqVars, barred, handled>>

Sids == Sessions \cup {NoSid}
Row == [sid : Sids, at : Nat, expire : Nat]

TypeOK ==
  /\ now \in Nat
  /\ phase \in [Sessions -> {"new", "open", "over"}]
  /\ start \in [Sessions -> Nat]
  /\ end \in [Sessions -> Nat]
  /\ outbox \subseteq Sids
  /\ rows \subseteq Row
  /\ hookPc \in [Hooks -> {"idle", "save", "find", "purge"}]
  /\ hookSid \in [Hooks -> Sids]
  /\ hookAt \in [Hooks -> Nat]
  /\ hookOld \in [Hooks -> SUBSET Row]
  /\ received \in Nat
  /\ reqPc \in [Requests -> {"idle", "check", "serve", "refused"}]
  /\ reqSid \in [Requests -> Sids]
  /\ reqIat \in [Requests -> Nat]
  /\ barred \subseteq Sessions
  /\ handled \subseteq Nat

Init ==
  /\ now = 0
  /\ phase = [s \in Sessions |-> "new"]
  /\ start = [s \in Sessions |-> 0]
  /\ end = [s \in Sessions |-> 0]
  /\ outbox = {}
  /\ rows = {}
  /\ hookPc = [h \in Hooks |-> "idle"]
  /\ hookSid = [h \in Hooks |-> NoSid]
  /\ hookAt = [h \in Hooks |-> 0]
  /\ hookOld = [h \in Hooks |-> {}]
  /\ received = 0
  /\ reqPc = [q \in Requests |-> "idle"]
  /\ reqSid = [q \in Requests |-> NoSid]
  /\ reqIat = [q \in Requests |-> 0]
  /\ barred = {}
  /\ handled = {}

Tick ==
  /\ now < MaxTime
  /\ now' = now + 1
  /\ UNCHANGED <<keycloakVars, rows, hookVars, received, reqVars, barred, handled>>

(***************************************************************************)
(* Keycloak.                                                               *)
(***************************************************************************)

\* A login: /auth/callback exchanges the code of a new SSO session.
Login(s) ==
  /\ phase[s] = "new"
  /\ phase' = [phase EXCEPT ![s] = "open"]
  /\ start' = [start EXCEPT ![s] = now]
  /\ UNCHANGED <<now, end, outbox, rows, hookVars, received, reqVars, barred, handled>>

\* An access token of session s issued at second i: at the login, or by a
\* refresh, which Keycloak grants only while the session is open.
Issued(s, i) ==
  /\ phase[s] # "new" /\ start[s] <= i /\ i <= now
  /\ phase[s] = "over" => i <= end[s]

\* Logout of one session, by the user, an administrator or the idle timeout.
EndSession(s) ==
  /\ phase[s] = "open"
  /\ phase' = [phase EXCEPT ![s] = "over"]
  /\ end' = [end EXCEPT ![s] = now]
  /\ outbox' = outbox \cup {s}
  /\ UNCHANGED <<now, start, rows, hookVars, received, reqVars, barred, handled>>

\* Logout of the user: every open session, one token without a sid.
EndAll ==
  /\ UserWide
  /\ \E s \in Sessions : phase[s] = "open"
  /\ phase' = [s \in Sessions |-> IF phase[s] = "open" THEN "over" ELSE phase[s]]
  /\ end' = [s \in Sessions |-> IF phase[s] = "open" THEN now ELSE end[s]]
  /\ outbox' = outbox \cup {NoSid}
  /\ UNCHANGED <<now, start, rows, hookVars, received, reqVars, barred, handled>>

\* Keycloak gives up on a delivery, or verify_logout_token refuses it.
Lost(m) ==
  /\ m \in outbox
  /\ outbox' = outbox \ {m}
  /\ UNCHANGED <<now, phase, start, end, rows, hookVars, received, reqVars, barred, handled>>

(***************************************************************************)
(* backchannel_logout: revoke_session, then purge_expired_revocations.     *)
(***************************************************************************)

\* A verified delivery.  The token stays in the outbox: Keycloak may resend it.
Receive(h, m) ==
  /\ hookPc[h] = "idle" /\ m \in outbox
  /\ received < MaxDeliveries
  /\ received' = received + 1
  /\ hookPc' = [hookPc EXCEPT ![h] = "save"]
  /\ hookSid' = [hookSid EXCEPT ![h] = m]
  /\ hookAt' = [hookAt EXCEPT ![h] = now]
  /\ UNCHANGED <<now, keycloakVars, rows, hookOld, reqVars, barred, handled>>

\* The rec_name: sid-<sid>, or sub-<sub>-<milliseconds>.
SameName(x, y) == x.sid = y.sid /\ (x.sid = NoSid => x.at = y.at)

\* Broken variant of NewRow: the row is not kept as long as the tokens live.
NewRowNoRetention(h) == [sid |-> hookSid[h], at |-> hookAt[h], expire |-> hookAt[h]]

NewRow(h) == [sid |-> hookSid[h], at |-> hookAt[h], expire |-> hookAt[h] + Retention]

\* The ended sessions that the revocation of hook h is about.
Ended(h) == {s \in Sessions : /\ phase[s] = "over" /\ end[s] <= hookAt[h]
                              /\ hookSid[h] \in {s, NoSid}}

\* model.upsert by rec_name: the same sid replaces its row.
Save(h) ==
  /\ hookPc[h] = "save"
  /\ rows' = {x \in rows : ~SameName(x, NewRow(h))} \cup {NewRow(h)}
  /\ hookPc' = [hookPc EXCEPT ![h] = "find"]
  /\ barred' = barred \cup Ended(h)
  /\ handled' = IF hookSid[h] = NoSid THEN handled \cup {hookAt[h]} ELSE handled
  /\ UNCHANGED <<now, keycloakVars, received, hookSid, hookAt, hookOld, reqVars>>

HookEnds(h) ==
  /\ hookPc' = [hookPc EXCEPT ![h] = "idle"]
  /\ hookSid' = [hookSid EXCEPT ![h] = NoSid]
  /\ hookAt' = [hookAt EXCEPT ![h] = 0]
  /\ hookOld' = [hookOld EXCEPT ![h] = {}]

\* The row cannot be stored: RuntimeError, a 500 for Keycloak.
SaveFails(h) ==
  /\ hookPc[h] = "save"
  /\ HookEnds(h)
  /\ UNCHANGED <<now, keycloakVars, rows, received, reqVars, barred, handled>>

Find(h) ==
  /\ hookPc[h] = "find"
  /\ hookOld' = [hookOld EXCEPT ![h] = {x \in rows : x.expire < now}]
  /\ hookPc' = [hookPc EXCEPT ![h] = "purge"]
  /\ UNCHANGED <<now, keycloakVars, rows, received, hookSid, hookAt, reqVars, barred, handled>>

\* model.remove takes the record away even if it was saved again in between.
Remove(h, x) ==
  /\ hookPc[h] = "purge" /\ x \in hookOld[h]
  /\ rows' = {y \in rows : ~SameName(x, y)}
  /\ hookOld' = [hookOld EXCEPT ![h] = @ \ {x}]
  /\ UNCHANGED <<now, keycloakVars, received, hookPc, hookSid, hookAt, reqVars, barred, handled>>

\* The purge has removed its rows, or failed: the endpoint answers ok.
PurgeEnds(h) ==
  /\ hookPc[h] \in {"find", "purge"}
  /\ HookEnds(h)
  /\ UNCHANGED <<now, keycloakVars, rows, received, reqVars, barred, handled>>

(***************************************************************************)
(* An authenticated request, or an action of a WebSocket connection, which *)
(* authenticates again with the token of the handshake.                    *)
(***************************************************************************)

\* session_app: signature, exp, iss, aud, all checked locally.
Verify(q, s, i) ==
  /\ reqPc[q] = "idle"
  /\ Issued(s, i) /\ now < i + AccessLife
  /\ reqPc' = [reqPc EXCEPT ![q] = "check"]
  /\ reqSid' = [reqSid EXCEPT ![q] = s]
  /\ reqIat' = [reqIat EXCEPT ![q] = i]
  /\ UNCHANGED <<now, keycloakVars, rows, hookVars, received, barred, handled>>

\* Broken variant of Revoked: a revocation of the user has no date.
RevokedForEver(s, i) == \E x \in rows : x.sid = s \/ x.sid = NoSid

\* Broken variant of Revoked: only rows of the very sid count.
RevokedBySid(s, i) == \E x \in rows : x.sid = s

\* is_session_revoked
Revoked(s, i) == \E x \in rows : x.sid = s \/ (x.sid = NoSid /\ x.at >= i)

\* _reject_revoked_session, and its twin for WebSockets.
Check(q) ==
  /\ reqPc[q] = "check"
  /\ reqPc' = [reqPc EXCEPT ![q] = IF Revoked(reqSid[q], reqIat[q]) THEN "refused" ELSE "serve"]
  /\ UNCHANGED <<now, keycloakVars, rows, hookVars, received, reqSid, reqIat, barred, handled>>

Answer(q) ==
  /\ reqPc[q] \in {"serve", "refused"}
  /\ reqPc' = [reqPc EXCEPT ![q] = "idle"]
  /\ reqSid' = [reqSid EXCEPT ![q] = NoSid]
  /\ reqIat' = [reqIat EXCEPT ![q] = 0]
  /\ UNCHANGED <<now, keycloakVars, rows, hookVars, received, barred, handled>>

Next ==
  \/ Tick
  \/ EndAll
  \/ \E s \in Sessions : Login(s) \/ EndSession(s)
  \/ \E m \in Sids : Lost(m) \/ \E h \in Hooks : Receive(h, m)
  \/ \E h \in Hooks : \/ Save(h) \/ SaveFails(h) \/ Find(h) \/ PurgeEnds(h)
                      \/ \E x \in hookOld[h] : Remove(h, x)
  \/ \E q \in Requests : \/ \E s \in Sessions, i \in 0..MaxTime : Verify(q, s, i)
                         \/ Check(q) \/ Answer(q)

Spec == Init /\ [][Next]_vars

(***************************************************************************)
(* Properties.                                                             *)
(***************************************************************************)

Admitted(q) == reqPc[q] = "check" /\ reqPc'[q] = "serve"
RefusedNow(q) == reqPc[q] = "check" /\ reqPc'[q] = "refused"

\* Once the logout of a session has been stored, no access token of that
\* session that is still valid is admitted: not after a resent logout token,
\* not beside a purge that removes a row saved again since it was found.
RevokedStaysOut ==
  [][\A q \in Requests :
       Admitted(q) /\ reqSid[q] \in barred => now >= reqIat[q] + AccessLife]_vars

\* A request is refused only if its session has ended, or if a logout of the
\* whole user was handled since the session began: is_session_revoked compares
\* revoked_at with iat so that an old logout does not refuse the next login.
RefusedForACause ==
  [][\A q \in Requests :
       RefusedNow(q) => \/ phase[reqSid[q]] = "over"
                        \/ \E t \in handled : t >= start[reqSid[q]]]_vars

\* The purge only ever takes away revocations that no valid token needs: a
\* session whose stored revocation is gone has no access token left.
PurgedMeansExpired ==
  \A s \in barred :
    (\E i \in start[s]..end[s] : now < i + AccessLife) =>
      \E x \in rows : x.sid = s \/ (x.sid = NoSid /\ x.at >= end[s])
=============================================================================
