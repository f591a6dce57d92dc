--------------------------- MODULE SessionCookies ---------------------------
(***************************************************************************)
(* The browser's session with the app (backend for frontend): one cookie   *)
(* carries Keycloak's tokens, one the CSRF value that writes must repeat,  *)
(* one the state of a login in progress.  Login, callback, refresh, logout *)
(* and any request whose access token has expired set or remove them.      *)
(*                                                                         *)
(* One browser.  A request takes the cookies of the moment it is sent, the *)
(* server handles it in one step (its only exchange with shared state is   *)
(* the call to Keycloak), and its answer comes back in any order or not at *)
(* all.                                                                    *)
(*                                                                         *)
(* A bundle [sid, gen] is the gen-th pair of tokens of an SSO session.     *)
(* With `revoking` (Keycloak's "revoke refresh token") only the newest     *)
(* refresh token of a session is good; without, each is as long as the     *)
(* session lives.                                                          *)
(***************************************************************************)
EXTENDS Integers, FiniteSets

CONSTANTS
  Reqs,      \* requests of the browser, in flight at one time
  NoReq,     \* no login in progress
  Sids,      \* SSO sessions of the user at Keycloak
  NoSid,
  Realms,    \* the values of "revoke refresh token" considered
  MaxSends   \* bound on the requests of a behaviour

ASSUME NamesAssumption == NoSid \notin Sids /\ NoReq \notin Reqs
ASSUME RealmsAssumption == Realms \subseteq BOOLEAN
ASSUME SendsAssumption == MaxSends \in Nat

VARIABLES
  revoking,  \* Keycloak: does a refresh spend the older refresh tokens
  phase,     \* Keycloak: each session is "new", "live" or "over"
  newest,    \* Keycloak: the last generation of tokens of a session
  stale,     \* the access tokens up to this generation have expired
  jar,       \* the browser's cookies
  tab,       \* the CSRF value the page read when it was loaded
  req,       \* the requests in flight
  minted,    \* the CSRF values generated so far
  sends,
  mine,      \* history: the session of the last login, NoSid after a logout
  causes     \* history: what may take a session or a CSRF value away

keycloakVars == <<revoking, phase, newest, stale>>
browserVars == <<jar, tab, mine>>
vars == <<keycloakVars, browserVars, req, minted, sends, causes>>

Bundles == [sid : Sids \cup {NoSid}, gen : Nat]
NoBundle == [sid |-> NoSid, gen |-> 0]
Jars == [bundle : Bundles, csrf : Nat, state : Reqs \cup {NoReq}]
Kinds == {"none", "read", "write", "refresh", "logout", "login", "callback"}
Replies == [set : {"none", "session", "clear", "state"}, bundle : Bundles, csrf : Nat]
Nothing == [set |-> "none", bundle |-> NoBundle, csrf |-> 0]
Clear == [Nothing EXCEPT !.set = "clear"]
EmptyJar == [bundle |-> NoBundle, csrf |-> 0, state |-> NoReq]
Idle == [pc |-> "idle", kind |-> "none", sent |-> EmptyJar, header |-> 0,
         code |-> NoSid, reply |-> Nothing]
Requests == [pc : {"idle", "sent", "answered", "keycloak"}, kind : Kinds, sent : Jars,
             header : Nat, code : Sids \cup {NoSid}, reply : Replies]
Causes == {"logout", "outage", "spent", "dropped", "late", "evicted", "half login"}

\* Tokens and a CSRF value that exist, or none.
Issued(c) ==
  /\ c.csrf <= minted
  /\ \/ c.bundle = NoBundle
     \/ c.bundle.sid \in Sids /\ c.bundle.gen \in 1 .. newest[c.bundle.sid]

\* Types, and: every cookie, kept, sent or on its way back, was issued.
TypeOK ==
  /\ revoking \in BOOLEAN
  /\ phase \in [Sids -> {"new", "live", "over"}]
  /\ newest \in [Sids -> Nat] /\ stale \in [Sids -> Nat]
  /\ jar \in Jars /\ tab \in Nat /\ minted \in Nat /\ sends \in Nat
  /\ Issued(jar)
  /\ req \in [Reqs -> Requests]
  /\ \A p \in Reqs : Issued(req[p].sent) /\ Issued(req[p].reply)
  /\ mine \in Sids \cup {NoSid}
  /\ causes \subseteq Causes

Init ==
  /\ revoking \in Realms
  /\ phase = [s \in Sids |-> "new"]
  /\ newest = [s \in Sids |-> 0] /\ stale = [s \in Sids |-> 0]
  /\ jar = EmptyJar /\ tab = 0 /\ minted = 0 /\ sends = 0
  /\ req = [p \in Reqs |-> Idle]
  /\ mine = NoSid /\ causes = {}

(***************************************************************************)
(* Keycloak.                                                               *)
(***************************************************************************)

Live(s) == s \in Sids /\ phase[s] = "live"

\* A bundle whose refresh token Keycloak takes.
Usable(b) == Live(b.sid) /\ (revoking => b.gen = newest[b.sid])

\* A bundle whose access token the app verifies, by itself.
Valid(b) == b.sid \in Sids /\ stale[b.sid] < b.gen

Refreshed(b) == [sid |-> b.sid, gen |-> newest[b.sid] + 1]

\* Keycloak issues the next tokens of session s.
Issues(s) == newest' = [newest EXCEPT ![s] = @ + 1] /\ UNCHANGED <<revoking, phase, stale>>

\* The older tokens of a session expire first.
AccessTokenExpires(s) ==
  /\ stale[s] < newest[s]
  /\ stale' = [stale EXCEPT ![s] = @ + 1]
  /\ UNCHANGED <<revoking, phase, newest, browserVars, req, minted, sends, causes>>

\* Idle timeout, an administrator, the end-session page of a logout.
SessionEnds(s) ==
  /\ Live(s)
  /\ phase' = [phase EXCEPT ![s] = "over"]
  /\ UNCHANGED <<revoking, newest, stale, browserVars, req, minted, sends, causes>>

(***************************************************************************)
(* The browser.                                                            *)
(***************************************************************************)

\* What the server will read of the cookies.
CookiesFor(kind) == IF kind = "login" THEN EmptyJar ELSE [jar EXCEPT !.state = NoReq]

Send(p, kind) ==
  /\ req[p].pc = "idle"
  /\ sends < MaxSends
  /\ sends' = sends + 1
  /\ req' = [req EXCEPT ![p] = [Idle EXCEPT !.pc = "sent", !.kind = kind,
                                            !.sent = CookiesFor(kind),
                                            !.header = IF kind = "write" THEN tab ELSE 0]]
  /\ UNCHANGED <<keycloakVars, browserVars, minted, causes>>

\* The user at Keycloak's page: the browser's session there is used if it has
\* one, a new one is opened if not, and the browser is sent to the callback.
Authenticate(p, s) ==
  /\ req[p].pc = "keycloak"
  /\ \/ Live(s) /\ UNCHANGED phase
     \/ /\ phase[s] = "new" /\ \A t \in Sids : ~ Live(t)
        /\ phase' = [phase EXCEPT ![s] = "live"]
  /\ req' = [req EXCEPT ![p].pc = "sent", ![p].kind = "callback", ![p].sent = jar,
                        ![p].code = s]
  /\ UNCHANGED <<revoking, newest, stale, browserVars, minted, sends, causes>>

\* The browser drops the CSRF cookie, and keeps the session's.
Evict ==
  /\ jar.csrf # 0 /\ "evicted" \notin causes
  /\ jar' = [jar EXCEPT !.csrf = 0]
  /\ causes' = causes \cup {"evicted"}
  /\ UNCHANGED <<keycloakVars, tab, mine, req, minted, sends>>

(***************************************************************************)
(* The server.                                                             *)
(***************************************************************************)

Handles(p, kinds) == req[p].pc = "sent" /\ req[p].kind \in kinds

Answer(p, reply) == req' = [req EXCEPT ![p].pc = "answered", ![p].reply = reply]

Blame(cs) == causes' = causes \cup cs

\* New tokens that do not reach the browser: it goes on with the spent ones.
Dropped == IF revoking THEN {"dropped"} ELSE {}

\* Set-Cookie of both cookies: the CSRF value is kept, or made if there is none.
Session(p, bundle) ==
  [set |-> "session", bundle |-> bundle,
   csrf |-> IF req[p].sent.csrf = 0 THEN minted + 1 ELSE req[p].sent.csrf]
Mints(p) == minted' = IF req[p].sent.csrf = 0 THEN minted + 1 ELSE minted

\* A refusal, or a failure: no cookies are set.
Refuse(p) == Answer(p, Nothing) /\ UNCHANGED <<keycloakVars, minted>>

CsrfFails(p) ==
  req[p].kind = "write" /\ (req[p].sent.csrf = 0 \/ req[p].header # req[p].sent.csrf)

\* get_authed_env refuses: no cookie, CSRF, a session known to be over, a token
\* that cannot be refreshed (or Keycloak does not answer).
RefuseRequest(p) ==
  /\ Handles(p, {"read", "write"})
  /\ LET b == req[p].sent.bundle IN
       \/ b = NoBundle
       \/ CsrfFails(p)
       \/ ~ Live(b.sid)
       \/ ~ Valid(b)
  /\ Refuse(p)
  /\ UNCHANGED <<browserVars, sends, causes>>

\* Broken variant of AdmitRequest: every answer sets the cookies that came.
AdmitAndRewrite(p) ==
  /\ Handles(p, {"read", "write"})
  /\ Valid(req[p].sent.bundle) /\ ~ CsrfFails(p)
  /\ Answer(p, Session(p, req[p].sent.bundle))
  /\ Mints(p)
  /\ UNCHANGED <<keycloakVars, browserVars, sends, causes>>

\* The access token is good (also after the session's end, until it is known).
\* Cookies are set only if the CSRF value is missing, and with what came; not by an
\* endpoint that fails or makes its own Response.
AdmitRequest(p) ==
  /\ Handles(p, {"read", "write"})
  /\ Valid(req[p].sent.bundle) /\ ~ CsrfFails(p)
  /\ \/ /\ req[p].sent.csrf = 0
        /\ Answer(p, Session(p, req[p].sent.bundle))
        /\ Mints(p)
     \/ Answer(p, Nothing) /\ UNCHANGED minted
  /\ UNCHANGED <<keycloakVars, browserVars, sends, causes>>

\* The access token has expired: session_app refreshes it.  An endpoint that
\* fails after it, or that makes its own Response, does not set the cookies.
RotateRequest(p) ==
  /\ Handles(p, {"read", "write"})
  /\ LET b == req[p].sent.bundle IN
       /\ ~ Valid(b) /\ Usable(b) /\ ~ CsrfFails(p)
       /\ Issues(b.sid)
       /\ \/ Answer(p, Session(p, Refreshed(b))) /\ Mints(p) /\ UNCHANGED causes
          \/ Answer(p, Nothing) /\ UNCHANGED minted /\ Blame(Dropped)
  /\ UNCHANGED <<browserVars, sends>>

\* /auth/refresh, with no CSRF check.
NothingToRefresh(p) ==
  /\ Handles(p, {"refresh"})
  /\ req[p].sent.bundle = NoBundle
  /\ Refuse(p)
  /\ UNCHANGED <<browserVars, sends, causes>>

\* Broken variant of Refresh: the cookie keeps the refresh token it had.
RefreshKeepsOldToken(p) ==
  /\ Handles(p, {"refresh"})
  /\ Usable(req[p].sent.bundle)
  /\ Issues(req[p].sent.bundle.sid)
  /\ Answer(p, Session(p, req[p].sent.bundle))
  /\ Mints(p)
  /\ UNCHANGED <<browserVars, sends, causes>>

\* Broken variant of Refresh: each refresh makes a new CSRF value.
RefreshMintsAnew(p) ==
  /\ Handles(p, {"refresh"})
  /\ Usable(req[p].sent.bundle)
  /\ Issues(req[p].sent.bundle.sid)
  /\ Answer(p, [Session(p, Refreshed(req[p].sent.bundle)) EXCEPT !.csrf = minted + 1])
  /\ minted' = minted + 1
  /\ UNCHANGED <<browserVars, sends, causes>>

\* Keycloak's new tokens go in the cookies; the CSRF value stays.
Refresh(p) ==
  /\ Handles(p, {"refresh"})
  /\ Usable(req[p].sent.bundle)
  /\ Issues(req[p].sent.bundle.sid)
  /\ Answer(p, Session(p, Refreshed(req[p].sent.bundle)))
  /\ Mints(p)
  /\ UNCHANGED <<browserVars, sends, causes>>

\* Broken variant of RefreshRejected: the status is not looked at.
RefreshUnchecked(p) ==
  /\ Handles(p, {"refresh"})
  /\ req[p].sent.bundle # NoBundle
  /\ Answer(p, Session(p, Refreshed(req[p].sent.bundle)))
  /\ Mints(p)
  /\ UNCHANGED <<keycloakVars, browserVars, sends, causes>>

\* Any status from 400 up removes the cookies: the session is over, or its token
\* was spent by another request, or Keycloak has a problem of its own.
RefreshRejected(p) ==
  /\ Handles(p, {"refresh"})
  /\ req[p].sent.bundle # NoBundle
  /\ Blame(IF Usable(req[p].sent.bundle) THEN {"outage"}
           ELSE IF Live(req[p].sent.bundle.sid) THEN {"spent"} ELSE {})
  /\ Answer(p, Clear)
  /\ UNCHANGED <<keycloakVars, browserVars, minted, sends>>

\* No answer within 20 s, or one that cannot be read: 500 or 502, and Keycloak
\* may have issued the tokens.
RefreshFails(p) ==
  /\ Handles(p, {"refresh"})
  /\ req[p].sent.bundle # NoBundle
  /\ \/ Refuse(p) /\ UNCHANGED causes
     \/ /\ Usable(req[p].sent.bundle)
        /\ Issues(req[p].sent.bundle.sid)
        /\ Answer(p, Nothing)
        /\ Blame(Dropped)
        /\ UNCHANGED minted
  /\ UNCHANGED <<browserVars, sends>>

\* Broken variant of Logout: only the cookies go.
LogoutLocally(p) ==
  /\ Handles(p, {"logout"})
  /\ Answer(p, Clear)
  /\ Blame({"logout"})
  /\ UNCHANGED <<keycloakVars, browserVars, minted, sends>>

\* /logout: the refresh token of the cookie closes the session, if Keycloak
\* answers; the cookies go in any case.
Logout(p) ==
  /\ Handles(p, {"logout"})
  /\ LET s == req[p].sent.bundle.sid IN
       \/ /\ phase' = IF Live(s) THEN [phase EXCEPT ![s] = "over"] ELSE phase
          /\ Blame({"logout"})
       \/ Live(s) /\ UNCHANGED phase /\ Blame({"logout", "outage"})
  /\ Answer(p, Clear)
  /\ UNCHANGED <<revoking, newest, stale, browserVars, minted, sends>>

\* /login: the state of this login goes in a cookie and in the redirect.
Login(p) ==
  /\ Handles(p, {"login"})
  /\ Answer(p, [Nothing EXCEPT !.set = "state"])
  /\ UNCHANGED <<keycloakVars, browserVars, minted, sends, causes>>

\* /auth/callback: the state must be that of the last login started; the code is
\* exchanged, and a new CSRF value made.
Callback(p) ==
  /\ Handles(p, {"callback"})
  /\ req[p].sent.state = p
  /\ Live(req[p].code)
  /\ Issues(req[p].code)
  /\ minted' = minted + 1
  /\ Answer(p, [set |-> "session", csrf |-> minted + 1,
                bundle |-> [sid |-> req[p].code, gen |-> newest[req[p].code] + 1]])
  /\ UNCHANGED <<browserVars, sends, causes>>

\* Another login was started since, or Keycloak or session_app refuses.
CallbackFails(p) ==
  /\ Handles(p, {"callback"})
  /\ \/ Refuse(p) /\ Blame({"half login"})
     \/ /\ req[p].sent.state = p /\ Live(req[p].code)
        /\ Issues(req[p].code)
        /\ Answer(p, Nothing)
        /\ Blame({"half login"} \cup Dropped)
        /\ UNCHANGED minted
  /\ UNCHANGED <<browserVars, sends>>

(***************************************************************************)
(* The answer reaches the browser, or does not.                            *)
(***************************************************************************)

\* An answer made from cookies the browser no longer has, that takes the
\* newer ones away.
Overwrites(p) ==
  LET r == req[p].reply IN
  /\ r.set \in {"session", "clear"} /\ jar.bundle # req[p].sent.bundle
  /\ revoking \/ r.set = "clear" \/ r.bundle.sid # jar.bundle.sid
       \/ r.csrf # jar.csrf

Arrive(p) ==
  /\ req[p].pc = "answered"
  /\ LET r == req[p].reply IN
       /\ jar' = CASE r.set = "none" -> jar
                   [] r.set = "state" -> [jar EXCEPT !.state = p]
                   [] r.set = "clear" -> [jar EXCEPT !.bundle = NoBundle, !.csrf = 0]
                   [] OTHER -> [bundle |-> r.bundle, csrf |-> r.csrf,
                                state |-> IF req[p].kind = "callback" THEN NoReq
                                          ELSE jar.state]
       /\ IF r.set = "session" /\ req[p].kind = "callback"
            THEN tab' = r.csrf /\ mine' = r.bundle.sid
            ELSE /\ UNCHANGED tab
                 /\ mine' = IF req[p].kind = "logout" THEN NoSid ELSE mine
       /\ req' = [req EXCEPT ![p] = IF r.set = "state"
                                    THEN [Idle EXCEPT !.pc = "keycloak"] ELSE Idle]
  /\ Blame(IF Overwrites(p) THEN {"late"} ELSE {})
  /\ UNCHANGED <<keycloakVars, minted, sends>>

Lose(p) ==
  /\ req[p].pc = "answered"
  /\ req' = [req EXCEPT ![p] = Idle]
  /\ Blame((IF req[p].kind = "callback" THEN {"half login"} ELSE {})
           \cup (IF req[p].reply.set = "session" THEN Dropped ELSE {}))
  /\ UNCHANGED <<keycloakVars, browserVars, minted, sends>>

Next ==
  \/ \E s \in Sids : AccessTokenExpires(s) \/ SessionEnds(s)
  \/ Evict
  \/ \E p \in Reqs :
       \/ \E kind \in Kinds \ {"none", "callback"} : Send(p, kind)
       \/ \E s \in Sids : Authenticate(p, s)
       \/ RefuseRequest(p) \/ AdmitRequest(p) \/ RotateRequest(p)
       \/ NothingToRefresh(p) \/ Refresh(p) \/ RefreshRejected(p) \/ RefreshFails(p)
       \/ Logout(p) \/ Login(p) \/ Callback(p) \/ CallbackFails(p)
       \/ Arrive(p) \/ Lose(p)

Spec == Init /\ [][Next]_vars

(***************************************************************************)
(* Properties.                                                             *)
(***************************************************************************)

\* Nothing under way that may still change the cookies.
Quiet == \A p \in Reqs : req[p].pc = "idle"

\* app_env.py:667-675, auth_routes.py:244-300: while the session of the last login
\* lives, the browser has cookies that can be refreshed, unless it logged out, the
\* refresh endpoint had an error of Keycloak or lost a race for a spent token, new
\* tokens were lost on their way, or an older answer replaced newer cookies.
SessionKept ==
  Quiet /\ Live(mine) /\ causes \cap {"logout", "outage", "spent", "dropped", "late"} = {}
    => jar.bundle.sid = mine /\ Usable(jar.bundle)

\* auth_routes.py:154-168: once the user has logged out, none of the user's sessions
\* is alive at Keycloak, unless Keycloak could not be told, the cookie had been taken
\* away before, or a login was left half way.
LogoutEndsTheSession ==
  Quiet /\ mine = NoSid /\ "logout" \in causes
        /\ causes \cap {"outage", "spent", "late", "half login"} = {}
    => \A s \in Sids : ~ Live(s)

\* app_env.py:475-476, auth_routes.py:296: the CSRF value the page read when it was
\* loaded is the cookie's for as long as there is a session, whatever rotates its
\* tokens, unless the CSRF cookie went missing or an older answer replaced the cookies.
PageCanWrite ==
  jar.bundle # NoBundle /\ causes \cap {"late", "evicted"} = {}
    => tab = jar.csrf /\ tab # 0

\* app_env.py:671-675: with refresh tokens spent by their use, no answer puts back an
\* older bundle of the same login, whatever the order answers come in, as long as the
\* CSRF cookie is not missing.
NoRollback ==
  [][ revoking /\ "evicted" \notin causes /\ jar'.csrf = jar.csrf
        /\ jar'.bundle.sid = jar.bundle.sid
      => jar'.bundle.gen >= jar.bundle.gen ]_vars
=============================================================================
