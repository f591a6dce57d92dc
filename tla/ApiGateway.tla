----------------------------- MODULE ApiGateway -----------------------------
(***************************************************************************)
(* The api_gateway service between the app's remote selects and an         *)
(* external API: a cache of the answers to GETs with a time to live, one   *)
(* lock per key against a stampede of fetches when an entry expires, a     *)
(* machine-to-machine token shared by all calls and fetched without a      *)
(* lock, POSTs that go around the cache.  The app may give a request up    *)
(* before the gateway does, and shows an empty list; the gateway goes on.  *)
(* All GETs are of one key: keys share nothing but the token.              *)
(***************************************************************************)
EXTENDS Integers, Sequences, FiniteSets

CONSTANTS
  Reqs,          \* requests of the app, each made again and again
  KindsOf,       \* what each of them may be: "get", "post"
  NoReq,
  Ttl,           \* cache_ttl
  Timeout,       \* the longest that a call to the external API lasts
  Skew,          \* refresh_skew_seconds
  Lives,         \* the lifetimes of tokens
  MaxTime, MaxVersion  \* bounds

ASSUME TimesAssumption == {Ttl, Timeout, Skew} \subseteq Nat /\ Lives \subseteq Nat
ASSUME KindsAssumption == KindsOf \in [Reqs -> SUBSET {"get", "post"}]
ASSUME NoReqAssumption == NoReq \notin Reqs
ASSUME BoundsAssumption == {MaxTime, MaxVersion} \subseteq Nat

VARIABLES
  now,
  changed,    \* the external API: when its data changed
  entry,      \* TTLCache._data, of the key
  holder,     \* the request that holds the key's lock
  queue,      \* those waiting for it
  token,      \* M2MTokenProvider's: when it takes its token to expire, when the token does,
              \* and (history) whether the answer with it took longer than the skew
  pc,         \* the gateway's handling of each request
  kind,       \* "get" or "post"
  sent,       \* the call under way: when it was made, and the version then
  shown,      \* what the app last showed for each request
  floor,      \* history: the newest version shown before it asked
  newest      \* history: the newest version shown

source == <<now, changed>>
cache == <<entry, holder, queue>>
history == <<floor, newest>>
vars == <<source, cache, token, pc, kind, sent, shown, history>>

Version == Len(changed)
Result(is, v) == [is |-> is, v |-> v]
NoEntry == [at |-> -1, value |-> 0]
NoToken == [until |-> 0, dies |-> 0, slow |-> FALSE]
NoCall == [at |-> 0, seen |-> 0]

TypeOK ==
  /\ now \in Nat /\ changed \in Seq(Nat)
  /\ entry \in [at : Nat, value : 0 .. Version] \cup {NoEntry}
  /\ holder \in Reqs \cup {NoReq} /\ queue \in Seq(Reqs)
  /\ token \in [until : Nat, dies : Nat, slow : BOOLEAN]
  /\ pc \in [Reqs -> {"idle", "sent", "queued", "token", "fetch"}]
  /\ kind \in [Reqs -> {"get", "post"}]
  /\ sent \in [Reqs -> [at : Nat, seen : 0 .. Version]]
  /\ shown \in [Reqs -> [is : {"waiting", "value", "none"}, v : 0 .. Version]]
  /\ floor \in [Reqs -> 0 .. Version] /\ newest \in 0 .. Version

Init ==
  /\ now = 0 /\ changed = <<>>
  /\ entry = NoEntry /\ holder = NoReq /\ queue = <<>> /\ token = NoToken
  /\ pc = [r \in Reqs |-> "idle"] /\ kind = [r \in Reqs |-> "get"]
  /\ sent = [r \in Reqs |-> NoCall]
  /\ shown = [r \in Reqs |-> Result("none", 0)]
  /\ floor = [r \in Reqs |-> 0] /\ newest = 0

(***************************************************************************)
(* The app.                                                                *)
(***************************************************************************)

Waiting(r) == shown[r].is = "waiting"

\* A select is opened.
Ask(r, k) ==
  /\ pc[r] = "idle"
  /\ pc' = [pc EXCEPT ![r] = "sent"] /\ kind' = [kind EXCEPT ![r] = k]
  /\ shown' = [shown EXCEPT ![r] = Result("waiting", 0)]
  /\ floor' = [floor EXCEPT ![r] = newest]
  /\ UNCHANGED <<source, cache, token, sent, newest>>

\* The app shows its result for those of R it still waits for.
Show(R, is, v) ==
  LET done == {r \in R : Waiting(r)}
  IN /\ shown' = [r \in Reqs |-> IF r \in done THEN Result(is, v) ELSE shown[r]]
     /\ floor' = [r \in Reqs |-> IF r \in done THEN 0 ELSE floor[r]]
     /\ newest' = IF done # {} /\ v > newest THEN v ELSE newest

\* The app's own timeout, or a failure on the way: an empty list.  The gateway is not told.
GiveUp(r) ==
  /\ Waiting(r)
  /\ Show({r}, "none", 0)
  /\ UNCHANGED <<source, cache, token, pc, kind, sent>>

\* The gateway's response ends request r.
Respond(r, is, v) ==
  /\ pc' = [pc EXCEPT ![r] = "idle"] /\ sent' = [sent EXCEPT ![r] = NoCall]
  /\ kind' = [kind EXCEPT ![r] = "get"]
  /\ Show({r}, is, v)
  /\ UNCHANGED source

(***************************************************************************)
(* The gateway.                                                            *)
(***************************************************************************)

Fresh == entry # NoEntry /\ now - entry.at < Ttl

\* Broken variant of TokenValid: the token is used up to its end.
TokenValidToTheEnd == token # NoToken /\ now < token.until

TokenValid == token # NoToken /\ now < token.until - Skew

\* A call goes out: for a token first, if the one at hand is no longer valid.
Call(r) ==
  /\ pc' = [pc EXCEPT ![r] = IF TokenValid THEN "fetch" ELSE "token"]
  /\ sent' = [sent EXCEPT ![r] = [at |-> now, seen |-> Version]]
  /\ UNCHANGED <<source, token, kind, shown, history>>

\* Broken variant of ArriveGet: a hit renews the entry.
ArriveGetRenews(r) ==
  /\ pc[r] = "sent" /\ kind[r] = "get"
  /\ \/ /\ Fresh
        /\ entry' = [entry EXCEPT !.at = now]
        /\ Respond(r, "value", entry.value) /\ UNCHANGED <<holder, queue, token>>
     \/ /\ ~ Fresh /\ holder = NoReq /\ queue = <<>>
        /\ holder' = r /\ Call(r) /\ UNCHANGED <<entry, queue>>
     \/ /\ ~ Fresh /\ (holder # NoReq \/ queue # <<>>)
        /\ queue' = Append(queue, r) /\ pc' = [pc EXCEPT ![r] = "queued"]
        /\ UNCHANGED <<source, entry, holder, token, kind, sent, shown, history>>

\* get_or_set: a hit, or the lock if nobody is before us, or its queue.
ArriveGet(r) ==
  /\ pc[r] = "sent" /\ kind[r] = "get"
  /\ \/ /\ Fresh
        /\ Respond(r, "value", entry.value) /\ UNCHANGED <<cache, token>>
     \/ /\ ~ Fresh /\ holder = NoReq /\ queue = <<>>
        /\ holder' = r /\ Call(r) /\ UNCHANGED <<entry, queue>>
     \/ /\ ~ Fresh /\ (holder # NoReq \/ queue # <<>>)
        /\ queue' = Append(queue, r) /\ pc' = [pc EXCEPT ![r] = "queued"]
        /\ UNCHANGED <<source, entry, holder, token, kind, sent, shown, history>>

\* Broken variant of Wake: whoever has waited fetches.
WakeAndFetch(r) ==
  /\ queue # <<>> /\ r = Head(queue) /\ holder = NoReq
  /\ queue' = Tail(queue) /\ UNCHANGED entry
  /\ holder' = r /\ Call(r)

\* The lock is free for the first that waits, who looks again.
Wake(r) ==
  /\ queue # <<>> /\ r = Head(queue) /\ holder = NoReq
  /\ queue' = Tail(queue) /\ UNCHANGED entry
  /\ \/ Fresh /\ Respond(r, "value", entry.value) /\ UNCHANGED <<holder, token>>
     \/ ~ Fresh /\ holder' = r /\ Call(r)

ArrivePost(r) == pc[r] = "sent" /\ kind[r] = "post" /\ Call(r) /\ UNCHANGED cache

\* The token was issued at some moment of the call for it, and its life is counted from the
\* answer.  It goes out with the call for the data at once, without another look.
TokenReply(r) ==
  /\ pc[r] = "token"
  /\ \E issued \in sent[r].at .. now, life \in Lives :
       token' = [until |-> now + life, dies |-> issued + life, slow |-> now - sent[r].at > Skew]
  /\ pc' = [pc EXCEPT ![r] = "fetch"]
  /\ sent' = [sent EXCEPT ![r] = [at |-> now, seen |-> Version]]
  /\ UNCHANGED <<source, cache, kind, shown, history>>

\* The answer holds the data of some moment of the call.
Reply(r) ==
  /\ pc[r] = "fetch"
  /\ \E v \in sent[r].seen .. Version :
       IF kind[r] = "get"
       THEN /\ entry' = [at |-> now, value |-> v] /\ holder' = NoReq /\ UNCHANGED queue
            /\ Respond(r, "value", v)
       ELSE Respond(r, "none", 0) /\ UNCHANGED cache
  /\ UNCHANGED token

\* Broken variant of CallFails: the lock is kept.
CallFailsLocked(r) ==
  /\ pc[r] \in {"token", "fetch"}
  /\ Respond(r, "none", 0) /\ UNCHANGED <<cache, token>>

\* A refusal, an answer that is not JSON, no answer in time: 502, and nothing is stored.
CallFails(r) ==
  /\ pc[r] \in {"token", "fetch"}
  /\ holder' = IF holder = r THEN NoReq ELSE holder
  /\ Respond(r, "none", 0)
  /\ UNCHANGED <<entry, queue, token>>

(***************************************************************************)
(* Time, the source, the container.                                        *)
(***************************************************************************)

\* A call to the external API lasts Timeout at most; one for a token any time, the client's
\* timeout bounds the wait for each part of an answer and not their sum.
Tick ==
  /\ now < MaxTime
  /\ \A r \in Reqs : pc[r] = "fetch" => now < sent[r].at + Timeout
  /\ now' = now + 1
  /\ UNCHANGED <<changed, cache, token, pc, kind, sent, shown, history>>

Change ==
  /\ Version < MaxVersion
  /\ changed' = Append(changed, now)
  /\ UNCHANGED <<now, cache, token, pc, kind, sent, shown, history>>

\* The container is restarted: the cache, the locks and the token are gone, and every
\* request under way ends in an error.
Restart ==
  /\ entry' = NoEntry /\ holder' = NoReq /\ queue' = <<>> /\ token' = NoToken
  /\ pc' = [r \in Reqs |-> "idle"] /\ sent' = [r \in Reqs |-> NoCall]
  /\ kind' = [r \in Reqs |-> "get"]
  /\ Show(Reqs, "none", 0)
  /\ UNCHANGED source

GatewayStep(r) ==
  ArriveGet(r) \/ ArrivePost(r) \/ Wake(r) \/ TokenReply(r) \/ Reply(r) \/ CallFails(r)

Next ==
  \/ \E r \in Reqs : \/ GatewayStep(r) \/ GiveUp(r)
                     \/ \E k \in KindsOf[r] : Ask(r, k)
  \/ Tick \/ Change \/ Restart

\* The event loop runs what is ready, and a call ends in an answer or an error.
Fairness == \A r \in Reqs : WF_vars(GatewayStep(r))

Spec == Init /\ [][Next]_vars /\ Fairness

(***************************************************************************)
(* Properties.                                                             *)
(***************************************************************************)

AtSource(r) == pc[r] \in {"token", "fetch"} /\ kind[r] = "get"

\* cache.py, "evita lo stampede": however many requests find the entry expired, one is at
\* the external API, and none while the entry is fresh.
OneFetch ==
  /\ \A q, r \in Reqs : AtSource(q) /\ AtSource(r) => q = r
  /\ \A r \in Reqs : AtSource(r) => ~ Fresh

\* The token a call goes out with has not expired where it was issued, although its life is
\* counted from the moment it was received (auth.py, refresh_skew_seconds), unless the
\* answer with it took longer than the skew, or, for the call that asked for it, its life.
TokenAlive ==
  [][\A r \in Reqs : pc[r] # "fetch" /\ pc'[r] = "fetch" =>
       \/ now < token'.dies
       \/ token'.slow
       \/ pc[r] = "token" /\ now - sent[r].at >= token'.until - now]_vars

\* Every request is answered, also those queued behind calls that fail.
RequestEnds == \A r \in Reqs : pc[r] # "idle" ~> pc[r] = "idle"

\* What the gateway shows to the app is what CachedSource promises: nothing that changed
\* more than a time to live and a call ago, nothing older than what was shown before.
Promise == INSTANCE CachedSource WITH Bound <- Ttl + Timeout
KeepsPromise == Promise!Spec
=============================================================================
