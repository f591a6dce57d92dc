----------------------- MODULE CamundaProcess_proofs -----------------------
(***************************************************************************)
(* Proofs about CamundaProcess, for any requests, records, instances and   *)
(* batches, and any flow of user tasks and jobs.  A task is completed only *)
(* by the request that finds its instance there and moves it on, so the    *)
(* key a request holds is behind the instance for ever after and no other  *)
(* request can take it (Placed, Apart).  What the search shows is behind   *)
(* the engine too, but never behind the task that it has shown: the first  *)
(* other task it shows comes after.                                        *)
(***************************************************************************)
EXTENDS CamundaProcess, TLAPS

Before == {"form", "load", "save", "start", "keep", "find", "complete"}
Wait == {"state", "vars", "tasks"}

\* What a request knows at each point, whatever the engine does.
Local(r, enabled) ==
  /\ r.pc \in Before => r.key = 0
  /\ r.pc \in {"keep", "complete", "history"} \cup Wait => r.proc # NoProcess
  /\ r.pc \in {"form", "load", "start"} => r.proc = NoProcess
  /\ r.pc = "save" /\ r.kind = "start" => r.proc = NoProcess
  /\ r.pc \in (Before \ {"complete"}) \cup Wait => r.task = 0
  /\ r.pc = "complete" => r.task \in DOMAIN Flow
  /\ r.pc \in {"history", "answer"} /\ r.key # 0 /\ r.task # 0 => r.task > r.key
  /\ r.kind = "batch" => r.pc \notin {"form", "load", "save", "start", "keep"}
  /\ r.kind = "batch" /\ r.pc = "find" => r.proc # NoProcess
  /\ r.kind = "batch" /\ r.pc \in Wait \cup {"history"} => r.key # 0
  /\ r.kind = "batch" /\ r.pc = "answer" /\ enabled => r.key # 0
  /\ \A j \in DOMAIN r.results : r.results[j].ok /\ enabled => r.results[j].key # 0

\* The tasks that a request has completed: the one it holds and those of its batch.
Claims(r, p, k) ==
  /\ k # 0
  /\ \/ r.proc = p /\ r.key = k
     \/ \E j \in DOMAIN r.results :
          r.results[j].ok /\ r.results[j].proc = p /\ r.results[j].key = k

\* Where the engine and its view are with the tasks of a request.
Placed(r, in, vw) ==
  /\ r.pc = "complete" => vw[r.proc].at >= r.task
  /\ r.key # 0 => r.proc # NoProcess /\ vw[r.proc].at >= r.key
  /\ \A p \in Processes, k \in 0 .. Ended : Claims(r, p, k) => p # NoProcess /\ in[p].at > k

\* A task that the instance has not left behind.
Open(p, k) == p # NoProcess /\ inst[p].at <= k

Apart ==
  \A u, v \in Requests : u # v =>
    \A p \in Processes, k \in 0 .. Ended : ~(Claims(req[u], p, k) /\ Claims(req[v], p, k))

Lags == \A i \in Instances : view[i].at <= inst[i].at

RequestsOK == \A u \in Requests : Local(req[u], settings.enabled) /\ Placed(req[u], inst, view)

IInv == TypeOK /\ Lags /\ RequestsOK /\ Apart

Places == Before \cup Wait \cup {"idle", "history", "answer", "next", "answered"}

\* The engine and its view only go forward.
Forward ==
  /\ inst' \in [Instances -> Snapshot] /\ view' \in [Instances -> Snapshot]
  /\ \A i \in Instances : inst'[i].at >= inst[i].at /\ view'[i].at >= view[i].at
  /\ UNCHANGED settings

Kept == req' \in [Requests -> Request] /\ RequestsOK' /\ Apart'

(***************************************************************************)
(* The tasks that a request claims.                                        *)
(***************************************************************************)

LEMMA SizeOfFlow == Len(Flow) \in Nat /\ DOMAIN Flow = 1 .. Len(Flow) /\ Ended = Len(Flow) + 1
BY FlowAssumption DEF Ended

LEMMA Numbers ==
  /\ MaxInstances \in Nat /\ Instances = {i \in Processes : i # NoProcess}
  /\ \A i \in Instances : i \in Processes /\ i # NoProcess
BY BoundsAssumption DEF Instances, Processes, NoProcess

\* A request that forgets its key, or keeps it, claims nothing new.
LEMMA SameClaims ==
  ASSUME NEW r, NEW s, s.results = r.results, s.key = 0 \/ (s.key = r.key /\ s.proc = r.proc),
         NEW p, NEW k, Claims(s, p, k)
  PROVE  Claims(r, p, k)
BY DEF Claims

LEMMA NoClaims ==
  ASSUME NEW o, NEW p, NEW k PROVE ~Claims([NoRequest EXCEPT !.out = o], p, k) /\ ~Claims(NoRequest, p, k)
BY DEF Claims, NoRequest

\* A result claims the task of the request it comes from.
LEMMA ResultClaims ==
  ASSUME NEW r \in Request, NEW ok \in BOOLEAN, NEW p, NEW k, Claims(AddResult(r, ok), p, k)
  PROVE  Claims(r, p, k)
<1> DEFINE a == [proc |-> r.proc, key |-> r.key, ok |-> ok]
           s == AddResult(r, ok)
<1>1. r.results \in Seq(Result)
  BY DEF Request
<1>2. s.results = Append(r.results, a) /\ s.proc = r.proc /\ s.key = r.key
  BY DEF AddResult, Request
<1>3. CASE s.proc = p /\ s.key = k
  BY <1>2, <1>3 DEF Claims
<1>4. CASE \E j \in DOMAIN s.results :
             s.results[j].ok /\ s.results[j].proc = p /\ s.results[j].key = k
  <2>1. PICK j \in DOMAIN s.results :
               s.results[j].ok /\ s.results[j].proc = p /\ s.results[j].key = k
    BY <1>4
  <2>2. CASE j \in DOMAIN r.results
    <3>1. s.results[j] = r.results[j]
      BY <1>1, <1>2, <2>2
    <3> QED BY <2>1, <2>2, <3>1 DEF Claims
  <2>3. CASE j \notin DOMAIN r.results
    <3>1. s.results[j] = a
      BY <1>1, <1>2, <2>1, <2>3
    <3> QED BY <2>1, <3>1 DEF Claims
  <2> QED BY <2>2, <2>3
<1> QED BY <1>3, <1>4 DEF Claims

LEMMA ResultTyped ==
  ASSUME NEW r \in Request, NEW ok \in BOOLEAN PROVE AddResult(r, ok) \in Request
<1>1. [proc |-> r.proc, key |-> r.key, ok |-> ok] \in Result /\ r.results \in Seq(Result)
  BY DEF Request, Result
<1>2. Append(r.results, [proc |-> r.proc, key |-> r.key, ok |-> ok]) \in Seq(Result)
  BY <1>1
<1> QED BY <1>2 DEF AddResult, Request

LEMMA PcTyped ==
  ASSUME NEW r \in Request, NEW pc \in Places PROVE [r EXCEPT !.pc = pc] \in Request
BY DEF Request, Places, Before, Wait

LEMMA PcOnly ==
  ASSUME NEW r \in Request, NEW pc \in Places, NEW s, s = [r EXCEPT !.pc = pc]
  PROVE  /\ s \in Request /\ s.pc = pc /\ s.results = r.results /\ s.key = r.key
         /\ s.task = r.task /\ s.kind = r.kind /\ s.proc = r.proc
BY DEF Request, Places, Before, Wait

LEMMA NoRequestTyped ==
  /\ NoRequest \in Request
  /\ \A o \in {"none", "error", "taskError", "redirect", "form", "list"} :
        [NoRequest EXCEPT !.out = o] \in Request
<1>1. NoVars \in Vars /\ NewRecord \in Record
  BY BoundsAssumption DEF NoVars, Vars, Says, NoJob, NewRecord, Record, Processes, NoProcess
<1>2. 0 \in 0 .. Ended /\ 0 \in 0 .. MaxPolls /\ NoProcess \in Processes
  BY SizeOfFlow, BoundsAssumption DEF Processes, NoProcess
<1>3. <<>> \in Seq(Names) /\ <<>> \in Seq(Result)
  OBVIOUS
<1> QED BY <1>1, <1>2, <1>3 DEF NoRequest, Request

(***************************************************************************)
(* How a request moves.                                                    *)
(***************************************************************************)

\* The engine goes forward: what is behind it stays behind.
LEMMA PlacedStays ==
  ASSUME IInv, Forward, NEW r \in Request, Local(r, settings.enabled), Placed(r, inst, view)
  PROVE  Placed(r, inst', view')
<1>1. /\ inst \in [Instances -> Snapshot] /\ view \in [Instances -> Snapshot]
      /\ inst' \in [Instances -> Snapshot] /\ view' \in [Instances -> Snapshot]
  BY DEF IInv, TypeOK, Forward
<1>2. \A p \in Processes : p # NoProcess =>
        /\ inst[p].at \in Nat /\ inst'[p].at \in Nat /\ inst'[p].at >= inst[p].at
        /\ view[p].at \in Nat /\ view'[p].at \in Nat /\ view'[p].at >= view[p].at
  BY <1>1, Numbers, SizeOfFlow DEF Forward, Snapshot
<1>3. r.proc \in Processes /\ r.key \in Nat /\ r.task \in Nat
  BY SizeOfFlow DEF Request
<1>4. r.pc = "complete" => view'[r.proc].at >= r.task
  BY <1>2, <1>3 DEF Local, Placed
<1>5. r.key # 0 => r.proc # NoProcess /\ view'[r.proc].at >= r.key
  BY <1>2, <1>3 DEF Placed
<1>6. ASSUME NEW p \in Processes, NEW k \in 0 .. Ended, Claims(r, p, k)
      PROVE  p # NoProcess /\ inst'[p].at > k
  <2>1. p # NoProcess /\ inst[p].at > k /\ k \in Nat
    BY <1>6, SizeOfFlow DEF Placed
  <2> QED BY <1>2, <2>1
<1> QED BY <1>4, <1>5, <1>6 DEF Placed

\* A request that claims at most the task its instance is at.
LEMMA MoveKeeps ==
  ASSUME IInv, Forward, NEW u \in Requests, NEW s \in Request, req' = [req EXCEPT ![u] = s],
         Local(s, settings.enabled), Placed(s, inst', view'),
         \A p \in Processes, k \in 0 .. Ended :
           Claims(s, p, k) => Claims(req[u], p, k) \/ Open(p, k)
  PROVE  Kept
<1>1. req \in [Requests -> Request] /\ inst \in [Instances -> Snapshot]
  BY DEF IInv, TypeOK
<1>2. req' \in [Requests -> Request] /\ \A v \in Requests : req'[v] = IF v = u THEN s ELSE req[v]
  BY <1>1
<1>3. ASSUME NEW v \in Requests PROVE Local(req'[v], settings'.enabled) /\ Placed(req'[v], inst', view')
  <2>1. Local(req'[v], settings.enabled) /\ Placed(req'[v], inst', view')
    BY <1>1, <1>2, PlacedStays DEF IInv, RequestsOK
  <2> QED BY <2>1 DEF Forward
<1>4. RequestsOK'
  BY <1>3 DEF RequestsOK
<1>5. ASSUME NEW v \in Requests, v # u, NEW p \in Processes, NEW k \in 0 .. Ended,
             Claims(s, p, k), Claims(req[v], p, k)
      PROVE  FALSE
  <2>1. p # NoProcess /\ inst[p].at > k
    BY <1>5 DEF IInv, RequestsOK, Placed
  <2>2. inst[p].at \in Nat /\ k \in Nat
    BY <1>1, <2>1, Numbers, SizeOfFlow DEF Snapshot
  <2>3. Claims(req[u], p, k)
    BY <1>5, <2>1, <2>2 DEF Open
  <2> QED BY <1>5, <2>3 DEF IInv, Apart
<1>6. ASSUME NEW v \in Requests, NEW w \in Requests, v # w, NEW p \in Processes, NEW k \in 0 .. Ended
      PROVE  ~(Claims(req'[v], p, k) /\ Claims(req'[w], p, k))
  <2>1. CASE v = u
    BY <1>2, <1>5, <1>6, <2>1
  <2>2. CASE w = u
    BY <1>2, <1>5, <1>6, <2>2
  <2>3. CASE v # u /\ w # u
    BY <1>2, <1>6, <2>3 DEF IInv, Apart
  <2> QED BY <2>1, <2>2, <2>3
<1>7. Apart'
  <2>1. \A v, w \in Requests : v # w =>
          \A p \in Processes, k \in 0 .. Ended : ~(Claims(req'[v], p, k) /\ Claims(req'[w], p, k))
    BY <1>6
  <2> QED BY <2>1 DEF Apart, Claims
<1> QED BY <1>2, <1>4, <1>7 DEF Kept

\* A request that claims nothing new and does not come to complete a task.
LEMMA GoesOn ==
  ASSUME IInv, Forward, NEW u \in Requests, NEW s \in Request, req' = [req EXCEPT ![u] = s],
         Local(s, settings.enabled), s.pc # "complete", s.results = req[u].results,
         s.key = 0 \/ (s.key = req[u].key /\ s.proc = req[u].proc)
  PROVE  Kept
<1>1. req[u] \in Request /\ Local(req[u], settings.enabled) /\ Placed(req[u], inst, view)
  BY DEF IInv, TypeOK, RequestsOK
<1>2. Placed(req[u], inst', view')
  BY <1>1, PlacedStays
<1>3. \A p, k : Claims(s, p, k) => Claims(req[u], p, k)
  BY SameClaims
<1>4. Placed(s, inst', view')
  BY <1>2, <1>3 DEF Placed
<1> QED BY <1>3, <1>4, MoveKeeps

\* A request that is answered, or starts afresh.
LEMMA StartsAfresh ==
  ASSUME IInv, Forward, NEW u \in Requests, NEW s \in Request, req' = [req EXCEPT ![u] = s],
         Local(s, settings.enabled), s.pc # "complete", s.results = <<>>, s.key = 0
  PROVE  Kept
<1>1. \A p, k : ~Claims(s, p, k)
  BY DEF Claims
<1>2. Placed(s, inst', view')
  BY <1>1 DEF Placed
<1> QED BY <1>1, <1>2, MoveKeeps

\* A batch that adds a result.
LEMMA ResultKeeps ==
  ASSUME IInv, Forward, NEW u \in Requests, NEW r \in Request, NEW ok \in BOOLEAN,
         r.results = req[u].results, r.key = 0 \/ (r.key = req[u].key /\ r.proc = req[u].proc),
         ok /\ settings.enabled => r.key # 0,
         Goto(u, "next", AddResult(r, ok))
  PROVE  Kept
<1> DEFINE a == [proc |-> r.proc, key |-> r.key, ok |-> ok]
           s == [AddResult(r, ok) EXCEPT !.pc = "next"]
<1>1. req[u] \in Request /\ Local(req[u], settings.enabled) /\ Placed(req[u], inst, view)
  BY DEF IInv, TypeOK, RequestsOK
<1>2. Placed(req[u], inst', view')
  BY <1>1, PlacedStays
<1>3. s \in Request /\ req' = [req EXCEPT ![u] = s]
  BY ResultTyped, PcTyped DEF Goto, Places
<1>4. /\ s.results = Append(r.results, a) /\ s.pc = "next" /\ s.key = r.key /\ s.proc = r.proc
      /\ s.results = AddResult(r, ok).results /\ AddResult(r, ok).key = r.key /\ AddResult(r, ok).proc = r.proc
  BY ResultTyped DEF AddResult, Request
<1>5. ASSUME NEW p, NEW k, Claims(s, p, k) PROVE Claims(req[u], p, k)
  <2>1. Claims(AddResult(r, ok), p, k)
    BY <1>4, <1>5, SameClaims
  <2> QED BY <2>1, ResultClaims, SameClaims
<1>6. ASSUME NEW j \in DOMAIN s.results, s.results[j].ok, settings.enabled PROVE s.results[j].key # 0
  <2>1. r.results \in Seq(Result)
    BY DEF Request
  <2>2. CASE j \in DOMAIN r.results
    <3>1. s.results[j] = r.results[j]
      BY <1>4, <2>1, <2>2
    <3> QED BY <1>1, <1>6, <2>2, <3>1 DEF Local
  <2>3. CASE j \notin DOMAIN r.results
    <3>1. s.results[j] = a
      BY <1>4, <1>6, <2>1, <2>3
    <3> QED BY <1>6, <3>1
  <2> QED BY <2>2, <2>3
<1>7. Local(s, settings.enabled)
  BY <1>4, <1>6 DEF Local, Before, Wait
<1>8. Placed(s, inst', view')
  BY <1>2, <1>4, <1>5 DEF Placed
<1> QED BY <1>3, <1>5, <1>7, <1>8, MoveKeeps

LEMMA NoRequestLocal ==
  ASSUME NEW o, NEW pc \in {"idle", "answered"}
  PROVE  Local([[NoRequest EXCEPT !.out = o] EXCEPT !.pc = pc], settings.enabled)
BY DEF Local, NoRequest, Before, Wait

\* An exception; a batch goes on with the next record.
LEMMA FailKeeps ==
  ASSUME IInv, Forward, NEW u \in Requests, NEW r \in Request, r.results = req[u].results,
         r.kind = "batch" => r.key = 0, Fail(u, r)
  PROVE  Kept
<1>1. CASE r.kind = "batch"
  BY <1>1, ResultKeeps DEF Fail
<1>2. CASE r.kind # "batch"
  <2> DEFINE s == [[NoRequest EXCEPT !.out = "error"] EXCEPT !.pc = "answered"]
  <2>1. s \in Request
    BY NoRequestTyped, PcTyped DEF Places
  <2>2. s.pc = "answered" /\ s.results = <<>> /\ s.key = 0
    BY DEF NoRequest
  <2>3. req' = [req EXCEPT ![u] = s]
    BY <1>2 DEF Fail, Goto
  <2> QED BY <2>1, <2>2, <2>3, NoRequestLocal, StartsAfresh
<1> QED BY <1>1, <1>2

\* A response.
LEMMA RespondKeeps ==
  ASSUME IInv, Forward, NEW u \in Requests, req[u].pc = "answer" \/ req[u].kind # "batch",
         NEW out \in {"error", "taskError", "redirect", "form", "list"}, Respond(u, req[u], out)
  PROVE  Kept
<1>1. req[u] \in Request /\ Local(req[u], settings.enabled)
  BY DEF IInv, TypeOK, RequestsOK
<1>2. CASE req[u].kind = "batch"
  BY <1>1, <1>2, ResultKeeps DEF Respond, Local
<1>3. CASE req[u].kind # "batch"
  <2> DEFINE s == [[NoRequest EXCEPT !.out = out] EXCEPT !.pc = "answered"]
  <2>1. s \in Request
    BY NoRequestTyped, PcTyped DEF Places
  <2>2. s.pc = "answered" /\ s.results = <<>> /\ s.key = 0
    BY DEF NoRequest
  <2>3. req' = [req EXCEPT ![u] = s]
    BY <1>3 DEF Respond, Goto
  <2> QED BY <2>1, <2>2, <2>3, NoRequestLocal, StartsAfresh
<1> QED BY <1>2, <1>3

(***************************************************************************)
(* The steps.                                                              *)
(***************************************************************************)

LEMMA StillForward ==
  ASSUME IInv, UNCHANGED <<settings, inst, view>> PROVE Forward
<1>1. inst \in [Instances -> Snapshot] /\ view \in [Instances -> Snapshot]
  BY DEF IInv, TypeOK
<1>2. \A i \in Instances : inst[i].at \in Nat /\ view[i].at \in Nat
  BY <1>1, SizeOfFlow DEF Snapshot
<1> QED BY <1>1, <1>2 DEF Forward

LEMMA RequestStep ==
  ASSUME IInv, Kept, rec' \in [Names -> Record], UNCHANGED <<settings, subject, inst, view>>
  PROVE  IInv'
BY DEF IInv, TypeOK, Lags, Kept

LEMMA InitIInv == Init => IInv
<1> SUFFICES ASSUME Init PROVE IInv
  OBVIOUS
<1>1. NewRecord \in Record /\ NotStarted \in Snapshot /\ NotStarted.at = 0
  BY SizeOfFlow, BoundsAssumption
     DEF NewRecord, Record, Processes, NoProcess, NotStarted, Snapshot, NoVars, Vars, Says, NoJob
<1>2. TypeOK
  BY <1>1, NoRequestTyped DEF Init, TypeOK
<1>3. Lags
  BY <1>1 DEF Init, Lags
<1>4. ASSUME NEW u \in Requests PROVE Local(req[u], settings.enabled) /\ Placed(req[u], inst, view)
  <2>1. req[u] = NoRequest
    BY DEF Init
  <2>2. Local(NoRequest, settings.enabled) /\ NoRequest.pc = "idle" /\ NoRequest.key = 0
    BY DEF Local, NoRequest, Before, Wait
  <2> QED BY <2>1, <2>2, NoClaims DEF Placed
<1>5. Apart
  BY NoClaims DEF Init, Apart
<1> QED BY <1>2, <1>3, <1>4, <1>5 DEF IInv, RequestsOK

LEMMA ClientStep ==
  ASSUME IInv, NEW u \in Requests,
         \/ \E n \in Names : LoadForm(u, n)
         \/ PostStart(u) \/ PostComplete(u) \/ PostBatch(u) \/ Receive(u)
  PROVE  IInv'
<1>1. UNCHANGED <<settings, rec, subject, inst, view>>
  BY DEF LoadForm, PostStart, PostComplete, PostBatch, Receive, world
<1>2. /\ req[u] \in Request /\ Local(req[u], settings.enabled) /\ rec \in [Names -> Record] /\ Forward
  BY <1>1, StillForward DEF IInv, TypeOK, RequestsOK
<1>3. ASSUME NEW n \in Names, LoadForm(u, n) PROVE Kept
  <2> DEFINE s == [[NoRequest EXCEPT !.name = n, !.form = rec[n]] EXCEPT !.pc = "form"]
  <2>1. rec[n] \in Record
    BY <1>2
  <2>2. s \in Request
    <3>1. ASSUME NEW r \in Request PROVE [[r EXCEPT !.name = n, !.form = rec[n]] EXCEPT !.pc = "form"] \in Request
      BY <2>1, <3>1 DEF Request
    <3> QED BY <3>1, NoRequestTyped
  <2>3. Local(s, settings.enabled) /\ s.pc = "form" /\ s.results = <<>> /\ s.key = 0
    BY DEF Local, NoRequest, Before, Wait
  <2> QED BY <1>2, <1>3, <2>2, <2>3, StartsAfresh DEF LoadForm, Goto
<1>4. ASSUME PostStart(u) PROVE Kept
  <2>1. PICK b \in BOOLEAN : Goto(u, "load", [req[u] EXCEPT !.update = b])
    BY <1>4 DEF PostStart, Following
  <2> DEFINE s == [[req[u] EXCEPT !.update = b] EXCEPT !.pc = "load"]
  <2>2. s \in Request /\ s.pc = "load" /\ s.results = req[u].results /\ s.key = req[u].key /\ s.proc = req[u].proc
    BY <1>2 DEF Request
  <2>3. Local(s, settings.enabled)
    BY <1>2, <1>4, <2>2 DEF PostStart, Local, Before, Wait, Request
  <2> QED BY <1>2, <2>1, <2>2, <2>3, GoesOn DEF Goto
<1>5. ASSUME PostComplete(u) PROVE Kept
  <2> DEFINE s == [[req[u] EXCEPT !.kind = "complete", !.proc = req[u].form.proc] EXCEPT !.pc = "save"]
  <2>1. req[u].form.proc \in Processes
    BY <1>2 DEF Request, Record
  <2>2. s \in Request /\ s.pc = "save" /\ s.results = req[u].results /\ s.key = req[u].key
    BY <1>2, <2>1 DEF Request
  <2>3. Local(s, settings.enabled) /\ s.key = 0
    BY <1>2, <1>5, <2>2 DEF PostComplete, Local, Before, Wait, Request
  <2> QED BY <1>2, <1>5, <2>2, <2>3, GoesOn DEF PostComplete, Following, Goto
<1>6. ASSUME PostBatch(u) PROVE Kept
  <2> DEFINE s == [[NoRequest EXCEPT !.kind = "batch", !.todo = Batch] EXCEPT !.pc = "next"]
  <2>1. s \in Request
    <3>1. ASSUME NEW r \in Request PROVE [[r EXCEPT !.kind = "batch", !.todo = Batch] EXCEPT !.pc = "next"] \in Request
      BY <3>1, NamesAssumption DEF Request
    <3> QED BY <3>1, NoRequestTyped
  <2>2. Local(s, settings.enabled) /\ s.pc = "next" /\ s.results = <<>> /\ s.key = 0
    BY DEF Local, NoRequest, Before, Wait
  <2> QED BY <1>2, <1>6, <2>1, <2>2, StartsAfresh DEF PostBatch, Goto
<1>7. ASSUME Receive(u) PROVE Kept
  <2> DEFINE s == [NoRequest EXCEPT !.pc = "idle"]
  <2>1. s \in Request
    BY NoRequestTyped, PcTyped DEF Places
  <2>2. Local(s, settings.enabled) /\ s.pc = "idle" /\ s.results = <<>> /\ s.key = 0
    BY DEF Local, NoRequest, Before, Wait
  <2> QED BY <1>2, <1>7, <2>1, <2>2, StartsAfresh DEF Receive, Goto
<1> QED BY <1>1, <1>2, <1>3, <1>4, <1>5, <1>6, <1>7, RequestStep

LEMMA RecordsTyped ==
  ASSUME IInv, NEW n, NEW form \in Record, NEW stored \in BOOLEAN, rec' = Upserted(n, form, stored)
  PROVE  rec' \in [Names -> Record]
BY DEF IInv, TypeOK, Upserted

\* The start up to the engine's call, and its second save.
LEMMA StartStep ==
  ASSUME IInv, NEW u \in Requests,
         StartGate(u) \/ SaveForm(u) \/ StartDisabled(u) \/ StartFails(u) \/ KeepProcess(u)
  PROVE  IInv'
<1> DEFINE r == req[u]
<1>1. UNCHANGED <<settings, subject, inst, view>>
  BY DEF StartGate, SaveForm, StartDisabled, StartFails, KeepProcess, world, engine
<1>2. /\ r \in Request /\ Local(r, settings.enabled) /\ rec \in [Names -> Record] /\ Forward
  BY <1>1, StillForward DEF IInv, TypeOK, RequestsOK
<1>3. r.pc \in {"load", "save", "start", "keep"} => r.key = 0 /\ r.task = 0 /\ r.kind # "batch"
  BY <1>2 DEF Local, Before
<1>4. ASSUME r.pc \in {"load", "save", "start", "keep"}, Fail(u, r) PROVE Kept
  BY <1>2, <1>3, <1>4, FailKeeps
<1>5. ASSUME StartGate(u) PROVE IInv'
  <2>1. ASSUME NEW pc \in {"save", "start"}, Goto(u, pc, r) PROVE Kept
    <3> DEFINE s == [r EXCEPT !.pc = pc]
    <3>1. s \in Request
      BY <1>2, PcTyped DEF Places, Before
    <3>2. s.pc = pc /\ s.results = r.results /\ s.key = 0 /\ s.task = 0 /\ s.kind = r.kind /\ s.proc = r.proc
      BY <1>2, <1>3, <1>5 DEF StartGate, Request
    <3>3. Local(s, settings.enabled)
      BY <1>2, <1>3, <1>5, <3>2 DEF StartGate, Local, Before, Wait
    <3> QED BY <1>2, <2>1, <3>1, <3>2, <3>3, GoesOn DEF Goto
  <2>2. rec' = rec
    BY <1>5 DEF StartGate, world
  <2> QED BY <1>1, <1>2, <1>4, <1>5, <2>1, <2>2, RequestStep DEF StartGate
<1>6. ASSUME SaveForm(u) PROVE IInv'
  <2>1. PICK stored \in BOOLEAN :
          /\ rec' = Upserted(r.name, r.form, stored)
          /\ \/ Goto(u, Following(r.kind, "save"),
                   IF r.kind = "complete" THEN [r EXCEPT !.form = NewRecord]
                   ELSE IF stored THEN r ELSE [r EXCEPT !.name = NoName])
             \/ Fail(u, r)
    BY <1>6 DEF SaveForm
  <2>2. rec' \in [Names -> Record]
    BY <1>2, <2>1, RecordsTyped DEF Request
  <2>3. NewRecord \in Record
    BY BoundsAssumption DEF NewRecord, Record, Processes, NoProcess, NoJob
  <2>4. ASSUME Goto(u, Following(r.kind, "save"),
                   IF r.kind = "complete" THEN [r EXCEPT !.form = NewRecord]
                   ELSE IF stored THEN r ELSE [r EXCEPT !.name = NoName])
        PROVE  Kept
    <3> DEFINE q == IF r.kind = "complete" THEN [r EXCEPT !.form = NewRecord]
                    ELSE IF stored THEN r ELSE [r EXCEPT !.name = NoName]
               pc == IF r.kind = "start" THEN "start" ELSE "find"
               s == [q EXCEPT !.pc = pc]
    <3>1. q \in Request
      <4>1. [r EXCEPT !.form = NewRecord] \in Request
        BY <1>2, <2>3 DEF Request
      <4>2. [r EXCEPT !.name = NoName] \in Request
        BY <1>2 DEF Request
      <4> QED BY <1>2, <4>1, <4>2
    <3>2. /\ s \in Request /\ s.pc = pc /\ s.results = q.results /\ s.key = q.key /\ s.task = q.task
          /\ s.kind = q.kind /\ s.proc = q.proc
      <4>1. pc \in Places
        BY DEF Places, Before
      <4> HIDE DEF q
      <4> QED BY <3>1, <4>1, PcOnly
    <3>3. /\ q.results = r.results /\ q.key = r.key /\ q.task = r.task /\ q.kind = r.kind /\ q.proc = r.proc
      BY <1>2 DEF Request
    <3>4. Local(s, settings.enabled)
      BY <1>2, <1>3, <1>6, <3>2, <3>3 DEF SaveForm, Local, Before, Wait
    <3>5. req' = [req EXCEPT ![u] = s]
      BY <2>4 DEF Goto, Following
    <3>6. s.key = 0 /\ s.pc # "complete"
      BY <1>3, <1>6, <3>2, <3>3 DEF SaveForm
    <3> QED BY <1>2, <3>2, <3>3, <3>4, <3>5, <3>6, GoesOn
  <2>5. Kept
    BY <1>4, <1>6, <2>1, <2>4 DEF SaveForm
  <2> QED BY <1>1, <2>2, <2>5, RequestStep
<1>7. ASSUME StartDisabled(u) PROVE IInv'
  <2> DEFINE s == [[r EXCEPT !.proc = NoProcess] EXCEPT !.pc = "answer"]
  <2>1. r.pc = "start" /\ r.proc = NoProcess /\ rec' = rec /\ ~settings.enabled
    BY <1>2, <1>7 DEF StartDisabled, Local, world
  <2>2. req' = [req EXCEPT ![u] = s]
    BY <1>7, <2>1 DEF StartDisabled, AfterStart, Goto
  <2>3. NoProcess \in Processes
    BY BoundsAssumption DEF NoProcess, Processes
  <2>4. /\ s \in Request /\ s.pc = "answer" /\ s.results = r.results /\ s.key = r.key /\ s.task = r.task
        /\ s.kind = r.kind
    BY <1>2, <2>3 DEF Request
  <2>5. Local(s, settings.enabled) /\ s.key = 0
    BY <1>2, <1>3, <2>1, <2>4 DEF Local, Before, Wait
  <2>6. Kept
    BY <1>2, <2>2, <2>4, <2>5, GoesOn
  <2> QED BY <1>1, <1>2, <2>1, <2>6, RequestStep
<1>8. ASSUME StartFails(u) PROVE IInv'
  BY <1>1, <1>2, <1>4, <1>8, RequestStep DEF StartFails, world
<1>9. ASSUME KeepProcess(u) PROVE IInv'
  <2>1. PICK stored \in BOOLEAN : rec' = Upserted(r.name, [r.form EXCEPT !.proc = r.proc], stored)
    BY <1>9 DEF KeepProcess
  <2>2. [r.form EXCEPT !.proc = r.proc] \in Record
    BY <1>2 DEF Request, Record
  <2>3. rec' \in [Names -> Record]
    BY <2>1, <2>2, RecordsTyped
  <2>4. NewRecord \in Record
    BY BoundsAssumption DEF NewRecord, Record, Processes, NoProcess, NoJob
  <2>5. ASSUME NEW pc \in {"state", "answer"}, Goto(u, pc, [r EXCEPT !.form = NewRecord]) PROVE Kept
    <3> DEFINE s == [[r EXCEPT !.form = NewRecord] EXCEPT !.pc = pc]
    <3>1. /\ s \in Request /\ s.pc = pc /\ s.results = r.results /\ s.key = r.key /\ s.task = r.task
          /\ s.kind = r.kind /\ s.proc = r.proc
      BY <1>2, <2>4 DEF Request
    <3>2. Local(s, settings.enabled) /\ s.key = 0
      BY <1>2, <1>3, <1>9, <3>1 DEF KeepProcess, Local, Before, Wait
    <3> QED BY <1>2, <2>5, <3>1, <3>2, GoesOn DEF Goto
  <2>6. Kept
    BY <1>4, <1>9, <2>5 DEF KeepProcess
  <2> QED BY <1>1, <2>3, <2>6, RequestStep
<1> QED BY <1>5, <1>6, <1>7, <1>8, <1>9

LEMMA AtTyped ==
  ASSUME NEW s \in Snapshot, NEW k \in 0 .. Ended
  PROVE  [s EXCEPT !.at = k] \in Snapshot /\ [s EXCEPT !.at = k].at = k
BY DEF Snapshot

\* The engine takes a start: an instance that no request knows.
LEMMA Launched ==
  ASSUME IInv, NEW u \in Requests, NEW i \in Instances, Launches(u, i), UNCHANGED <<settings, view>>
  PROVE  /\ inst' \in [Instances -> Snapshot] /\ inst'[i].at = 1 /\ Forward /\ Lags'
         /\ subject' \in [Instances -> Names \cup {NoName}]
         /\ \A j \in Instances : inst'[j].at = 0 => subject'[j] = NoName
<1>1. /\ inst \in [Instances -> Snapshot] /\ view \in [Instances -> Snapshot]
      /\ subject \in [Instances -> Names \cup {NoName}] /\ req[u] \in Request
  BY DEF IInv, TypeOK
<1>2. inst[i].at = 0 /\ inst' = [inst EXCEPT ![i].at = 1] /\ subject' = [subject EXCEPT ![i] = req[u].name]
  BY DEF Launches
<1>3. inst' \in [Instances -> Snapshot] /\ inst'[i].at = 1 /\ \A j \in Instances : j # i => inst'[j] = inst[j]
  <2>1. [inst[i] EXCEPT !.at = 1] \in Snapshot /\ [inst[i] EXCEPT !.at = 1].at = 1
    <3>1. 1 \in 0 .. Ended /\ inst[i] \in Snapshot
      BY <1>1, SizeOfFlow
    <3> QED BY <3>1, AtTyped
  <2>2. inst' = [inst EXCEPT ![i] = [inst[i] EXCEPT !.at = 1]]
    BY <1>2
  <2> QED BY <1>1, <2>1, <2>2
<1>4. \A j \in Instances : inst[j].at \in Nat /\ view[j].at \in Nat
  BY <1>1, SizeOfFlow DEF Snapshot
<1>5. Forward
  BY <1>1, <1>2, <1>3, <1>4 DEF Forward
<1>6. Lags'
  BY <1>2, <1>3, <1>4 DEF IInv, Lags
<1>7. subject' \in [Instances -> Names \cup {NoName}]
  BY <1>1, <1>2 DEF Request
<1>8. \A j \in Instances : inst'[j].at = 0 => subject'[j] = NoName
  BY <1>1, <1>2, <1>3 DEF IInv, TypeOK
<1> QED BY <1>3, <1>5, <1>6, <1>7, <1>8

LEMMA InstanceStep ==
  ASSUME IInv, NEW u \in Requests, NEW i \in Instances, StartInstance(u, i)
  PROVE  IInv'
<1> DEFINE r == req[u]
           q == [r EXCEPT !.proc = i, !.form = IF r.update THEN @ ELSE NewRecord]
           s == [q EXCEPT !.pc = AfterStart(q)]
<1>1. /\ r \in Request /\ Local(r, settings.enabled) /\ r.pc = "start"
      /\ view \in [Instances -> Snapshot]
  BY DEF IInv, TypeOK, RequestsOK, StartInstance, Launches
<1>2. Launches(u, i) /\ UNCHANGED <<settings, rec, view>>
  BY DEF StartInstance
<1>3. /\ inst' \in [Instances -> Snapshot] /\ Forward /\ Lags'
      /\ subject' \in [Instances -> Names \cup {NoName}]
      /\ \A j \in Instances : inst'[j].at = 0 => subject'[j] = NoName
  BY <1>2, Launched
<1>6. q \in Request /\ q.proc = i /\ q.results = r.results /\ q.key = 0 /\ q.task = 0 /\ q.kind = r.kind /\ r.kind # "batch"
  <2>1. i \in Processes /\ NewRecord \in Record
    BY BoundsAssumption, Numbers DEF NewRecord, Record, Processes, NoProcess, NoJob
  <2>2. r.key = 0 /\ r.task = 0 /\ r.kind # "batch"
    BY <1>1 DEF Local, Before
  <2> QED BY <1>1, <2>1, <2>2 DEF Request
<1>7. AfterStart(q) \in {"keep", "state", "answer"} /\ (AfterStart(q) = "keep" => q.proc # NoProcess)
  BY DEF AfterStart
<1>8. /\ s \in Request /\ s.pc = AfterStart(q) /\ s.proc = i /\ s.results = r.results /\ s.key = 0 /\ s.task = 0
      /\ s.kind # "batch"
  <2>1. AfterStart(q) \in Places
    BY <1>7 DEF Places, Before, Wait
  <2> HIDE DEF q
  <2> QED BY <1>6, <2>1, PcOnly
<1>9. Local(s, settings.enabled)
  BY <1>1, <1>7, <1>8, Numbers DEF Local, Before, Wait
<1>10. req' = [req EXCEPT ![u] = s]
  BY DEF StartInstance, Goto
<1>11. Kept
  BY <1>3, <1>7, <1>8, <1>9, <1>10, GoesOn
<1>12. TypeOK'
  BY <1>1, <1>2, <1>3, <1>11 DEF IInv, TypeOK, Kept
<1> QED BY <1>3, <1>11, <1>12 DEF IInv, Kept

LEMMA ShownIsView ==
  ASSUME IInv, NEW i \in Processes, ShownTask(i) # 0
  PROVE  /\ i # NoProcess /\ ShownTask(i) = view[i].at /\ ShownTask(i) \in DOMAIN Flow
         /\ ShownTask(i) \in 0 .. Ended
BY SizeOfFlow DEF ShownTask

LEMMA NoTaskTyped ==
  ASSUME NEW r \in Request, NEW k \in 0 .. Ended
  PROVE  /\ [r EXCEPT !.key = k, !.task = 0] \in Request
         /\ [r EXCEPT !.task = 0] \in Request
<1>1. 0 \in 0 .. Ended
  BY SizeOfFlow
<1> QED BY <1>1 DEF Request

\* The search of a task to complete.
LEMMA FindStep ==
  ASSUME IInv, NEW u \in Requests, FindTask(u)
  PROVE  IInv'
<1> DEFINE r == req[u]
<1>1. UNCHANGED <<settings, rec, subject, inst, view>> /\ r.pc = "find"
  BY DEF FindTask, world
<1>2. /\ r \in Request /\ Local(r, settings.enabled) /\ rec \in [Names -> Record] /\ Forward
      /\ Placed(r, inst, view)
  BY <1>1, StillForward DEF IInv, TypeOK, RequestsOK
<1>3. r.key = 0 /\ r.task = 0 /\ r.proc \in Processes
  BY <1>1, <1>2 DEF Local, Before, Request
<1>4. CASE ~settings.enabled \/ r.proc = NoProcess
  <2> DEFINE s == [r EXCEPT !.pc = "answer"]
  <2>1. /\ s \in Request /\ s.pc = "answer" /\ s.results = r.results /\ s.key = 0 /\ s.kind = r.kind /\ s.proc = r.proc
    BY <1>2, <1>3 DEF Request
  <2>2. Local(s, settings.enabled)
    BY <1>1, <1>2, <1>4, <2>1 DEF Local, Before, Wait
  <2>3. req' = [req EXCEPT ![u] = s]
    BY <1>4 DEF FindTask, Goto
  <2> QED BY <1>1, <1>2, <2>1, <2>2, <2>3, GoesOn, RequestStep
<1>5. ASSUME Fail(u, r) PROVE IInv'
  BY <1>1, <1>2, <1>3, <1>5, FailKeeps, RequestStep
<1>6. ASSUME ShownTask(r.proc) # 0, Goto(u, "complete", [r EXCEPT !.task = ShownTask(r.proc)])
      PROVE  IInv'
  <2> DEFINE n == ShownTask(r.proc)
             s == [[r EXCEPT !.task = n] EXCEPT !.pc = "complete"]
  <2>1. r.proc # NoProcess /\ n = view[r.proc].at /\ n \in DOMAIN Flow /\ n \in 0 .. Ended
    BY <1>3, <1>6, ShownIsView
  <2> HIDE DEF n
  <2>2. /\ s \in Request /\ s.pc = "complete" /\ s.results = r.results /\ s.key = 0 /\ s.kind = r.kind
        /\ s.proc = r.proc /\ s.task = n
    BY <1>2, <1>3, <2>1 DEF Request
  <2>3. Local(s, settings.enabled)
    BY <1>1, <1>2, <2>1, <2>2 DEF Local, Before, Wait
  <2>4. \A p, k : Claims(s, p, k) => Claims(r, p, k)
    BY <2>2, SameClaims
  <2>5. Placed(s, inst', view')
    <3>1. view[r.proc].at \in Nat
      BY <2>1, SizeOfFlow
    <3>2. Placed(r, inst', view')
      BY <1>2, PlacedStays
    <3> QED BY <1>1, <2>1, <2>2, <2>4, <3>1, <3>2 DEF Placed
  <2>6. req' = [req EXCEPT ![u] = s]
    BY <1>6 DEF Goto, n
  <2>7. Kept
    BY <1>2, <2>2, <2>3, <2>4, <2>5, <2>6, MoveKeeps
  <2> QED BY <1>1, <1>2, <2>7, RequestStep
<1> QED BY <1>4, <1>5, <1>6 DEF FindTask

\* The engine takes the completion of the task its instance is at.
LEMMA Advances ==
  ASSUME IInv, NEW i \in Instances, NEW k \in DOMAIN Flow, inst[i].at = k,
         inst' = [inst EXCEPT ![i].at = @ + 1], UNCHANGED <<settings, subject, view>>
  PROVE  /\ inst' \in [Instances -> Snapshot] /\ inst'[i].at = k + 1
         /\ Forward /\ Lags'
         /\ \A j \in Instances : inst'[j].at = 0 => subject'[j] = NoName
<1>1. inst \in [Instances -> Snapshot] /\ view \in [Instances -> Snapshot]
  BY DEF IInv, TypeOK
<1>2. k + 1 \in 0 .. Ended /\ k \in Nat
  BY SizeOfFlow
<1>3. [inst[i] EXCEPT !.at = k + 1] \in Snapshot /\ [inst[i] EXCEPT !.at = k + 1].at = k + 1
  BY <1>1, <1>2, AtTyped
<1>4. inst' = [inst EXCEPT ![i] = [inst[i] EXCEPT !.at = k + 1]]
  OBVIOUS
<1>5. /\ inst' \in [Instances -> Snapshot] /\ inst'[i].at = k + 1
      /\ \A j \in Instances : j # i => inst'[j] = inst[j]
  BY <1>1, <1>3, <1>4
<1>6. \A j \in Instances : inst[j].at \in Nat /\ view[j].at \in Nat
  BY <1>1, SizeOfFlow DEF Snapshot
<1>7. Forward
  BY <1>1, <1>2, <1>5, <1>6 DEF Forward
<1>8. Lags'
  BY <1>2, <1>5, <1>6 DEF IInv, Lags
<1>9. \A j \in Instances : inst'[j].at = 0 => subject'[j] = NoName
  BY <1>2, <1>5 DEF IInv, TypeOK
<1> QED BY <1>5, <1>7, <1>8, <1>9

LEMMA EngineStep ==
  ASSUME IInv, Kept, rec' \in [Names -> Record], Lags', UNCHANGED <<settings, subject>>,
         inst' \in [Instances -> Snapshot], view' \in [Instances -> Snapshot],
         \A j \in Instances : inst'[j].at = 0 => subject'[j] = NoName
  PROVE  IInv'
BY DEF IInv, TypeOK, Kept

LEMMA CompleteStep ==
  ASSUME IInv, NEW u \in Requests, CompleteTask(u)
  PROVE  IInv'
<1> DEFINE r == req[u]
<1>1. UNCHANGED <<settings, rec, subject, view>> /\ r.pc = "complete"
  BY DEF CompleteTask
<1>2. /\ r \in Request /\ Local(r, settings.enabled) /\ rec \in [Names -> Record]
      /\ Placed(r, inst, view) /\ view \in [Instances -> Snapshot]
  BY DEF IInv, TypeOK, RequestsOK
<1>3. r.key = 0 /\ r.proc \in Instances /\ r.task \in DOMAIN Flow /\ view[r.proc].at >= r.task
  BY <1>1, <1>2, Numbers DEF Local, Before, Placed, Request
<1>4. CASE inst[r.proc].at = r.task
  <2>1. PICK pc \in {"state", "answer"} : Goto(u, pc, [r EXCEPT !.key = r.task, !.task = 0])
    BY <1>4 DEF CompleteTask, Following
  <2> DEFINE q == [r EXCEPT !.key = r.task, !.task = 0]
             s == [q EXCEPT !.pc = pc]
  <2>2. /\ inst' \in [Instances -> Snapshot] /\ inst'[r.proc].at = r.task + 1
        /\ Forward /\ Lags'
        /\ \A j \in Instances : inst'[j].at = 0 => subject'[j] = NoName
    <3>1. inst' = [inst EXCEPT ![r.proc].at = @ + 1]
      BY <1>4 DEF CompleteTask
    <3> QED BY <1>1, <1>3, <1>4, <3>1, Advances
  <2>3. /\ q \in Request /\ q.results = r.results /\ q.key = r.task /\ q.kind = r.kind
        /\ q.proc = r.proc /\ q.task = 0
    <3>1. r.task \in 0 .. Ended
      BY <1>2 DEF Request
    <3>2. q \in Request
      BY <1>2, <3>1, NoTaskTyped
    <3> QED BY <1>2, <3>2 DEF Request
  <2>4. /\ s \in Request /\ s.pc = pc /\ s.results = r.results /\ s.key = r.task /\ s.kind = r.kind
        /\ s.proc = r.proc /\ s.task = 0
    <3>1. pc \in Places
      BY DEF Places, Wait
    <3> HIDE DEF q
    <3> QED BY <2>3, <3>1, PcOnly
  <2>5. r.task \in Nat /\ r.task # 0
    BY <1>3, SizeOfFlow
  <2>6. Local(s, settings.enabled)
    BY <1>1, <1>2, <1>3, <2>4, <2>5, Numbers DEF Local, Before, Wait
  <2>7. ASSUME NEW p \in Processes, NEW k \in 0 .. Ended, Claims(s, p, k)
        PROVE  Claims(r, p, k) \/ (p = r.proc /\ k = r.task)
    BY <2>4, <2>7 DEF Claims
  <2>8. Placed(s, inst', view')
    <3>1. Placed(r, inst', view')
      BY <1>2, <2>2, PlacedStays
    <3>2. ASSUME NEW p \in Processes, NEW k \in 0 .. Ended, Claims(s, p, k)
          PROVE  p # NoProcess /\ inst'[p].at > k
      BY <1>3, <2>2, <2>5, <2>7, <3>1, <3>2, Numbers DEF Placed
    <3> QED BY <1>1, <1>3, <2>4, <3>2, Numbers DEF Placed
  <2>9. req' = [req EXCEPT ![u] = s]
    BY <2>1 DEF Goto
  <2>10. \A p \in Processes, k \in 0 .. Ended :
           Claims(s, p, k) => Claims(r, p, k) \/ Open(p, k)
    BY <1>3, <1>4, <2>5, <2>7, Numbers DEF Open
  <2>11. Kept
    <3> HIDE DEF s
    <3> QED BY <2>2, <2>4, <2>6, <2>8, <2>9, <2>10, MoveKeeps
  <2> QED BY <1>1, <1>2, <2>2, <2>11, EngineStep
<1>5. CASE inst[r.proc].at # r.task
  <2>1. Fail(u, [r EXCEPT !.task = 0]) /\ inst' = inst
    BY <1>5 DEF CompleteTask
  <2>2. Forward
    BY <1>1, <2>1, StillForward
  <2>3. [r EXCEPT !.task = 0] \in Request /\ [r EXCEPT !.task = 0].key = 0
        /\ [r EXCEPT !.task = 0].results = r.results
    <3>1. 0 \in 0 .. Ended
      BY SizeOfFlow
    <3>2. [r EXCEPT !.task = 0] \in Request
      BY <1>2, <3>1, NoTaskTyped
    <3> QED BY <1>2, <1>3, <3>2 DEF Request
  <2> QED BY <1>1, <1>2, <2>1, <2>2, <2>3, FailKeeps, RequestStep
<1> QED BY <1>4, <1>5

LEMMA BreakStep ==
  ASSUME IInv, NEW u \in Requests, CompleteBreaks(u)
  PROVE  IInv'
<1> DEFINE r == req[u]
           q == [r EXCEPT !.task = 0]
<1>1. UNCHANGED <<settings, rec, subject, view>> /\ r.pc \in {"find", "complete"} /\ r.proc # NoProcess /\ Fail(u, q)
  BY DEF CompleteBreaks
<1>2. r \in Request /\ Local(r, settings.enabled) /\ rec \in [Names -> Record] /\ view \in [Instances -> Snapshot]
  BY DEF IInv, TypeOK, RequestsOK
<1>3. r.key = 0 /\ r.proc \in Instances /\ (r.pc = "complete" => r.task \in DOMAIN Flow)
  BY <1>1, <1>2, Numbers DEF Local, Before, Request
<1>4. q \in Request /\ q.key = 0 /\ q.results = r.results
  <2>1. 0 \in 0 .. Ended
    BY SizeOfFlow
  <2>2. q \in Request
    BY <1>2, <2>1, NoTaskTyped
  <2> QED BY <1>2, <1>3, <2>2 DEF Request
<1>5. CASE inst' = inst
  <2>1. Forward
    BY <1>1, <1>5, StillForward
  <2>2. Kept
    BY <1>1, <1>4, <2>1, FailKeeps
  <2> QED BY <1>1, <1>2, <1>5, <2>2, RequestStep
<1>6. CASE r.pc = "complete" /\ inst[r.proc].at = r.task /\ inst' = [inst EXCEPT ![r.proc].at = @ + 1]
  <2>1. /\ inst' \in [Instances -> Snapshot] /\ Forward /\ Lags'
        /\ \A j \in Instances : inst'[j].at = 0 => subject'[j] = NoName
    BY <1>1, <1>3, <1>6, Advances
  <2>2. Kept
    BY <1>1, <1>4, <2>1, FailKeeps
  <2> QED BY <1>1, <1>2, <2>1, <2>2, EngineStep
<1> QED BY <1>5, <1>6 DEF CompleteBreaks, Completes

\* A request is lost, and the call that its thread was making goes through or not.
LEMMA DiesStep ==
  ASSUME IInv, NEW u \in Requests, Dies(u)
  PROVE  IInv'
<1> DEFINE r == req[u]
           s == [NoRequest EXCEPT !.pc = "idle"]
<1>1. UNCHANGED <<settings, rec, view>> /\ req' = [req EXCEPT ![u] = s]
  BY DEF Dies, Goto
<1>2. r \in Request /\ Local(r, settings.enabled) /\ rec \in [Names -> Record] /\ view \in [Instances -> Snapshot]
  BY DEF IInv, TypeOK, RequestsOK
<1>3. /\ s \in Request /\ Local(s, settings.enabled) /\ s.pc = "idle" /\ s.results = <<>> /\ s.key = 0
  <2>1. s \in Request
    BY NoRequestTyped, PcTyped DEF Places
  <2> QED BY <2>1 DEF Local, NoRequest, Before, Wait
<1>4. ASSUME Forward PROVE Kept
  <2> HIDE DEF s
  <2> QED BY <1>1, <1>3, <1>4, StartsAfresh
<1>5. CASE UNCHANGED <<inst, subject>>
  BY <1>1, <1>2, <1>4, <1>5, StillForward, RequestStep
<1>6. CASE Completes(u) /\ UNCHANGED subject
  <2>1. r.proc \in Instances /\ r.task \in DOMAIN Flow
    BY <1>2, <1>6, Numbers DEF Completes, Local, Before, Request
  <2>2. /\ inst' \in [Instances -> Snapshot] /\ Forward /\ Lags'
        /\ \A j \in Instances : inst'[j].at = 0 => subject'[j] = NoName
    BY <1>1, <1>6, <2>1, Advances DEF Completes
  <2> QED BY <1>1, <1>2, <1>4, <1>6, <2>2, EngineStep
<1>7. CASE \E i \in Instances : Launches(u, i)
  <2>1. PICK i \in Instances : Launches(u, i)
    BY <1>7
  <2>2. /\ inst' \in [Instances -> Snapshot] /\ Forward /\ Lags'
        /\ subject' \in [Instances -> Names \cup {NoName}]
        /\ \A j \in Instances : inst'[j].at = 0 => subject'[j] = NoName
    BY <1>1, <2>1, Launched
  <2> QED BY <1>1, <1>2, <1>4, <2>2 DEF IInv, TypeOK, Kept
<1> QED BY <1>5, <1>6, <1>7 DEF Dies

LEMMA CapturedTyped ==
  ASSUME IInv, NEW i \in Instances, NEW before \in Vars, NEW v \in Captured(i, before)
  PROVE  v \in Vars
<1>1. view[i].vars \in Vars
  BY DEF IInv, TypeOK, Snapshot
<1> QED BY <1>1 DEF Captured

\* wait_until_settled.
LEMMA WaitStep ==
  ASSUME IInv, NEW u \in Requests,
         ReadState(u) \/ ReadVars(u) \/ ReadTasks(u) \/ TasksFail(u) \/ ReadHistory(u)
  PROVE  IInv'
<1> DEFINE r == req[u]
<1>1. UNCHANGED <<settings, rec, subject, inst, view>> /\ r.pc \in Wait \cup {"history"}
  BY DEF ReadState, ReadVars, ReadTasks, TasksFail, ReadHistory, world, Wait
<1>2. /\ r \in Request /\ Local(r, settings.enabled) /\ rec \in [Names -> Record] /\ Forward
      /\ Placed(r, inst, view)
  BY <1>1, StillForward DEF IInv, TypeOK, RequestsOK
<1>3. r.proc \in Processes /\ r.proc # NoProcess /\ r.proc \in Instances /\ r.vars \in Vars
      /\ (r.pc \in Wait => r.task = 0)
  BY <1>1, <1>2, Numbers DEF Local, Request
<1>4. ASSUME NEW q \in Request, NEW pc \in Wait \cup {"history", "answer"}, Goto(u, pc, q),
             q.kind = r.kind, q.key = r.key, q.proc = r.proc, q.results = r.results,
             pc \in Wait => q.task = 0,
             q.task = 0 \/ q.task > q.key \/ (r.pc = "history" /\ q.task = r.task /\ pc = "answer")
      PROVE  IInv'
  <2> DEFINE s == [q EXCEPT !.pc = pc]
  <2>1. pc \in Places
    BY DEF Places, Wait
  <2>2. /\ s \in Request /\ s.pc = pc /\ s.results = r.results /\ s.key = r.key
        /\ s.task = q.task /\ s.kind = r.kind /\ s.proc = r.proc
    BY <1>4, <2>1, PcOnly
  <2>3. Local(s, settings.enabled) /\ s.pc # "complete"
    BY <1>1, <1>2, <1>3, <1>4, <2>2 DEF Local, Before, Wait
  <2>4. req' = [req EXCEPT ![u] = s]
    BY <1>4 DEF Goto
  <2> HIDE DEF s
  <2>5. Kept
    BY <1>2, <2>2, <2>3, <2>4, GoesOn
  <2> QED BY <1>1, <1>2, <2>5, RequestStep
<1>5. ASSUME ReadState(u) PROVE IInv'
  <2>1. PICK s \in {"unknown", "ended", "active"} : Goto(u, "vars", [r EXCEPT !.state = s])
    BY <1>5 DEF ReadState
  <2>2. [r EXCEPT !.state = s] \in Request
    BY <1>2, <2>1 DEF Request
  <2>3. r.task = 0
    BY <1>3, <1>5 DEF ReadState, Wait
  <2> QED BY <1>2, <1>4, <2>1, <2>2, <2>3 DEF Request, Wait
<1>6. ASSUME ReadVars(u) PROVE IInv'
  <2>1. PICK v \in Captured(r.proc, r.vars) :
          Goto(u, IF r.state = "ended" THEN Settled(r, v) ELSE "tasks", [r EXCEPT !.vars = v, !.state = "unknown"])
    BY <1>6 DEF ReadVars
  <2>2. v \in Vars
    BY <1>3, <2>1, CapturedTyped
  <2>3. [r EXCEPT !.vars = v, !.state = "unknown"] \in Request
    BY <1>2, <2>2 DEF Request
  <2>4. r.task = 0
    BY <1>3, <1>6 DEF ReadVars, Wait
  <2>5. (IF r.state = "ended" THEN Settled(r, v) ELSE "tasks") \in Wait \cup {"history", "answer"}
    BY DEF Settled, Wait
  <2> QED BY <1>2, <1>4, <2>1, <2>3, <2>4, <2>5 DEF Request
<1>7. ASSUME ReadTasks(u) PROVE IInv'
  <2>1. r.task = 0
    BY <1>3, <1>7 DEF ReadTasks, Wait
  <2>2. Settled(r, r.vars) \in {"history", "answer"}
    BY DEF Settled
  <2>3. CASE FreshTask(r) # 0
    <3> DEFINE n == FreshTask(r)
    <3>1. n = ShownTask(r.proc) /\ n # r.key /\ n # 0
      BY <2>3 DEF FreshTask
    <3>2. n = view[r.proc].at /\ n \in 0 .. Ended
      BY <1>3, <3>1, ShownIsView
    <3>3. n > r.key
      <4>1. r.key \in Nat /\ n \in Nat
        BY <1>2, <3>2, SizeOfFlow DEF Request
      <4>2. r.key # 0 => view[r.proc].at >= r.key
        BY <1>2 DEF Placed
      <4> QED BY <3>1, <3>2, <4>1, <4>2
    <3>4. Goto(u, Settled(r, r.vars), [r EXCEPT !.task = n])
      BY <1>7, <2>3 DEF ReadTasks
    <3> HIDE DEF n
    <3>5. [r EXCEPT !.task = n] \in Request
      BY <1>2, <3>2 DEF Request
    <3> QED BY <1>2, <1>4, <2>2, <3>3, <3>4, <3>5 DEF Request, Wait
  <2>4. ASSUME Goto(u, Settled(r, r.vars), r) PROVE IInv'
    BY <1>2, <1>4, <1>7, <2>1, <2>2, <2>4 DEF ReadTasks, Wait
  <2>5. ASSUME Goto(u, "state", [r EXCEPT !.polls = IF @ < MaxPolls THEN @ + 1 ELSE @]) PROVE IInv'
    <3> DEFINE q == [r EXCEPT !.polls = IF @ < MaxPolls THEN @ + 1 ELSE @]
    <3>1. (IF r.polls < MaxPolls THEN r.polls + 1 ELSE r.polls) \in 0 .. MaxPolls
      BY <1>2, BoundsAssumption DEF Request
    <3>2. q \in Request
      BY <1>2, <3>1 DEF Request
    <3>3. q.kind = r.kind /\ q.key = r.key /\ q.proc = r.proc /\ q.results = r.results /\ q.task = r.task
      BY <1>2 DEF Request
    <3>4. Goto(u, "state", q)
      BY <2>5
    <3> HIDE DEF q
    <3> QED BY <1>4, <2>1, <3>2, <3>3, <3>4 DEF Wait
  <2> QED BY <1>7, <2>3, <2>4, <2>5 DEF ReadTasks
<1>8. ASSUME TasksFail(u) PROVE IInv'
  <2>1. NoVars \in Vars /\ r.task = 0
    BY <1>3, <1>8 DEF TasksFail, Wait, NoVars, Vars, Says, NoJob
  <2>2. [r EXCEPT !.vars = NoVars] \in Request
    BY <1>2, <2>1 DEF Request
  <2>3. CASE r.kind = "start"
    <3>1. Respond(u, r, "form")
      BY <1>8, <2>3 DEF TasksFail
    <3>2. Kept
      BY <1>2, <2>3, <3>1, RespondKeeps
    <3> QED BY <1>1, <1>2, <3>2, RequestStep
  <2>4. CASE r.kind # "start"
    <3>1. Goto(u, "answer", [r EXCEPT !.vars = NoVars])
      BY <1>8, <2>4 DEF TasksFail
    <3> QED BY <1>2, <1>4, <2>1, <2>2, <3>1 DEF Request, Wait
  <2> QED BY <2>3, <2>4
<1>9. ASSUME ReadHistory(u) PROVE IInv'
  <2>1. PICK v \in Captured(r.proc, r.vars) : Goto(u, "answer", [r EXCEPT !.vars = v])
    BY <1>9 DEF ReadHistory
  <2>2. v \in Vars
    BY <1>3, <2>1, CapturedTyped
  <2>3. [r EXCEPT !.vars = v] \in Request /\ r.pc = "history"
    BY <1>2, <1>9, <2>2 DEF Request, ReadHistory
  <2> QED BY <1>2, <1>4, <2>1, <2>3 DEF Request, Wait
<1> QED BY <1>5, <1>6, <1>7, <1>8, <1>9

\* The response, and the next record of a batch.
LEMMA AnswerStep ==
  ASSUME IInv, NEW u \in Requests, Answer(u) \/ BatchNext(u) \/ BatchDone(u)
  PROVE  IInv'
<1> DEFINE r == req[u]
<1>1. UNCHANGED <<settings, rec, subject, inst, view>>
  BY DEF Answer, BatchNext, BatchDone, world
<1>2. /\ r \in Request /\ Local(r, settings.enabled) /\ rec \in [Names -> Record] /\ Forward
  BY <1>1, StillForward DEF IInv, TypeOK, RequestsOK
<1>3. ASSUME Answer(u) PROVE Kept
  <2>1. Outcome(r) \in {"error", "taskError", "redirect", "form", "list"} /\ r.pc = "answer"
    BY <1>3 DEF Outcome, Answer
  <2> QED BY <1>2, <1>3, <2>1, RespondKeeps, FailKeeps DEF Answer
<1>4. ASSUME BatchNext(u) PROVE Kept
  <2> DEFINE next == [r EXCEPT !.todo = Tail(@), !.name = Head(r.todo),
                        !.proc = rec[Head(r.todo)].proc, !.key = 0, !.polls = 0,
                        !.task = 0, !.vars = NoVars, !.state = "unknown"]
             s == [next EXCEPT !.pc = "find"]
  <2>1. r.todo \in Seq(Names) /\ r.todo # <<>>
    BY <1>2, <1>4 DEF Request, BatchNext
  <2>2. Head(r.todo) \in Names /\ Tail(r.todo) \in Seq(Names)
    BY <2>1
  <2>3. rec[Head(r.todo)].proc \in Processes
    BY <1>2, <2>2 DEF Record
  <2>4. 0 \in 0 .. Ended /\ 0 \in 0 .. MaxPolls /\ NoVars \in Vars
    BY SizeOfFlow, BoundsAssumption DEF NoVars, Vars, Says, NoJob
  <2>5. /\ next \in Request /\ next.proc = rec[Head(r.todo)].proc /\ next.key = 0 /\ next.task = 0
        /\ next.results = r.results /\ next.kind = r.kind
    BY <1>2, <2>2, <2>3, <2>4 DEF Request
  <2>6. (next.proc # NoProcess /\ Goto(u, "find", next)) \/ Fail(u, next)
    BY <1>4 DEF BatchNext
  <2> HIDE DEF next
  <2>7. CASE Fail(u, next)
    BY <1>2, <2>5, <2>7, FailKeeps
  <2>8. CASE next.proc # NoProcess /\ Goto(u, "find", next)
    <3>1. /\ s \in Request /\ s.pc = "find" /\ s.results = r.results /\ s.key = 0 /\ s.task = 0
          /\ s.kind = r.kind /\ s.proc = next.proc
      <4>1. "find" \in Places
        BY DEF Places, Before
      <4> QED BY <2>5, <4>1, PcOnly
    <3>2. Local(s, settings.enabled)
      BY <1>2, <2>8, <3>1 DEF Local, Before, Wait
    <3>3. req' = [req EXCEPT ![u] = s]
      BY <2>8 DEF Goto
    <3> HIDE DEF s
    <3> QED BY <1>2, <3>1, <3>2, <3>3, GoesOn
  <2> QED BY <2>6, <2>7, <2>8
<1>5. ASSUME BatchDone(u) PROVE Kept
  <2> DEFINE s == [[r EXCEPT !.out = "list"] EXCEPT !.pc = "answered"]
  <2>1. /\ s \in Request /\ s.pc = "answered" /\ s.results = r.results /\ s.key = r.key /\ s.proc = r.proc
        /\ s.kind = r.kind
    BY <1>2 DEF Request
  <2>2. Local(s, settings.enabled)
    BY <1>2, <2>1 DEF Local, Before, Wait
  <2>3. req' = [req EXCEPT ![u] = s]
    BY <1>5 DEF BatchDone, Goto
  <2> HIDE DEF s
  <2> QED BY <1>2, <2>1, <2>2, <2>3, GoesOn
<1> QED BY <1>1, <1>2, <1>3, <1>4, <1>5, RequestStep

LEMMA RequestsStay ==
  ASSUME IInv, Forward, UNCHANGED req PROVE Kept
<1>1. req \in [Requests -> Request]
  BY DEF IInv, TypeOK
<1>2. ASSUME NEW u \in Requests PROVE Local(req'[u], settings'.enabled) /\ Placed(req'[u], inst', view')
  BY <1>1, PlacedStays DEF IInv, RequestsOK, Forward
<1>3. RequestsOK'
  BY <1>2 DEF RequestsOK
<1>4. Apart'
  BY DEF IInv, Apart, Claims
<1> QED BY <1>1, <1>3, <1>4 DEF Kept

\* The engine, its view and the workers.
LEMMA WorldStep ==
  ASSUME IInv, NEW i \in Instances, WorkerRuns(i) \/ Export(i)
  PROVE  IInv'
<1>1. /\ inst \in [Instances -> Snapshot] /\ view \in [Instances -> Snapshot] /\ rec \in [Names -> Record]
  BY DEF IInv, TypeOK
<1>2. \A j \in Instances : inst[j].at \in Nat /\ view[j].at \in Nat
  BY <1>1, SizeOfFlow DEF Snapshot
<1>3. ASSUME WorkerRuns(i) PROVE IInv'
  <2>1. inst[i].at \in Jobs /\ inst[i].at \in DOMAIN Flow /\ UNCHANGED <<settings, subject, view, req>>
    BY <1>3 DEF WorkerRuns, Jobs
  <2>2. PICK say \in Structs :
          inst' = [inst EXCEPT ![i] = [at |-> inst[i].at + 1, vars |-> [last |-> inst[i].at, say |-> say]]]
    BY <1>3 DEF WorkerRuns
  <2>3. [at |-> inst[i].at + 1, vars |-> [last |-> inst[i].at, say |-> say]] \in Snapshot
    <3>1. inst[i].at + 1 \in 0 .. Ended
      BY <2>1, SizeOfFlow
    <3>2. [last |-> inst[i].at, say |-> say] \in Vars
      BY <2>1 DEF Vars, Says
    <3> QED BY <3>1, <3>2 DEF Snapshot
  <2>4. inst' \in [Instances -> Snapshot] /\ inst'[i].at = inst[i].at + 1 /\ \A j \in Instances : j # i => inst'[j] = inst[j]
    BY <1>1, <2>2, <2>3
  <2>5. Forward
    BY <1>1, <1>2, <2>1, <2>4 DEF Forward
  <2>6. Kept
    BY <2>1, <2>5, RequestsStay
  <2>7. rec' \in [Names -> Record]
    <3>1. ASSUME NEW n \in Names PROVE [rec[n] EXCEPT !.done = inst[i].at] \in Record
      BY <1>1, <2>1 DEF Record
    <3> QED BY <1>1, <1>3, <3>1 DEF WorkerRuns
  <2>8. Lags'
    BY <1>2, <2>1, <2>4 DEF IInv, Lags
  <2>9. \A j \in Instances : inst'[j].at = 0 => subject'[j] = NoName
    BY <1>2, <2>1, <2>4 DEF IInv, TypeOK
  <2> QED BY <1>1, <2>1, <2>4, <2>6, <2>7, <2>8, <2>9, EngineStep
<1>4. ASSUME Export(i) PROVE IInv'
  <2>1. view' = [view EXCEPT ![i] = inst[i]] /\ UNCHANGED <<settings, rec, subject, inst, req>>
    BY <1>4 DEF Export
  <2>2. view' \in [Instances -> Snapshot] /\ view'[i] = inst[i] /\ \A j \in Instances : j # i => view'[j] = view[j]
    BY <1>1, <2>1
  <2>3. Forward
    BY <1>1, <1>2, <2>1, <2>2 DEF Forward, IInv, Lags
  <2>4. Kept
    BY <2>1, <2>3, RequestsStay
  <2>5. Lags'
    BY <1>2, <2>1, <2>2 DEF IInv, Lags
  <2> QED BY <1>1, <2>1, <2>2, <2>4, <2>5, EngineStep DEF IInv, TypeOK
<1> QED BY <1>3, <1>4

(***************************************************************************)
(* The theorems.                                                           *)
(***************************************************************************)

LEMMA StepIInv == IInv /\ [Next]_vars => IInv'
<1> SUFFICES ASSUME IInv, [Next]_vars PROVE IInv'
  OBVIOUS
<1>1. CASE UNCHANGED vars
  BY <1>1 DEF vars, IInv, TypeOK, Lags, RequestsOK, Apart, Local, Placed, Claims
<1>2. ASSUME NEW u \in Requests, Handler(u) PROVE IInv'
  BY <1>2, StartStep, InstanceStep, FindStep, CompleteStep, BreakStep, WaitStep, AnswerStep DEF Handler
<1>3. CASE Next
  BY <1>2, <1>3, ClientStep, DiesStep, WorldStep DEF Next
<1> QED BY <1>1, <1>3

THEOREM Invariance == Spec => []IInv
BY InitIInv, StepIInv, PTL DEF Spec

\* The types of every variable; an instance that was never started has no subject.
THEOREM TypeCorrect == Spec => []TypeOK
<1>1. IInv => TypeOK
  BY DEF IInv
<1> QED BY <1>1, Invariance, PTL

\* wait_until_settled: the task it answers with comes after the one completed, for any
\* flow, any lag of the search and any other requests on the same process.
THEOREM WaitAdvances == Spec => []SettledMeansAdvanced
<1>1. IInv => SettledMeansAdvanced
  BY DEF IInv, RequestsOK, Local, SettledMeansAdvanced
<1> QED BY <1>1, Invariance, PTL

\* complete_many: ok is reported for a task that was completed, and by one batch only.
THEOREM BatchTellsTheTruth == Spec => []OkMeansCompleted
<1>1. ASSUME IInv PROVE OkMeansCompleted
  <2>1. SUFFICES ASSUME NEW u \in Requests, NEW k \in DOMAIN req[u].results,
                        settings.enabled, req[u].results[k].ok
        PROVE  /\ req[u].results[k].key # 0 /\ inst[req[u].results[k].proc].at > req[u].results[k].key
               /\ \A v \in Requests \ {u} : \A j \in DOMAIN req[v].results :
                    ~(req[v].results[j].ok /\ req[v].results[j].key = req[u].results[k].key
                      /\ req[v].results[j].proc = req[u].results[k].proc)
    BY DEF OkMeansCompleted
  <2> DEFINE a == req[u].results[k]
  <2>2. a.key # 0
    BY <1>1, <2>1 DEF IInv, RequestsOK, Local
  <2>3. a.proc \in Processes /\ a.key \in 0 .. Ended
    <3>1. req[u].results \in Seq(Result)
      BY <1>1 DEF IInv, TypeOK, Request
    <3>2. a \in Result
      BY <2>1, <3>1
    <3> QED BY <3>2 DEF Result
  <2>4. Claims(req[u], a.proc, a.key)
    BY <2>1, <2>2 DEF Claims
  <2>5. inst[a.proc].at > a.key
    BY <1>1, <2>3, <2>4 DEF IInv, RequestsOK, Placed
  <2>6. ASSUME NEW v \in Requests \ {u}, NEW j \in DOMAIN req[v].results,
               req[v].results[j].ok, req[v].results[j].key = a.key, req[v].results[j].proc = a.proc
        PROVE  FALSE
    <3>1. Claims(req[v], a.proc, a.key)
      BY <2>2, <2>6 DEF Claims
    <3> QED BY <1>1, <2>3, <2>4, <2>6, <3>1 DEF IInv, Apart
  <2> QED BY <2>2, <2>5, <2>6
<1> QED BY <1>1, Invariance, PTL

\* complete_camunda_gateway_task: the result of a worker is never overwritten by the
\* request whose completion set the worker going.
THEOREM ResultsAreKept == Spec => WorkerResultKept
<1> DEFINE Fine == \A u \in Requests, n \in Names :
             req'[u] # req[u] /\ rec'[n].done < rec[n].done => req[u].key = 0
<1>1. ASSUME IInv, Next PROVE Fine
  <2>1. ASSUME NEW u \in Requests, SaveForm(u) \/ KeepProcess(u) PROVE Fine
    <3>1. req[u].key = 0
      BY <1>1, <2>1 DEF IInv, RequestsOK, Local, Before, SaveForm, KeepProcess
    <3>2. ASSUME NEW v \in Requests, v # u PROVE req'[v] = req[v]
      BY <1>1, <2>1, <3>2 DEF SaveForm, KeepProcess, Goto, Fail, IInv, TypeOK
    <3> QED BY <3>1, <3>2
  <2>2. ASSUME UNCHANGED rec PROVE Fine
    <3>1. \A n \in Names : rec[n].done \in Nat
      BY <1>1, SizeOfFlow DEF IInv, TypeOK, Record, Jobs, NoJob
    <3> QED BY <2>2, <3>1
  <2>3. ASSUME UNCHANGED req PROVE Fine
    BY <2>3
  <2>4. ASSUME NEW u \in Requests, Handler(u), ~SaveForm(u), ~KeepProcess(u) PROVE UNCHANGED rec
    BY <2>4 DEF Handler, StartGate, StartDisabled, StartFails, FindTask, CompleteTask, CompleteBreaks,
                ReadState, ReadVars, ReadTasks, TasksFail, ReadHistory, Answer, BatchNext, BatchDone,
                StartInstance, world
  <2>5. ASSUME NEW u \in Requests,
               \/ \E n \in Names : LoadForm(u, n)
               \/ PostStart(u) \/ PostComplete(u) \/ PostBatch(u) \/ Receive(u) \/ Dies(u)
        PROVE  UNCHANGED rec
    BY <2>5 DEF LoadForm, PostStart, PostComplete, PostBatch, Receive, Dies, world
  <2>6. ASSUME NEW i \in Instances, WorkerRuns(i) \/ Export(i) PROVE UNCHANGED req
    BY <2>6 DEF WorkerRuns, Export
  <2>7. ASSUME NEW u \in Requests, Handler(u) PROVE Fine
    BY <2>1, <2>2, <2>4, <2>7
  <2> HIDE DEF Fine
  <2> QED BY <1>1, <2>2, <2>3, <2>5, <2>6, <2>7 DEF Next
<1>2. IInv /\ [Next]_vars => [Fine]_vars
  BY <1>1
<1> QED BY <1>2, Invariance, PTL DEF Spec, WorkerResultKept
=============================================================================
