---------------------------- MODULE Subscriptions ----------------------------
(***************************************************************************)
(* The subscriptions of one application to one API: the endpoints that     *)
(* create, decide, suspend, revoke and extend a subscription               *)
(* (routers/subscriptions.py), and the background tasks that provision and *)
(* deprovision its application on the gateway (provisioning_service.py).   *)
(*                                                                         *)
(* A request reads the row and checks its status, then writes the columns  *)
(* it changed and commits.  Approvals and revocations start a task, before *)
(* the commit, that works in a database session of its own; an exception   *)
(* that leaves it there starts it again, once, on the request's session,   *)
(* which is closed by then: its commits write nothing.  The gateway is     *)
(* webMethods: every successful POST makes another application.            *)
(*                                                                         *)
(* The tenant has no webhooks.  The rate-limit policies on the gateway are *)
(* left out: neither rows nor applications depend on them.                 *)
(***************************************************************************)
EXTENDS Naturals, Sequences

CONSTANTS
    Subs,         \* subscription rows, numbered in order of creation
    Expiries,     \* the expires_at an approval may set, in days
    Slots,        \* names for the requests and tasks in memory, numbered
    MaxRequests,  \* bound: requests
    MaxFaults     \* bound: outages of gateway and database, failed commits, restarts

MAX_RETRIES == 3
MAX_TTL_EXTENSIONS == 2
MAX_TTL_TOTAL_DAYS == 60
ExtendDays == {7, 14}

ASSUME SubscriptionValues == Subs \subseteq Nat /\ Slots \subseteq Nat /\ Expiries \subseteq Nat \ {0}
ASSUME SubscriptionBounds == MaxRequests \in Nat /\ MaxFaults \in Nat

VARIABLES
    row,       \* row[s]: the subscriptions row
    req,       \* req[i]: the request in slot i, then the task it started
    owner,     \* owner[a]: the subscription that application a was made for
    apps,      \* the applications on the gateway
    deployed,  \* the API has a gateway deployment
    requests, faults,
    lost,      \* history: applications whose id did not get into the row
    granted,   \* history: granted[s], the expires_at that approvals wrote
    approved,  \* history: subscriptions for which an approval started a task
    raced,     \* history: subscriptions approved twice, or with two tasks at once
    unsaved,   \* history: subscriptions for which a commit of a task raised
    restarted  \* history: the API process restarted

gateway == <<owner, apps>>
approvals == <<granted, approved, raced>>
history == <<lost, approvals, unsaved, restarted>>
vars == <<row, req, gateway, deployed, requests, faults, history>>

Statuses == {"PENDING", "ACTIVE", "SUSPENDED", "REVOKED", "REJECTED"}
Absent == [status |-> "absent", prov |-> "NONE", app |-> 0, expires |-> 0, count |-> 0, total |-> 0]
Idle == [op |-> "none", sub |-> 0, pc |-> "idle", seen |-> Absent, arg |-> 0, app |-> 0, tries |-> 0,
         session |-> "own", spare |-> FALSE]

Init ==
    /\ row = [s \in Subs |-> Absent]
    /\ req = [i \in Slots |-> Idle]
    /\ owner = <<>> /\ apps = {}
    /\ deployed \in BOOLEAN
    /\ requests = 0 /\ faults = 0
    /\ lost = {} /\ unsaved = {}
    /\ granted = [s \in Subs |-> {}] /\ approved = {} /\ raced = {}
    /\ restarted = FALSE

Fault == faults < MaxFaults /\ faults' = faults + 1

------------------------------------------------------------------------------
(* Requests.                                                               *)

(* The statuses in which each endpoint accepts a subscription ...          *)
Accepts ==
    [approve |-> {"PENDING"}, reject |-> {"PENDING"}, cancel |-> {"PENDING", "ACTIVE"},
     revoke |-> Statuses \ {"REVOKED"}, suspend |-> {"ACTIVE"}, reactivate |-> {"SUSPENDED"},
     extend |-> {"ACTIVE"}]

(* ... and the one update_status gives it.                                 *)
Becomes ==
    [approve |-> "ACTIVE", reject |-> "REJECTED", cancel |-> "REVOKED",
     revoke |-> "REVOKED", suspend |-> "SUSPENDED", reactivate |-> "ACTIVE"]

(* A request arrives for s; only extend uses the row it read after its     *)
(* checks.                                                                 *)
Arrive(o, s, n) ==
    \E i \in Slots :
        /\ req[i] = Idle /\ \A j \in Slots : j < i => req[j] # Idle
        /\ requests < MaxRequests
        /\ requests' = requests + 1
        /\ req' = [req EXCEPT ![i] = [Idle EXCEPT !.op = o, !.sub = s, !.pc = "write", !.arg = n,
                                              !.seen = IF o = "extend" THEN row[s] ELSE Absent]]
        /\ UNCHANGED <<row, gateway, deployed, faults, history>>

(* get_by_application_and_api: a pending or active row.                    *)
Exists == \E s \in Subs : row[s].status \in {"PENDING", "ACTIVE"}

(* POST /subscriptions: the row is looked up here and inserted later, with *)
(* no unique index.                                                        *)
BeginCreate(s) ==
    /\ ~Exists
    /\ row[s] = Absent
    /\ \A i \in Slots : req[i].op = "create" => req[i].sub # s
    /\ \A t \in Subs : t < s => row[t] # Absent \/ \E i \in Slots : req[i].op = "create" /\ req[i].sub = t
    /\ Arrive("create", s, 0)

(* approve (and bulk approve), reject (and bulk reject), cancel, revoke,   *)
(* suspend, reactivate; an approval may set expires_at.                    *)
BeginStatus(o, s, e) ==
    /\ row[s].status \in Accepts[o]
    /\ e # 0 => o = "approve"
    /\ Arrive(o, s, e)

(* PATCH /ttl by d days.                                                   *)
BeginExtend(s, d) ==
    /\ row[s].status \in Accepts["extend"]
    /\ row[s].expires # 0
    /\ row[s].count < MAX_TTL_EXTENSIONS
    /\ row[s].total + d <= MAX_TTL_TOTAL_DAYS
    /\ Arrive("extend", s, d)

Goto(i, c) == req' = [req EXCEPT ![i].pc = c]
End(i) == req' = [req EXCEPT ![i] = Idle]

(* Faulty: the new expiry is stored without its days.                      *)
WrittenUncounted(q, r) ==
    CASE q.op = "extend" -> [r EXCEPT !.expires = q.seen.expires + q.arg, !.count = q.seen.count + 1]
      [] q.op = "approve" ->
            [r EXCEPT !.status = "ACTIVE", !.expires = IF q.arg = 0 THEN @ ELSE q.arg]
      [] OTHER -> [r EXCEPT !.status = Becomes[q.op]]

(* The new row as each request writes it over r: the columns it changed,   *)
(* with values computed from the row it read.                              *)
Written(q, r) ==
    CASE q.op = "extend" ->
            [r EXCEPT !.expires = q.seen.expires + q.arg, !.count = q.seen.count + 1,
                      !.total = q.seen.total + q.arg]
      [] q.op = "approve" ->
            [r EXCEPT !.status = "ACTIVE", !.expires = IF q.arg = 0 THEN @ ELSE q.arg]
      [] OTHER -> [r EXCEPT !.status = Becomes[q.op]]

Task == {"start", "mark", "resolve", "call", "record", "virtual", "policy", "delete", "gone", "fail"}

(* An approval starts a task; a revocation does if the row it refreshed    *)
(* has an application.                                                     *)
StartsTask(q) == q.op = "approve" \/ (q.op = "revoke" /\ row[q.sub].app # 0)

(* The new task meets another one, or is the second approval's.            *)
Races(i) ==
    \/ req[i].op = "approve" /\ req[i].sub \in approved
    \/ \E j \in Slots \ {i} : req[j].sub = req[i].sub /\ req[j].pc \in Task

(* The request ends and its task starts.  What the request has in memory   *)
(* is the task's spare copy, unless a rollback expired it (ok is FALSE).   *)
Commits(i, new, ok) ==
    LET q == req[i] IN
    /\ row' = [row EXCEPT ![q.sub] = new]
    /\ IF StartsTask(q)
       THEN req' = [req EXCEPT ![i].pc = "start", ![i].app = row[q.sub].app, ![i].spare = ok]
       ELSE End(i)
    /\ raced' = IF StartsTask(q) /\ Races(i) THEN raced \cup {q.sub} ELSE raced
    /\ approved' = IF q.op = "approve" THEN approved \cup {q.sub} ELSE approved
    /\ granted' = IF q.op = "approve" /\ q.arg # 0 /\ new.expires = q.arg
                  THEN [granted EXCEPT ![q.sub] = @ \cup {q.arg}] ELSE granted
    /\ UNCHANGED <<gateway, deployed, requests, lost, unsaved, restarted>>

Write(i) ==
    /\ req[i].pc = "write" /\ req[i].op # "create"
    /\ Commits(i, Written(req[i], row[req[i].sub]), TRUE)
    /\ UNCHANGED faults

(* A new row waits for approval, or its plan approves it at once.  That    *)
(* awaits provision_on_approval for ten seconds: its own session cannot    *)
(* see the row yet and returns, or it gets no connection in time.          *)
WriteCreate(i) ==
    /\ req[i].pc = "write" /\ req[i].op = "create"
    /\ \/ Commits(i, [Absent EXCEPT !.status = "PENDING"], TRUE)
       \/ \E p \in {"NONE", "FAILED"} : Commits(i, [Absent EXCEPT !.status = "ACTIVE", !.prov = p], TRUE)
    /\ UNCHANGED faults

(* Or that session fails at once, and the application is provisioned on    *)
(* the session of the request, whose first commit inserts the row.         *)
CreateProvisions(i) ==
    LET s == req[i].sub IN
    /\ req[i].pc = "write" /\ req[i].op = "create"
    /\ Fault
    /\ row' = [row EXCEPT ![s] = [Absent EXCEPT !.status = "ACTIVE", !.prov = "PROVISIONING"]]
    /\ req' = [req EXCEPT ![i].op = "approve", ![i].pc = "resolve", ![i].session = "inline"]
    /\ approved' = approved \cup {s}
    /\ UNCHANGED <<gateway, deployed, requests, granted, raced, lost, unsaved, restarted>>

(* The commit at the end of the request fails: the task runs all the same. *)
CommitFails(i) ==
    /\ req[i].pc = "write"
    /\ Fault
    /\ Commits(i, row[req[i].sub], FALSE)

------------------------------------------------------------------------------
(* The commits of a task.  Its session is its own, the closed one of its   *)
(* request ("shared"), the one of a creation in progress ("inline"), or    *)
(* one in which a COMMIT has failed ("broken") and every later one raises. *)

Writes(i) == req[i].session \in {"own", "inline"}

Record(i, prov, app) == row' = [row EXCEPT ![req[i].sub].prov = prov, ![req[i].sub].app = app]

(* The commit succeeds ...                                                 *)
Saves(i, prov, app) ==
    /\ req[i].session # "broken"
    /\ IF Writes(i) THEN Record(i, prov, app) ELSE UNCHANGED row
    /\ UNCHANGED <<faults, unsaved>>

(* ... or raises and nothing is written ...                                *)
Fails(i) ==
    /\ IF req[i].session = "broken" THEN UNCHANGED faults ELSE Fault
    /\ unsaved' = unsaved \cup {req[i].sub}
    /\ UNCHANGED row

(* ... or raises although the database has done it.                        *)
SavesUnheard(i, prov, app) ==
    /\ Writes(i) /\ Fault
    /\ unsaved' = unsaved \cup {req[i].sub}
    /\ Record(i, prov, app)

Raises(i, prov, app) == Fails(i) \/ SavesUnheard(i, prov, app)

(* The exception leaves the task: once more with the request's copy of the *)
(* row, whose status PROVISIONING or DEPROVISIONING no commit writes.      *)
Fallback(i) ==
    IF req[i].spare
    THEN req' = [req EXCEPT ![i].pc = "resolve", ![i].session = "shared", ![i].spare = FALSE,
                            ![i].tries = 0, ![i].seen = [Absent EXCEPT !.app = req[i].app]]
    ELSE End(i)

------------------------------------------------------------------------------
(* provision_on_approval and deprovision_on_revocation.                    *)

Provisions(i) == req[i].op = "approve"

(* The task reads the row in its own session; it uses the provisioning     *)
(* columns.                                                                *)
StartTask(i) ==
    LET r == row[req[i].sub] IN
    /\ req[i].pc = "start"
    /\ \/ /\ req' = [req EXCEPT ![i].pc = "mark", ![i].arg = 0,
                                ![i].seen = [Absent EXCEPT !.prov = r.prov, !.app = r.app]]
          /\ UNCHANGED faults
       \/ Fault /\ Fallback(i)
    /\ UNCHANGED <<row, gateway, deployed, requests, history>>

(* Sets PROVISIONING or DEPROVISIONING; no UPDATE goes out if the copy     *)
(* says so already.                                                        *)
MarkTask(i) ==
    LET r == row[req[i].sub]
        p == IF Provisions(i) THEN "PROVISIONING" ELSE "DEPROVISIONING"
        q == IF req[i].seen.prov = p THEN r.prov ELSE p
    IN  /\ req[i].pc = "mark"
        /\ \/ Saves(i, q, r.app) /\ Goto(i, "resolve")
           \/ Raises(i, q, r.app) /\ Fallback(i)
        /\ UNCHANGED <<gateway, deployed, requests, lost, approvals, restarted>>

(* Faulty: an error in _resolve_adapter ends the task without a status.    *)
ResolveSilently(i) ==
    /\ req[i].pc = "resolve"
    /\ \/ /\ deployed
          /\ Goto(i, IF Provisions(i) THEN "call" ELSE "delete")
          /\ UNCHANGED faults
       \/ /\ deployed /\ Fault
          /\ End(i)
    /\ UNCHANGED <<row, gateway, deployed, requests, history>>

(* _resolve_adapter: the gateway of the deployment, None without one and   *)
(* also after an unexpected error, or a credential error.                  *)
Resolve(i) ==
    /\ req[i].pc = "resolve"
    /\ \/ /\ deployed
          /\ Goto(i, IF Provisions(i) THEN "call" ELSE "delete")
          /\ UNCHANGED faults
       \/ /\ IF deployed THEN Fault ELSE UNCHANGED faults
          /\ Goto(i, IF Provisions(i) THEN "virtual" ELSE "fail")
       \/ /\ deployed /\ Fault
          /\ Goto(i, "fail")
    /\ UNCHANGED <<row, gateway, deployed, requests, history>>

(* An outage may last for the rest of a task's attempts.                   *)
Outage(i) == IF req[i].tries = 0 THEN Fault ELSE UNCHANGED faults

(* Faulty: one attempt too many.                                           *)
RetryOnceMore(i, q, c) ==
    req' = [req EXCEPT ![i] = [q EXCEPT !.tries = q.tries + 1,
                                        !.pc = IF q.tries + 1 <= MAX_RETRIES THEN c ELSE "fail"]]

(* The attempt raised and left the task as q: again from c, until          *)
(* MAX_RETRIES attempts.                                                   *)
Retry(i, q, c) ==
    req' = [req EXCEPT ![i] = [q EXCEPT !.tries = q.tries + 1,
                                        !.pc = IF q.tries + 1 < MAX_RETRIES THEN c ELSE "fail"]]

(* provision_application.  The adapter looks for an application under its  *)
(* plain name, but those it makes are called stoa-<tenant>-<name>-<sub>:   *)
(* it finds none and makes another.  Making one or associating it with the *)
(* API may fail; when the reply is lost, or the clean-up after a failed    *)
(* association fails too, the application stays.                           *)
CallProvision(i) ==
    LET a == Len(owner) + 1 IN
    /\ req[i].pc = "call"
    /\ \/ /\ owner' = Append(owner, req[i].sub) /\ apps' = apps \cup {a}
          /\ req' = [req EXCEPT ![i].pc = "record", ![i].app = a]
          /\ lost' = IF Writes(i) THEN lost ELSE lost \cup {a}
          /\ UNCHANGED faults
       \/ /\ Outage(i)
          /\ owner' = Append(owner, req[i].sub) /\ apps' = apps \cup {a}
          /\ lost' = lost \cup {a}
          /\ Retry(i, req[i], "call")
       \/ /\ Outage(i)
          /\ Retry(i, req[i], "call")
          /\ UNCHANGED <<owner, apps, lost>>
    /\ UNCHANGED <<row, deployed, requests, approvals, unsaved, restarted>>

Broken(q) == [q EXCEPT !.session = "broken"]

(* Faulty: gateway_app_id is not stored.                                   *)
RecordReadyOnly(i) ==
    /\ req[i].pc = "record"
    /\ Saves(i, "READY", row[req[i].sub].app) /\ Goto(i, "policy")
    /\ UNCHANGED <<gateway, deployed, requests, lost, approvals, restarted>>

(* READY and gateway_app_id.  The commit is part of the attempt.  If the   *)
(* UPDATE raises, the rollback expires the row and the handler of the      *)
(* exception raises as well; if the COMMIT does, the call is repeated.     *)
RecordReady(i) ==
    LET a == req[i].app IN
    /\ req[i].pc = "record"
    /\ \/ Saves(i, "READY", a) /\ Goto(i, "policy") /\ UNCHANGED lost
       \/ /\ Fails(i) /\ lost' = lost \cup {a}
          /\ (Writes(i) /\ Fallback(i)) \/ Retry(i, Broken(req[i]), "call")
       \/ SavesUnheard(i, "READY", a) /\ Retry(i, Broken(req[i]), "call") /\ UNCHANGED lost
    /\ UNCHANGED <<gateway, deployed, requests, approvals, restarted>>

(* _push_rate_limit_policy; a failure is logged.                           *)
PushPolicy(i) ==
    /\ req[i].pc = "policy"
    /\ End(i)
    /\ UNCHANGED <<row, gateway, deployed, requests, faults, history>>

(* The ten seconds of a creation are over; the database may still be away. *)
TimeOut(i) ==
    LET q == req[i] IN
    /\ q.session = "inline"
    /\ \/ Saves(i, "FAILED", row[q.sub].app)
       \/ unsaved' = unsaved \cup {q.sub} /\ UNCHANGED <<row, faults>>
    /\ End(i)
    /\ lost' = IF q.pc = "record" THEN lost \cup {q.app} ELSE lost
    /\ UNCHANGED <<gateway, deployed, requests, approvals, restarted>>

(* Faulty: a call that raised counts as done.                              *)
CallDeprovisionUnchecked(i) ==
    LET a == req[i].seen.app IN
    /\ req[i].pc = "delete"
    /\ \/ a \in apps /\ apps' = apps \ {a} /\ Goto(i, "gone") /\ UNCHANGED faults
       \/ a \in apps /\ Outage(i) /\ apps' \in {apps, apps \ {a}} /\ Goto(i, "gone")
       \/ a \notin apps /\ Retry(i, req[i], "delete") /\ UNCHANGED <<apps, faults>>
    /\ UNCHANGED <<row, owner, deployed, requests, history>>

(* _cleanup_rate_limit_policy asks for an id that no policy has, and logs  *)
(* the 404; then deprovision_application of the application in the copy.   *)
(* One that is gone already, or no id, is an error.                        *)
CallDeprovision(i) ==
    LET a == req[i].seen.app IN
    /\ req[i].pc = "delete"
    /\ \/ a \in apps /\ apps' = apps \ {a} /\ Goto(i, "gone") /\ UNCHANGED faults
       \/ a \in apps /\ Outage(i) /\ apps' \in {apps, apps \ {a}} /\ Retry(i, req[i], "delete")
       \/ a \notin apps /\ Retry(i, req[i], "delete") /\ UNCHANGED <<apps, faults>>
    /\ UNCHANGED <<row, owner, deployed, requests, history>>

(* As RecordReady; the attempts after a failed COMMIT have no id any more. *)
RecordGone(i) ==
    /\ req[i].pc = "gone"
    /\ \/ Saves(i, "DEPROVISIONED", 0) /\ End(i)
       \/ Writes(i) /\ Fails(i) /\ Fallback(i)
       \/ /\ Raises(i, "DEPROVISIONED", 0)
          /\ Retry(i, [Broken(req[i]) EXCEPT !.seen.app = 0], "delete")
    /\ UNCHANGED <<gateway, deployed, requests, lost, approvals, restarted>>

(* All attempts failed, or there is no gateway to call.                    *)
GiveUp(i) ==
    LET app == row[req[i].sub].app
        p == CASE req[i].pc = "virtual" -> "READY"
               [] Provisions(i) -> "FAILED"
               [] OTHER -> "DEPROVISIONING_FAILED"
    IN  /\ req[i].pc \in {"virtual", "fail"}
        /\ \/ Saves(i, p, app) /\ End(i)
           \/ Raises(i, p, app) /\ Fallback(i)
        /\ UNCHANGED <<gateway, deployed, requests, lost, approvals, restarted>>

------------------------------------------------------------------------------
(* The API process restarts: its requests and tasks end where they are.    *)
Restart ==
    /\ Fault
    /\ req' = [i \in Slots |-> Idle]
    /\ lost' = lost \cup {req[i].app : i \in {j \in Slots : req[j].pc = "record"}}
    /\ restarted' = TRUE
    /\ UNCHANGED <<row, gateway, deployed, requests, approvals, unsaved>>

(* The code of request i and of its task.                                  *)
Step(i) ==
    \/ Write(i) \/ WriteCreate(i)
    \/ StartTask(i) \/ MarkTask(i) \/ Resolve(i)
    \/ CallProvision(i) \/ RecordReady(i) \/ PushPolicy(i)
    \/ CallDeprovision(i) \/ RecordGone(i) \/ GiveUp(i)

Next ==
    \/ \E s \in Subs :
        \/ BeginCreate(s)
        \/ \E o \in DOMAIN Becomes, e \in Expiries \cup {0} : BeginStatus(o, s, e)
        \/ \E d \in ExtendDays : BeginExtend(s, d)
    \/ \E i \in Slots : Step(i) \/ CommitFails(i) \/ CreateProvisions(i) \/ TimeOut(i)
    \/ Restart

Spec == Init /\ [][Next]_vars

(* Once in memory a request or task goes on: calls time out and the waits  *)
(* between attempts are RETRY_DELAYS.                                      *)
LiveSpec == Spec /\ \A i \in Slots : WF_vars(Step(i))

------------------------------------------------------------------------------
Rows == [status : Statuses \cup {"absent"},
         prov : {"NONE", "PROVISIONING", "READY", "FAILED", "DEPROVISIONING",
                 "DEPROVISIONING_FAILED", "DEPROVISIONED"},
         app : Nat, expires : Nat, count : 0..MAX_TTL_EXTENSIONS, total : 0..MAX_TTL_TOTAL_DAYS]
Requests == [op : DOMAIN Becomes \cup {"none", "create", "extend"}, sub : Subs \cup {0},
             pc : Task \cup {"write", "idle"}, seen : Rows, arg : Nat, app : Nat,
             tries : 0..MAX_RETRIES, session : {"own", "shared", "inline", "broken"}, spare : BOOLEAN]

(* The variables have their types.  The columns of the TTL hold the limits *)
(* of extend_subscription_ttl, also with overlapping extensions.           *)
TypeOK ==
    /\ row \in [Subs -> Rows]
    /\ req \in [Slots -> Requests]
    /\ owner \in Seq(Subs) /\ apps \subseteq DOMAIN owner
    /\ deployed \in BOOLEAN
    /\ requests \in 0..MaxRequests /\ faults \in 0..MaxFaults
    /\ lost \subseteq DOMAIN owner
    /\ granted \in [Subs -> SUBSET Nat]
    /\ approved \subseteq Subs /\ raced \subseteq Subs /\ unsaved \subseteq Subs
    /\ restarted \in BOOLEAN

(* No subscription outlives what was granted: its expiry is at most an     *)
(* expires_at that an approval set plus the extended days on record,       *)
(* whatever extensions and approvals overlap (extend_subscription_ttl      *)
(* writes all three columns from one read).                                *)
ExtensionsCounted ==
    \A s \in Subs :
        row[s].expires # 0 => \E e \in granted[s] : row[s].expires <= e + row[s].total

Holds(i, a) == req[i].pc = "record" /\ req[i].app = a

(* Every application on the gateway is the one its subscription records,   *)
(* or a task is about to record it: with one approval and no two tasks at  *)
(* once, no step forgets an id that is in the row, and only an id whose    *)
(* commit failed or was never tried is missing there (gateway_app_id in    *)
(* _provision_with_session and _deprovision_with_session).                 *)
AppsOnRecord ==
    \A a \in apps \ lost :
        owner[a] \in raced \/ row[owner[a]].app = a \/ \E i \in Slots : Holds(i, a)

(* DEPROVISIONED is true: no application whose id the row ever had is left *)
(* on the gateway, also after retries, failed commits and a second run of  *)
(* the task (_deprovision_with_session).                                   *)
DeprovisionedIsGone ==
    \A s \in Subs \ raced :
        row[s].prov = "DEPROVISIONED" => \A a \in apps : owner[a] = s => a \in lost

(* PROVISIONING and DEPROVISIONING end, in success or in failure, unless   *)
(* the process stops or a commit of a task raises: whatever else fails,    *)
(* each task writes a final status.                                        *)
ProvisioningEnds ==
    \A s \in Subs :
        row[s].prov \in {"PROVISIONING", "DEPROVISIONING"} ~>
            \/ row[s].prov \notin {"PROVISIONING", "DEPROVISIONING"}
            \/ restarted \/ s \in unsaved
==============================================================================
