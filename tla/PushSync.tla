------------------------------- MODULE PushSync -------------------------------
(***************************************************************************)
(* A deployment on a gateway the control plane pushes to.  API requests    *)
(* change the desired state and publish a Kafka event; the sync engine     *)
(* (workers/sync_engine.py) reconciles the row from those events and from  *)
(* its periodic loop, with reconcile tasks that run concurrently on the    *)
(* same row, and its drift detection compares the gateway with the row.    *)
(*                                                                         *)
(* Every database read, adapter call and commit is a step of its own: the  *)
(* code awaits each of them.  Writers do not compare the row with what     *)
(* they read (see Flush in DeploymentRow).                                 *)
(***************************************************************************)
EXTENDS DeploymentRow

CONSTANTS
    Requests,       \* slots for concurrent API requests
    KafkaTasks,     \* reconcile tasks started from Kafka events
    Periodic,       \* the reconcile task of the periodic loop
    NoSpec,         \* the gateway has no such API
    Outages,        \* the values gateway.status can take besides online
    MaxAttempts,    \* bound: sync_attempts at which adapter calls stop failing
    MaxCrashes,     \* bound: restarts of the engine process
    MaxTampering    \* bound: changes made on the gateway by others

ASSUME PushAssumption == NoSpec \notin Specs /\ Periodic \notin KafkaTasks
                         /\ Outages \subseteq {"offline", "deleted"}
ASSUME PushBoundsAssumption == MaxAttempts \in Nat /\ MaxCrashes \in Nat /\ MaxTampering \in Nat

VARIABLES
    row,       \* the deployment
    req,       \* req[r]: the API request in slot r
    reqs,      \* API requests started
    kafka,     \* kafka[i]: undelivered gateway-sync-requests for row i
    task,      \* task[t]: a run of _reconcile_one
    loop,      \* the periodic loop
    gateway,   \* the gateway instance as registered: online, offline, deleted
    gw,        \* the API definition on the gateway
    pushed,    \* history: the <<id, generation>> pairs whose push a task saw accepted
    crashes, tampering

vars == <<row, req, reqs, kafka, task, loop, gateway, gw, pushed, crashes, tampering>>

Tasks == KafkaTasks \cup {Periodic}
Ids == 0 .. MaxRequests
Idle == [pc |-> "idle"]

Init ==
    /\ row \in {Deleted(Created(0, s)) : s \in Specs}
    /\ req = [r \in Requests |-> Idle]
    /\ reqs = 0
    /\ kafka = [i \in Ids |-> 0]
    /\ task = [t \in Tasks |-> Idle]
    /\ loop = Idle
    /\ gateway = "online"
    /\ gw = NoSpec
    /\ pushed = {}
    /\ crashes = 0
    /\ tampering = 0

(* A request that has flushed and not committed holds the row lock: other  *)
(* writers wait for it, readers see the row as it was.                     *)
Locked == \E r \in Requests : req[r].pc = "flushed"

------------------------------------------------------------------------------
(* API requests: read; flush and publish to Kafka; commit.  Kafka is told  *)
(* before the commit.  In legacy mode deploy_api_to_env also pushes to the *)
(* gateway (_try_inline_sync) inside the same transaction.                 *)

BeginRequest(r, op) ==
    /\ req[r] = Idle
    /\ reqs < MaxRequests
    /\ Accepts(op, row)
    /\ req' = [req EXCEPT ![r] = [pc |-> "read", op |-> op, row |-> row]]
    /\ reqs' = reqs + 1
    /\ UNCHANGED <<row, kafka, task, loop, gateway, gw, pushed, crashes, tampering>>

FlushRequest(r) ==
    /\ req[r].pc = "read"
    /\ ~Locked
    /\ LET op == req[r].op
           read == req[r].row
           new == Written(op, read, row)
       IN /\ CanWrite(op, read, row)
          /\ req' = [req EXCEPT ![r] = [pc |-> "flushed", op |-> op, row |-> new]]
          /\ \/ /\ is_sync_engine_enabled
                /\ op.name # "lifecycle" /\ Notifies(op, read)
                /\ kafka' = [kafka EXCEPT ![new.id] = @ + 1]
             \/ kafka' = kafka        \* nothing to publish, or the publish failed
    /\ UNCHANGED <<row, reqs, task, loop, gateway, gw, pushed, crashes, tampering>>

(* _try_inline_sync on the flushed row, with the lock held: no connection, *)
(* accepted, refused, or raised by sync_api with the gateway changed or not. *)
InlineResults == {"unconnected", "accepted", "refused", "raised"}

InlineSynced(dep, res) ==
    LET tried == [dep EXCEPT !.attemptAt = "recent"]
    IN CASE res = "unconnected" -> [dep EXCEPT !.status = "PENDING", !.attempts = @ + 1]
         [] res = "raised" -> [tried EXCEPT !.status = "PENDING", !.attempts = @ + 1]
         [] res = "refused" -> [tried EXCEPT !.status = "ERROR", !.attempts = @ + 1]
         [] res = "accepted" -> [tried EXCEPT !.status = "SYNCED", !.resource = TRUE, !.success = TRUE]

InlineSync(r, res) ==
    /\ is_inline_sync_enabled
    /\ req[r].pc = "flushed"
    /\ req[r].op.name = "deploy_api"
    /\ gateway = "online"
    /\ req' = [req EXCEPT ![r] = [pc |-> "flushed", op |-> [name |-> "inline_synced"],
                                 row |-> InlineSynced(@.row, res)]]
    /\ gw' \in (IF res # "accepted" THEN {gw} ELSE {})
                 \cup (IF res \in {"accepted", "raised"} THEN {req[r].row.spec} ELSE {})
    /\ UNCHANGED <<row, reqs, kafka, task, loop, gateway, pushed, crashes, tampering>>

CommitRequest(r) ==
    /\ req[r].pc = "flushed"
    /\ row' = req[r].row
    /\ req' = [req EXCEPT ![r] = Idle]
    /\ UNCHANGED <<reqs, kafka, task, loop, gateway, gw, pushed, crashes, tampering>>

(* get_db rolls back: the flush failed, or the request did later on. *)
RollbackRequest(r) ==
    /\ req[r].pc \in {"read", "flushed"}
    /\ req' = [req EXCEPT ![r] = Idle]
    /\ UNCHANGED <<row, reqs, kafka, task, loop, gateway, gw, pushed, crashes, tampering>>

------------------------------------------------------------------------------
(* SyncEngine._reconcile_one. *)

(* The generation check (CAB-1950). *)
AlreadyAttempted(r) == r.attempted >= r.desired /\ r.status # "ERROR"

(* The task after its reads: the row, the gateway, the two early returns. *)
Started(i) ==
    IF ~Exists(row) \/ row.id # i THEN Idle
    ELSE IF gateway = "deleted" THEN [pc |-> "nogateway", read |-> row]
    ELSE IF AlreadyAttempted(row) \/ gateway = "offline" THEN Idle
    ELSE [pc |-> "connect", read |-> row]

(* _handle_sync_event. *)
DeliverKafka(t, i) ==
    /\ task[t] = Idle
    /\ kafka[i] > 0
    /\ kafka' = [kafka EXCEPT ![i] = @ - 1]
    /\ task' = [task EXCEPT ![t] = Started(i)]
    /\ UNCHANGED <<row, req, reqs, loop, gateway, gw, pushed, crashes, tampering>>

(* A flush of the task's session onto the row; without the row it raises   *)
(* and nothing is written.                                                 *)
TaskFlush(t, new) ==
    /\ ~Locked
    /\ row' = IF SameRow(row, task[t].read) THEN Flush(row, task[t].read, new) ELSE row

Finish(t) == task' = [task EXCEPT ![t] = Idle]
GoTo(t, pc) == task' = [task EXCEPT ![t].pc = pc]

(* Adapter calls fail as they like up to the bound: deletions have no      *)
(* retry limit of their own.                                               *)
MayFail(t) == task[t].read.attempts < MaxAttempts

(* The gateway instance was removed: ERROR, whatever the status was. *)
FailNoGateway(t) ==
    /\ task[t].pc = "nogateway"
    /\ TaskFlush(t, [task[t].read EXCEPT !.status = "ERROR"])
    /\ Finish(t)
    /\ UNCHANGED <<req, reqs, kafka, loop, gateway, gw, pushed, crashes, tampering>>

ConnectFails(t) ==
    /\ task[t].pc = "connect"
    /\ MayFail(t)
    /\ GoTo(t, "raised")
    /\ UNCHANGED <<row, req, reqs, kafka, loop, gateway, gw, pushed, crashes, tampering>>

ConnectForDelete(t) ==
    /\ task[t].pc = "connect"
    /\ task[t].read.status = "DELETING"
    /\ GoTo(t, "delete")
    /\ UNCHANGED <<row, req, reqs, kafka, loop, gateway, gw, pushed, crashes, tampering>>

(* No branch of _reconcile_one handles SYNCING or SYNCED. *)
ConnectForNothing(t) ==
    /\ task[t].pc = "connect"
    /\ task[t].read.status \in {"SYNCING", "SYNCED"}
    /\ Finish(t)
    /\ UNCHANGED <<row, req, reqs, kafka, loop, gateway, gw, pushed, crashes, tampering>>

(* _handle_sync: mark SYNCING and commit.  update() refreshes the session, *)
(* so the task goes on with the row as it is now.                          *)
MarkSyncing(t) ==
    /\ task[t].pc = "connect"
    /\ task[t].read.status \in {"PENDING", "DRIFTED", "ERROR"}
    /\ TaskFlush(t, [task[t].read EXCEPT !.status = "SYNCING", !.attemptAt = "now"])
    /\ task' = [task EXCEPT ![t] = IF SameRow(row, @.read) THEN [pc |-> "sync", read |-> row'] ELSE Idle]
    /\ UNCHANGED <<req, reqs, kafka, loop, gateway, gw, pushed, crashes, tampering>>

(* adapter.sync_api(desired_state): accepted, refused, or raised with the  *)
(* gateway changed or not.                                                 *)
CallSync(t) ==
    /\ task[t].pc = "sync"
    /\ \/ /\ GoTo(t, "accepted")
          /\ gw' = task[t].read.spec
          /\ pushed' = pushed \cup {<<task[t].read.id, task[t].read.desired>>}
       \/ MayFail(t) /\ GoTo(t, "refused") /\ UNCHANGED <<gw, pushed>>
       \/ MayFail(t) /\ GoTo(t, "raised") /\ gw' \in {gw, task[t].read.spec} /\ UNCHANGED pushed
    /\ UNCHANGED <<row, req, reqs, kafka, loop, gateway, crashes, tampering>>

Synced(r) ==
    [r EXCEPT !.status = "SYNCED", !.attempted = r.desired, !.synced = r.desired,
              !.resource = TRUE, !.success = TRUE]

(* Faulty: the result is recorded for what is desired by now. *)
RecordSyncedOfCurrentRow(t) ==
    /\ task[t].pc = "accepted"
    /\ ~Locked
    /\ row' = IF SameRow(row, task[t].read) THEN Synced(row) ELSE row
    /\ Finish(t)
    /\ UNCHANGED <<req, reqs, kafka, loop, gateway, gw, pushed, crashes, tampering>>

RecordSynced(t) ==
    /\ task[t].pc = "accepted"
    /\ TaskFlush(t, Synced(task[t].read))
    /\ Finish(t)
    /\ UNCHANGED <<req, reqs, kafka, loop, gateway, gw, pushed, crashes, tampering>>

(* Faulty: a refused push is not counted. *)
RecordRefusedUncounted(t) ==
    /\ task[t].pc = "refused"
    /\ TaskFlush(t, [task[t].read EXCEPT !.status = "ERROR", !.attempted = task[t].read.desired])
    /\ Finish(t)
    /\ UNCHANGED <<req, reqs, kafka, loop, gateway, gw, pushed, crashes, tampering>>

RecordRefused(t) ==
    /\ task[t].pc = "refused"
    /\ TaskFlush(t, [task[t].read EXCEPT !.status = "ERROR", !.attempted = task[t].read.desired,
                                         !.attempts = @ + 1])
    /\ Finish(t)
    /\ UNCHANGED <<req, reqs, kafka, loop, gateway, gw, pushed, crashes, tampering>>

(* The except branch of _reconcile_one, for syncs and deletions alike. *)
RecordRaised(t) ==
    /\ task[t].pc = "raised"
    /\ TaskFlush(t, [task[t].read EXCEPT !.status = "ERROR", !.attempts = @ + 1, !.attemptAt = "now"])
    /\ Finish(t)
    /\ UNCHANGED <<req, reqs, kafka, loop, gateway, gw, pushed, crashes, tampering>>

(* _handle_delete. *)
CallDelete(t) ==
    /\ task[t].pc = "delete"
    /\ \/ GoTo(t, "removed") /\ gw' = NoSpec
       \/ MayFail(t) /\ GoTo(t, "notremoved") /\ gw' = gw
       \/ MayFail(t) /\ GoTo(t, "raised") /\ gw' \in {gw, NoSpec}
    /\ UNCHANGED <<row, req, reqs, kafka, loop, gateway, pushed, crashes, tampering>>

(* DELETE by primary key, whatever the row has become. *)
RecordRemoved(t) ==
    /\ task[t].pc = "removed"
    /\ ~Locked
    /\ row' = IF SameRow(row, task[t].read) THEN Deleted(row) ELSE row
    /\ Finish(t)
    /\ UNCHANGED <<req, reqs, kafka, loop, gateway, gw, pushed, crashes, tampering>>

RecordNotRemoved(t) ==
    /\ task[t].pc = "notremoved"
    /\ TaskFlush(t, [task[t].read EXCEPT !.attempts = @ + 1, !.attemptAt = "now"])
    /\ Finish(t)
    /\ UNCHANGED <<req, reqs, kafka, loop, gateway, gw, pushed, crashes, tampering>>

------------------------------------------------------------------------------
(* SyncEngine._periodic_loop: _reconcile_all, then _detect_drift. *)

Actionable(r) == r.status \in {"PENDING", "SYNCING", "DRIFTED", "ERROR", "DELETING"}
(* Faulty: a row left SYNCING is not timed out. *)
ExpiredIfPending(r) == r.status = "PENDING" /\ Overdue(r)

Expired(r) == r.status \in {"PENDING", "SYNCING"} /\ Overdue(r)
Exhausted(r) == r.status = "ERROR" /\ r.attempts >= RetryMax

ListActionable ==
    /\ is_sync_engine_enabled
    /\ loop = Idle
    /\ loop' \in
         IF ~Actionable(row) \/ Exhausted(row) THEN {[pc |-> "drift"]}
         ELSE IF Expired(row) THEN {[pc |-> "expire", read |-> row]}
         ELSE {[pc |-> "dispatch", id |-> row.id]}
                  \cup IF row.status = "SYNCING" THEN {[pc |-> "drift"]}  \* still fresh
                                                ELSE {}
    /\ UNCHANGED <<row, req, reqs, kafka, task, gateway, gw, pushed, crashes, tampering>>

ExpirePending ==
    /\ loop.pc = "expire"
    /\ ~Locked
    /\ row' = IF SameRow(row, loop.read) THEN Flush(row, loop.read, TimedOut(loop.read)) ELSE row
    /\ loop' = IF SameRow(row, loop.read) THEN [pc |-> "drift"] ELSE Idle   \* StaleDataError
    /\ UNCHANGED <<req, reqs, kafka, task, gateway, gw, pushed, crashes, tampering>>

Dispatch ==
    /\ loop.pc = "dispatch"
    /\ task' = [task EXCEPT ![Periodic] = Started(loop.id)]
    /\ loop' = [pc |-> "gather"]
    /\ UNCHANGED <<row, req, reqs, kafka, gateway, gw, pushed, crashes, tampering>>

Gather ==
    /\ loop.pc = "gather"
    /\ task[Periodic] = Idle
    /\ loop' = [pc |-> "drift"]
    /\ UNCHANGED <<row, req, reqs, kafka, task, gateway, gw, pushed, crashes, tampering>>

(* list_synced, then the gateway and its status. *)
ListSynced ==
    /\ loop.pc = "drift"
    /\ loop' = IF row.status = "SYNCED" /\ row.resource /\ gateway = "online"
               THEN [pc |-> "compare", read |-> row]
               ELSE Idle
    /\ UNCHANGED <<row, req, reqs, kafka, task, gateway, gw, pushed, crashes, tampering>>

(* adapter.list_apis; a missing API is excused within the grace period,    *)
(* and a failing adapter ends the pass.                                    *)
CompareWithGateway ==
    /\ loop.pc = "compare"
    /\ loop' \in (IF gw # loop.read.spec THEN {[pc |-> "drifted", read |-> loop.read]} ELSE {})
                    \cup {Idle}
    /\ UNCHANGED <<row, req, reqs, kafka, task, gateway, gw, pushed, crashes, tampering>>

RecordDrift ==
    /\ loop.pc = "drifted"
    /\ ~Locked
    /\ row' = IF SameRow(row, loop.read)
              THEN Flush(row, loop.read, [loop.read EXCEPT !.status = "DRIFTED"])
              ELSE row
    /\ loop' = Idle
    /\ UNCHANGED <<req, reqs, kafka, task, gateway, gw, pushed, crashes, tampering>>

------------------------------------------------------------------------------
(* The environment: the pending timeout elapses, the gateway's registered  *)
(* status changes, someone edits the API on the gateway, the engine        *)
(* process restarts.                                                       *)

Elapse ==
    /\ Exists(row)
    /\ ~Locked
    /\ row' = Aged(row)
    /\ UNCHANGED <<req, reqs, kafka, task, loop, gateway, gw, pushed, crashes, tampering>>

SetGateway(s) ==
    /\ gateway' = s
    /\ UNCHANGED <<row, req, reqs, kafka, task, loop, gw, pushed, crashes, tampering>>

Tamper(s) ==
    /\ tampering < MaxTampering
    /\ tampering' = tampering + 1
    /\ gw' = s
    /\ UNCHANGED <<row, req, reqs, kafka, task, loop, gateway, pushed, crashes>>

Crash ==
    /\ crashes < MaxCrashes
    /\ crashes' = crashes + 1
    /\ task' = [t \in Tasks |-> Idle]
    /\ loop' = Idle
    /\ UNCHANGED <<row, req, reqs, kafka, gateway, gw, pushed, tampering>>

------------------------------------------------------------------------------
RequestStep(r) ==
    \/ \E op \in Operations : BeginRequest(r, op)
    \/ FlushRequest(r) \/ CommitRequest(r) \/ RollbackRequest(r)
    \/ \E res \in InlineResults : InlineSync(r, res)

TaskStep(t) ==
    \/ FailNoGateway(t) \/ ConnectFails(t) \/ ConnectForDelete(t) \/ ConnectForNothing(t)
    \/ MarkSyncing(t) \/ CallSync(t) \/ RecordSynced(t) \/ RecordRefused(t) \/ RecordRaised(t)
    \/ CallDelete(t) \/ RecordRemoved(t) \/ RecordNotRemoved(t)

LoopStep ==
    \/ ListActionable \/ ExpirePending \/ Dispatch \/ Gather
    \/ ListSynced \/ CompareWithGateway \/ RecordDrift

Next ==
    \/ \E r \in Requests : RequestStep(r)
    \/ \E t \in KafkaTasks, i \in Ids : DeliverKafka(t, i)
    \/ \E t \in Tasks : TaskStep(t)
    \/ LoopStep
    \/ Elapse \/ Crash
    \/ \E s \in {"online"} \cup Outages : SetGateway(s)
    \/ \E s \in Specs \cup {NoSpec} : Tamper(s)

Spec == Init /\ [][Next]_vars

(* Requests end; adapter calls return (they have timeouts), so tasks go    *)
(* on; the loop runs for ever, and time passes.                            *)
Fairness ==
    /\ \A r \in Requests : WF_vars(FlushRequest(r) \/ CommitRequest(r) \/ RollbackRequest(r))
    /\ \A t \in Tasks : WF_vars(TaskStep(t))
    /\ WF_vars(LoopStep)
    /\ WF_vars(Elapse)

LiveSpec == Spec /\ Fairness

------------------------------------------------------------------------------
RequestState ==
    [pc : {"read"}, op : Operations, row : GatewayDeployment]
        \cup [pc : {"flushed"}, op : Operations \cup [name : {"inline_synced"}],
              row : GatewayDeployment]
TaskState ==
    [pc : {"nogateway", "connect", "sync", "accepted", "refused", "raised",
           "delete", "removed", "notremoved"},
     read : GatewayDeployment]
LoopState ==
    [pc : {"idle", "drift", "gather"}]
        \cup [pc : {"dispatch"}, id : Nat]
        \cup [pc : {"expire", "compare", "drifted"}, read : GatewayDeployment]

(* Every variable has the shape its comment gives. *)
TypeOK ==
    /\ row \in GatewayDeployment
    /\ req \in [Requests -> {Idle} \cup RequestState]
    /\ reqs \in 0 .. MaxRequests
    /\ kafka \in [Ids -> Nat]
    /\ task \in [Tasks -> {Idle} \cup TaskState]
    /\ loop \in LoopState
    /\ gateway \in {"online"} \cup Outages
    /\ gw \in Specs \cup {NoSpec}
    /\ pushed \subseteq Nat \X Nat
    /\ crashes \in 0 .. MaxCrashes
    /\ tampering \in 0 .. MaxTampering

(* No reconcile task, however late it writes what it read before its       *)
(* adapter call, records a generation that the row has not reached.        *)
GenerationsWithinDesired ==
    row.attempted <= row.desired /\ row.synced <= row.desired

(* synced_generation is a generation whose desired state sync_api accepted *)
(* for this row, not one that was asked for while the call was under way.  *)
SyncedWasPushed ==
    row.synced = 0 \/ <<row.id, row.synced>> \in pushed

(* Why the two properties above hold, in parts.  A request in flight read  *)
(* the generation it will bump, and what it has flushed is a successor of  *)
(* the row; a task may be late, but not ahead.                             *)
RequestsAgree ==
    \A r \in Requests :
        LET copy == req[r].row
        IN /\ req[r].pc = "read" =>
                /\ copy.id <= row.id
                /\ SameRow(row, copy) => copy.desired = row.desired
           /\ req[r].pc = "flushed" =>
                /\ copy.attempted <= copy.desired /\ copy.synced <= copy.desired
                /\ copy.synced = 0 \/ <<copy.id, copy.synced>> \in pushed
                /\ req[r].op.name = "deploy_api" => Exists(copy)
                /\ copy.id >= row.id
                /\ copy.id = row.id /\ Exists(copy)
                      => Exists(row) /\ copy.desired >= row.desired
TasksAgree ==
    \A t \in Tasks : task[t] # Idle =>
        LET read == task[t].read
        IN /\ read.id <= row.id
           /\ SameRow(row, read) => read.desired <= row.desired
           /\ task[t].pc = "accepted" => <<read.id, read.desired>> \in pushed

(* With one API request at a time, the generations in the row, in the      *)
(* transactions and in any number of reconcile tasks fit together.         *)
PushInvariant ==
    GenerationsWithinDesired /\ SyncedWasPushed /\ RequestsAgree /\ TasksAgree

(* With one reconcile task at a time, a row whose desired generation is    *)
(* recorded as synced has that desired state on the gateway, unless        *)
(* someone changed it there.                                               *)
SyncedGenerationIsLive ==
    Exists(row) /\ row.synced = row.desired /\ tampering = 0 => gw = row.spec

(* "Fail old PENDING/SYNCING records explicitly instead of leaving them as *)
(* an ambiguous in-progress state forever" (_reconcile_all), also when the *)
(* engine dies between marking a row SYNCING and recording the result.     *)
InProgress == row.status \in {"PENDING", "SYNCING"}
NotInProgressForever == InProgress ~> ~InProgress

(* The engine gives up: with a bounded number of requests it does not push *)
(* the same deployment for ever, whatever the gateway answers.             *)
PushesStop == <>[](\A t \in Tasks : task[t].pc # "sync")
==============================================================================

