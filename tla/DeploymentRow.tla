---------------------------- MODULE DeploymentRow ----------------------------
(***************************************************************************)
(* One row of the table gateway_deployments: the deployment of one API on  *)
(* one gateway (models/gateway_deployment.py), and what the operations of  *)
(* the control plane want to write into it.  The modules PushSync and      *)
(* AgentSync turn these values into steps of concurrent actors.            *)
(*                                                                         *)
(* Every writer of the row except the route-sync-ack handler works the     *)
(* SQLAlchemy way: it reads the row into its session, changes attributes   *)
(* of its copy, possibly awaits something else, and flushes.  A flush is   *)
(* an UPDATE by primary key of exactly the attributes whose value differs  *)
(* from the value read: there is no version column.  Flush models that.    *)
(***************************************************************************)
EXTENDS Naturals

CONSTANTS
    Specs,          \* the contents a desired_state can have
    RetryMax,       \* settings.SYNC_ENGINE_RETRY_MAX
    DeployMode,     \* settings.DEPLOY_MODE
    LifecycleManaged,  \* the API is driven by the lifecycle operations
    MaxRequests     \* bound: API requests in a behaviour

ASSUME RetryMaxAssumption == RetryMax \in Nat
ASSUME MaxRequestsAssumption == MaxRequests \in Nat
ASSUME DeployModeAssumption == DeployMode \in {"legacy", "dual", "sse_only"}
ASSUME SpecsAssumption == Specs # {} /\ LifecycleManaged \in BOOLEAN

is_sse_enabled == DeployMode \in {"sse_only", "dual"}
is_sync_engine_enabled == DeployMode \in {"legacy", "dual"}
is_inline_sync_enabled == DeployMode = "legacy"

------------------------------------------------------------------------------
(* DeploymentSyncStatus; GONE stands for "no such row". *)
DeploymentSyncStatus ==
    {"PENDING", "SYNCING", "SYNCED", "DRIFTED", "ERROR", "DELETING"}

(* A timestamp is told apart from now by the pending timeout only: it is   *)
(* recent (younger than SYNC_ENGINE_PENDING_TIMEOUT_SECONDS) or old.       *)
GatewayDeployment ==
    [id        : Nat,                      \* primary key: the id-th row created
     status    : DeploymentSyncStatus \cup {"GONE"},
     spec      : Specs,                    \* desired_state
     desired   : Nat,                      \* desired_generation
     synced    : Nat,                      \* synced_generation
     attempted : Nat,                      \* attempted_generation
     attempts  : Nat,                      \* sync_attempts
     resource  : BOOLEAN,                  \* gateway_resource_id is set
     success   : BOOLEAN,                  \* last_sync_success is set
     desiredAt : {"recent", "old"},        \* desired_at
     attemptAt : {"never", "recent", "old"}]  \* last_sync_attempt

Exists(r) == r.status # "GONE"

(* The row with primary key i as the ORM inserts it. *)
Created(i, s) ==
    [id |-> i, status |-> "PENDING", spec |-> s,
     desired |-> 1, synced |-> 0, attempted |-> 0, attempts |-> 0,
     resource |-> FALSE, success |-> FALSE,
     desiredAt |-> "recent", attemptAt |-> "never"]

(* The row after a DELETE; its id is never used again. *)
Deleted(r) == [Created(r.id, r.spec) EXCEPT !.status = "GONE"]

(* settings.SYNC_ENGINE_PENDING_TIMEOUT_SECONDS has passed since           *)
(* dep.last_sync_attempt or dep.desired_at or dep.created_at.              *)
Overdue(r) ==
    IF r.attemptAt # "never" THEN r.attemptAt = "old" ELSE r.desiredAt = "old"

(* Time passes: both timestamps leave the timeout window. *)
Aged(r) == [r EXCEPT !.desiredAt = "old",
                     !.attemptAt = IF @ = "never" THEN @ ELSE "old"]

------------------------------------------------------------------------------
(* The UPDATE a flush issues on the current row cur for a session that     *)
(* read `read' and wants `new': unchanged attributes are left out of it.   *)
(* A timestamp a session sets is "now" in its copy, and never unchanged.   *)
Changed(cur, old, new) == IF new = old THEN cur ELSE new
Stamped(cur, new) == IF new = "now" THEN "recent" ELSE cur

Flush(cur, read, new) ==
    [cur EXCEPT !.status    = Changed(@, read.status, new.status),
                !.spec      = Changed(@, read.spec, new.spec),
                !.desired   = Changed(@, read.desired, new.desired),
                !.synced    = Changed(@, read.synced, new.synced),
                !.attempted = Changed(@, read.attempted, new.attempted),
                !.attempts  = Changed(@, read.attempts, new.attempts),
                !.resource  = Changed(@, read.resource, new.resource),
                !.success   = Changed(@, read.success, new.success),
                !.desiredAt = Stamped(@, new.desiredAt),
                !.attemptAt = Stamped(@, new.attemptAt)]

(* An UPDATE or DELETE by primary key finds the row the session read. *)
SameRow(cur, read) == Exists(cur) /\ cur.id = read.id

------------------------------------------------------------------------------
(* What the API operations write.  deploy_api, undeploy and force_sync     *)
(* refuse a lifecycle-managed API; gitops is the upsert of the catalog     *)
(* reconciler, governance_reset the data-governance endpoint.              *)
Upserts == {"deploy_api", "lifecycle", "gitops"}

Operations ==
    [name : {"gitops"}, spec : Specs, force : {FALSE}]
        \cup [name : {"governance_reset"}]
        \cup IF LifecycleManaged
             THEN [name : {"lifecycle"}, spec : Specs, force : BOOLEAN]
             ELSE [name : {"deploy_api"}, spec : Specs, force : {FALSE}]
                      \cup [name : {"undeploy", "force_sync"}]

(* Faulty: the upsert forgets desired_generation, or resets it with the    *)
(* other counters.                                                         *)
UpsertedWithoutBump(r, s, force) ==
    IF r.spec = s /\ ~force
    THEN r
    ELSE [r EXCEPT !.spec = s, !.desiredAt = "now", !.status = "PENDING", !.attempts = 0]

UpsertedResettingCounters(r, s, force) ==
    IF r.spec = s /\ ~force
    THEN r
    ELSE [r EXCEPT !.spec = s, !.desiredAt = "now", !.status = "PENDING",
                   !.attempts = 0, !.desired = 0]

(* GatewayDeploymentService.deploy_api, CatalogDeploymentReconciler and    *)
(* ApiLifecycleService (the only one with force) on an existing row.       *)
Upserted(r, s, force) ==
    IF r.spec = s /\ ~force
    THEN r
    ELSE [r EXCEPT !.spec = s, !.desiredAt = "now", !.status = "PENDING",
                   !.attempts = 0, !.desired = @ + 1]

ForceSynced(r) ==
    [r EXCEPT !.status = "PENDING", !.attempts = 0, !.desired = @ + 1]

(* undeploy keeps the row as a tombstone only for these. *)
NeedsTombstone(r) == r.resource \/ is_sse_enabled

Undeployed(r) == [r EXCEPT !.status = "DELETING", !.desired = @ + 1]

(* DataGovernanceService._reconcile_gateway_deployments. *)
GovernanceReset(r) == [r EXCEPT !.status = "PENDING"]

(* The operation may start: get_by_id found the row, or an insert is next; *)
(* governance only lists drifted and failed deployments.                   *)
Accepts(op, r) ==
    \/ op.name \in Upserts
    \/ op.name \in {"undeploy", "force_sync"} /\ Exists(r)
    \/ op.name = "governance_reset" /\ r.status \in {"DRIFTED", "ERROR"}

(* The attributes the operation leaves in its session copy of the row. *)
Wanted(op, r) ==
    CASE op.name \in Upserts -> Upserted(r, op.spec, op.force)
      [] op.name = "undeploy" -> Undeployed(r)
      [] op.name = "force_sync" -> ForceSynced(r)
      [] op.name = "governance_reset" -> GovernanceReset(r)

Inserts(op, read) == op.name \in Upserts /\ ~Exists(read)
DeletesRow(op, read) == op.name = "undeploy" /\ ~NeedsTombstone(read)

(* The committed row once the session that read `read' has flushed onto    *)
(* cur: an insert, a DELETE or an UPDATE.                                  *)
Written(op, read, cur) ==
    IF Inserts(op, read) THEN Created(cur.id + 1, op.spec)
    ELSE IF DeletesRow(op, read) THEN Deleted(cur)
    ELSE Flush(cur, read, Wanted(op, read))

(* The flush succeeds: the unique constraint (api, gateway) admits the     *)
(* insert, or the row to update is still there (else StaleDataError).      *)
CanWrite(op, read, cur) ==
    IF Inserts(op, read) THEN ~Exists(cur) ELSE SameRow(cur, read)

(* The operation tells the other side: deploy_api even when nothing        *)
(* changed, the lifecycle only when something did, gitops never.           *)
Notifies(op, read) ==
    \/ op.name \in {"deploy_api", "force_sync"}
    \/ op.name = "undeploy" /\ NeedsTombstone(read)
    \/ op.name = "lifecycle" /\ (Inserts(op, read) \/ Wanted(op, read) # read)

(* Faulty: a status the enumeration does not have. *)
TimedOutWithUnknownStatus(r) == [r EXCEPT !.status = "TIMED_OUT"]

(* SyncEngine._reconcile_all on a row that was not acknowledged in time. *)
TimedOut(r) ==
    [r EXCEPT !.status = "ERROR",
              !.attempts = IF @ >= RetryMax THEN @ ELSE RetryMax]
==============================================================================
