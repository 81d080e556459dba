------------------------------ MODULE AgentSync ------------------------------
(***************************************************************************)
(* A deployment on an agent-managed gateway (pull model): API requests     *)
(* change the desired state, the stoa-connect agent next to the gateway    *)
(* learns of it from the SSE stream or by fetching its configuration,      *)
(* applies it to the local gateway and reports the result to               *)
(* route-sync-ack, which accepts it with a compare-and-set.                *)
(*                                                                         *)
(* Concurrent: the API requests, the ack handlers, the pending timeout of  *)
(* the sync engine, the agent, and a network that delays or loses acks.    *)
(* Each actor that reads the row and writes it later takes two steps.      *)
(***************************************************************************)
EXTENDS DeploymentRow, FiniteSets, Sequences

CONSTANTS
    Requests,     \* slots for concurrent API requests
    Handlers,     \* slots for concurrent route-sync-ack requests
    Envoy,        \* the agent drives Envoy (EnvoyAdapter), not another gateway
    Polling,      \* STOA_SSE_ENABLED is not set: fetch on a timer
    QueueMax,     \* event_bus.Subscriber.queue maxsize
    MaxAcks,      \* bound: acks in the network
    MaxFaults     \* bound: lost acks, failed pushes, disconnects, restarts

ASSUME BoundsAssumption == QueueMax \in Nat /\ MaxAcks \in Nat /\ MaxFaults \in Nat
ASSUME AgentAssumption == Envoy \in BOOLEAN /\ Polling \in BOOLEAN

VARIABLES
    row,      \* the deployment
    req,      \* req[r]: the API request in slot r
    reqs,     \* API requests started
    loop,     \* the sync engine's pass over pending deployments
    sse,      \* events queued for the agent's subscription
    link,     \* the agent's SSE stream: down, ready (subscribed), up
    table,    \* EnvoyAdapter.routes: the route last applied on the gateway
    known,    \* EnvoyAdapter.generations
    applied,  \* history: the <<id, generation>> pairs the gateway accepted
    acks,     \* acks sent and not yet received
    ackTx,    \* ackTx[h]: the ack handler in slot h, between read and write
    faults    \* faults so far

vars == <<row, req, reqs, loop, sse, link, table, known, applied, acks, ackTx, faults>>
apiVars == <<row, req, reqs, loop>>
agentVars == <<sse, link, table, known, applied>>

Ids == 0 .. MaxRequests
Idle == [pc |-> "idle"]
NoRoute == [id |-> 0]

(* adapters.Route as the agent builds it from a row or an event. *)
RouteOf(r) ==
    [id |-> r.id, gen |-> r.desired, spec |-> r.spec, removing |-> r.status = "DELETING"]

Init ==
    /\ row \in {Deleted(Created(0, s)) : s \in Specs}
    /\ req = [r \in Requests |-> Idle]
    /\ reqs = 0
    /\ loop = Idle
    /\ sse = << >>
    /\ link = "down"
    /\ table = NoRoute
    /\ known = [i \in Ids |-> 0]
    /\ applied = {}
    /\ acks = {}
    /\ ackTx = [h \in Handlers |-> Idle]
    /\ faults = 0

------------------------------------------------------------------------------
(* API requests: read the row, then flush and commit.  The SSE event is    *)
(* published by the after_commit hook, so together with the commit.        *)

BeginRequest(r, op) ==
    /\ req[r] = Idle
    /\ reqs < MaxRequests
    /\ Accepts(op, row)
    /\ req' = [req EXCEPT ![r] = [pc |-> "read", op |-> op, read |-> row]]
    /\ reqs' = reqs + 1
    /\ UNCHANGED <<row, loop, agentVars, acks, ackTx, faults>>

(* The row the event describes: the flushed one, or the copy read when     *)
(* nothing was flushed before the event was queued.                        *)
Announced(op, read, new) ==
    IF ~Inserts(op, read) /\ Wanted(op, read) = read THEN read ELSE new

(* EventBus.publish_nowait: only a connected subscriber with room gets it. *)
Publish(op, read, new) ==
    IF /\ is_sse_enabled
       /\ Notifies(op, read)
       /\ link # "down"
       /\ Len(sse) < QueueMax
    THEN Append(sse, RouteOf(Announced(op, read, new)))
    ELSE sse

CommitRequest(r) ==
    /\ req[r].pc = "read"
    /\ LET op == req[r].op
           read == req[r].read
           new == Written(op, read, row)
       IN /\ CanWrite(op, read, row)
          /\ row' = new
          /\ sse' = Publish(op, read, new)
    /\ req' = [req EXCEPT ![r] = Idle]
    /\ UNCHANGED <<reqs, loop, link, table, known, applied, acks, ackTx, faults>>

(* get_db rolls back: the flush failed, or the request did later on. *)
RollbackRequest(r) ==
    /\ req[r].pc = "read"
    /\ req' = [req EXCEPT ![r] = Idle]
    /\ UNCHANGED <<row, reqs, loop, agentVars, acks, ackTx, faults>>

------------------------------------------------------------------------------
(* SyncEngine._reconcile_all: for an agent-managed gateway only the        *)
(* pending timeout has an effect (_reconcile_one stops at                  *)
(* AgentManagedGatewayError).                                              *)

ListPending ==
    /\ is_sync_engine_enabled
    /\ loop = Idle
    /\ row.status \in {"PENDING", "SYNCING"}
    /\ Overdue(row)
    /\ loop' = [pc |-> "timeout", read |-> row]
    /\ UNCHANGED <<row, req, reqs, agentVars, acks, ackTx, faults>>

ExpirePending ==
    /\ loop.pc = "timeout"
    /\ row' = IF SameRow(row, loop.read) THEN Flush(row, loop.read, TimedOut(loop.read)) ELSE row
    /\ loop' = Idle
    /\ UNCHANGED <<req, reqs, agentVars, acks, ackTx, faults>>

(* The pending timeout elapses. *)
Elapse ==
    /\ is_sync_engine_enabled
    /\ Exists(row)
    /\ row' = Aged(row)
    /\ UNCHANGED <<req, reqs, loop, agentVars, acks, ackTx, faults>>

------------------------------------------------------------------------------
(* The agent.  A push is the adapter call and the ack that reports it; the *)
(* agent is one goroutine and nobody else changes the gateway, so both are *)
(* one step.  res is the result of talking to the gateway.                 *)

PushResults == {"ok", "error", "unreachable"}

(* EnvoyAdapter.SyncRoutes refuses a stale table, and the loss of a route  *)
(* it knows without a tombstone.                                           *)
StaleTable(rt) == rt # NoRoute /\ rt.gen < known[rt.id]
UnexplainedLoss(rt) == table # NoRoute /\ rt.id # table.id
Refused(rt) == Envoy /\ (StaleTable(rt) \/ UnexplainedLoss(rt))

(* Faulty: only the very generation applied last is recognised. *)
KnownOnlyIfEqual(rt) == Envoy /\ rt.gen = known[rt.id]

(* EnvoyAdapter.SyncRouteEvent answers success for a known generation. *)
AlreadyKnown(rt) == Envoy /\ rt.gen <= known[rt.id]

(* syncRoutes: Envoy acknowledged the table. *)
Accepted(rt) ==
    /\ table' = IF rt = NoRoute \/ rt.removing THEN NoRoute ELSE rt
    /\ known' = IF Envoy /\ rt # NoRoute THEN [known EXCEPT ![rt.id] = rt.gen] ELSE known
    /\ applied' = IF rt = NoRoute THEN applied ELSE applied \cup {<<rt.id, rt.gen>>}

(* Faulty: an error answer of the gateway is reported as success. *)
ResultIgnoringErrors(rt, res) ==
    IF res = "unreachable" THEN "failed" ELSE IF rt.removing THEN "removed" ELSE "applied"

(* routeSyncResults: one result per route, tagged with its generation. *)
ResultStatus(rt, res) ==
    IF res # "ok" THEN "failed" ELSE IF rt.removing THEN "removed" ELSE "applied"

Ack(rt, res) ==
    [id |-> rt.id, gen |-> rt.gen, status |-> ResultStatus(rt, res), conn |-> res = "unreachable"]

SendAck(rt, res) ==
    acks' = IF rt = NoRoute THEN acks ELSE acks \cup {Ack(rt, res)}

CountFault(res) == IF res = "ok" THEN 0 ELSE 1

(* A routeSyncer batch of the single route rt (or of none). *)
SyncRoutes(rt, res) ==
    /\ faults + CountFault(res) <= MaxFaults
    /\ faults' = faults + CountFault(res)
    /\ IF res = "ok" /\ ~Refused(rt)
       THEN Accepted(rt) /\ SendAck(rt, "ok")
       ELSE /\ UNCHANGED <<table, known, applied>>
            /\ SendAck(rt, IF res = "ok" THEN "error" ELSE res)

(* Faulty: tombstones are not delivered. *)
FetchedWithoutTombstones ==
    IF row.status \in {"SYNCED", "PENDING", "ERROR"} THEN RouteOf(row) ELSE NoRoute

(* The route the agent is given: get_gateway_config returns every row with *)
(* its tombstone, list_gateway_routes only SYNCED and PENDING rows.        *)
FetchedRoute ==
    IF Exists(row) /\ (Envoy \/ row.status \in {"SYNCED", "PENDING"})
    THEN RouteOf(row)
    ELSE NoRoute

(* RunRouteSync: on a timer when polling; before each stream attempt, and  *)
(* for Envoy again on the first frame of the stream, otherwise.            *)
RunRouteSync(res) ==
    /\ Polling \/ link = "down" \/ (Envoy /\ link = "ready")
    /\ Cardinality(acks) < MaxAcks
    /\ FetchedRoute # NoRoute \/ Envoy
    /\ SyncRoutes(FetchedRoute, res)
    /\ link' = IF link = "ready" THEN "up" ELSE link
    /\ UNCHANGED <<apiVars, sse, ackTx>>

(* sseStream.run: the event endpoint subscribes, then sends the first      *)
(* frame.                                                                  *)
Connect ==
    /\ ~Polling
    /\ link = "down"
    /\ link' = IF Envoy THEN "ready" ELSE "up"
    /\ UNCHANGED <<apiVars, sse, table, known, applied, acks, ackTx, faults>>

(* The fetch in the first-frame catch-up fails: the stream goes on. *)
ReadyFetchFails ==
    /\ link = "ready"
    /\ faults < MaxFaults
    /\ faults' = faults + 1
    /\ link' = "up"
    /\ UNCHANGED <<apiVars, sse, table, known, applied, acks, ackTx>>

(* The stream ends; the subscription and its queue are dropped. *)
Disconnect ==
    /\ link # "down"
    /\ faults < MaxFaults
    /\ faults' = faults + 1
    /\ link' = "down"
    /\ sse' = << >>
    /\ UNCHANGED <<apiVars, table, known, applied, acks, ackTx>>

(* handleSyncDeployment; only Envoy agents register a handler for undeploy. *)
HandleEvent(res) ==
    LET rt == Head(sse)
    IN /\ link = "up"
       /\ sse # << >>
       /\ Cardinality(acks) < MaxAcks
       /\ sse' = Tail(sse)
       /\ IF rt.removing /\ ~Envoy
          THEN UNCHANGED <<table, known, applied, acks, faults>>
          ELSE IF AlreadyKnown(rt)
          THEN SendAck(rt, "ok") /\ UNCHANGED <<table, known, applied, faults>>
          ELSE /\ faults + CountFault(res) <= MaxFaults
               /\ faults' = faults + CountFault(res)
               /\ IF res = "ok" THEN Accepted(rt) ELSE UNCHANGED <<table, known, applied>>
               /\ SendAck(rt, res)
       /\ UNCHANGED <<apiVars, link, ackTx>>

(* The agent process restarts: the adapter starts with empty memory. *)
RestartAgent ==
    /\ faults < MaxFaults
    /\ faults' = faults + 1
    /\ link' = "down"
    /\ sse' = << >>
    /\ table' = NoRoute
    /\ known' = [i \in Ids |-> 0]
    /\ UNCHANGED <<apiVars, applied, acks, ackTx>>

LoseAck(m) ==
    /\ m \in acks
    /\ faults < MaxFaults
    /\ faults' = faults + 1
    /\ acks' = acks \ {m}
    /\ UNCHANGED <<apiVars, agentVars, ackTx>>

------------------------------------------------------------------------------
(* route_sync_ack.  The handler reads the row, decides what the ack means  *)
(* for the row it read, and writes with GatewayDeploymentRepository        *)
(* .acknowledge, which compares desired_generation and sync_status.        *)

(* Faulty: an ack for an older generation is handled like a current one. *)
AckKindAcceptingStale(m, r) ==
    IF r.id # m.id \/ ~Exists(r) THEN "ignore"
    ELSE IF m.status = "removed"
    THEN IF r.status = "DELETING" THEN "removed" ELSE "ignore"
    ELSE IF r.status = "DELETING" THEN "ignore" ELSE m.status

(* What to do with ack m for the row r just read. *)
AckKind(m, r) ==
    IF r.id # m.id \/ ~Exists(r) \/ m.gen < r.desired THEN "ignore"
    ELSE IF /\ m.status = "failed" /\ r.status = "SYNCED" /\ r.success
            /\ r.synced >= r.desired \/ m.conn
    THEN "preserve"
    ELSE IF m.status = "applied"
    THEN IF r.status = "DELETING" THEN "ignore" ELSE "applied"
    ELSE IF m.status = "removed"
    THEN IF r.status = "DELETING" /\ m.gen = r.desired THEN "removed" ELSE "ignore"
    ELSE "failed"

ReceiveAck(h, m) ==
    /\ ackTx[h] = Idle
    /\ m \in acks
    /\ acks' = acks \ {m}
    /\ ackTx' = IF AckKind(m, row) = "ignore"
                THEN ackTx
                ELSE [ackTx EXCEPT ![h] = [pc |-> AckKind(m, row), gen |-> m.gen, read |-> row]]
    /\ UNCHANGED <<apiVars, agentVars, faults>>

(* Faulty: the write before CAB-2256, and one that compares the status     *)
(* only.                                                                   *)
FoundById(read) == SameRow(row, read)
SameStatus(read) == SameRow(row, read) /\ row.status = read.status

(* The predicate of the compare-and-set. *)
Current(read) ==
    /\ SameRow(row, read)
    /\ row.desired = read.desired
    /\ row.status = read.status

(* The row with the values the handler computed from the row it read. *)
Acknowledged(tx) ==
    LET r == [row EXCEPT !.attemptAt = "recent"]
    IN CASE tx.pc = "preserve" ->
              [r EXCEPT !.attempted = IF tx.read.attempted >= tx.gen THEN tx.read.attempted ELSE tx.gen]
         [] tx.pc = "applied" ->
              [r EXCEPT !.status = "SYNCED", !.success = TRUE,
                        !.synced = tx.gen, !.attempted = tx.gen]
         [] tx.pc = "failed" ->
              [r EXCEPT !.status = IF @ = "DELETING" THEN @ ELSE "ERROR", !.attempted = tx.gen]
         [] tx.pc = "removed" -> Deleted(row)

acknowledge(h) ==
    /\ ackTx[h] # Idle
    /\ row' = IF Current(ackTx[h].read) THEN Acknowledged(ackTx[h]) ELSE row
    /\ ackTx' = [ackTx EXCEPT ![h] = Idle]
    /\ UNCHANGED <<req, reqs, loop, agentVars, acks, faults>>

------------------------------------------------------------------------------
ApiStep ==
    \E r \in Requests :
        \/ \E op \in Operations : BeginRequest(r, op)
        \/ CommitRequest(r)
        \/ RollbackRequest(r)
EngineStep == ListPending \/ ExpirePending \/ Elapse
AgentStep ==
    \/ \E res \in PushResults : RunRouteSync(res) \/ HandleEvent(res)
    \/ Connect \/ ReadyFetchFails \/ Disconnect \/ RestartAgent
AckStep ==
    \E h \in Handlers : acknowledge(h) \/ \E m \in acks : ReceiveAck(h, m)
Next == ApiStep \/ EngineStep \/ AgentStep \/ AckStep \/ \E m \in acks : LoseAck(m)

Spec == Init /\ [][Next]_vars

(* Requests end, posted acks are handled, and the agent keeps trying: its  *)
(* loops never exit, and its pushes succeed once the faults are used up.   *)
Fairness ==
    /\ \A r \in Requests : WF_vars(CommitRequest(r) \/ RollbackRequest(r))
    /\ \A h \in Handlers : WF_vars(acknowledge(h)) /\ WF_vars(\E m \in acks : ReceiveAck(h, m))
    /\ WF_vars(ExpirePending)
    /\ WF_vars(RunRouteSync("ok"))
    /\ WF_vars(HandleEvent("ok"))
    /\ WF_vars(Connect)

LiveSpec == Spec /\ Fairness

------------------------------------------------------------------------------
Route == [id : Nat, gen : Nat, spec : Specs, removing : BOOLEAN]
AckMessage ==
    [id : Nat, gen : Nat, status : {"applied", "removed", "failed"}, conn : BOOLEAN]
RequestState == [pc : {"read"}, op : Operations, read : GatewayDeployment]
AckState ==
    [pc : {"preserve", "applied", "removed", "failed"}, gen : Nat, read : GatewayDeployment]

(* Every variable has the shape its comment gives. *)
TypeOK ==
    /\ row \in GatewayDeployment
    /\ req \in [Requests -> {Idle} \cup RequestState]
    /\ reqs \in 0 .. MaxRequests
    /\ loop \in {Idle} \cup [pc : {"timeout"}, read : GatewayDeployment]
    /\ sse \in Seq(Route)
    /\ link \in {"down", "ready", "up"}
    /\ table \in {NoRoute} \cup Route
    /\ known \in [Ids -> Nat]
    /\ applied \subseteq Nat \X Nat
    /\ acks \subseteq AckMessage
    /\ ackTx \in [Handlers -> {Idle} \cup AckState]
    /\ faults \in 0 .. MaxFaults

(* The generations of a row stay in the order the reconciliation protocol  *)
(* of CAB-1950 needs: nothing is reported synced that was not attempted,   *)
(* and nothing attempted that is not desired, whatever late, failed or     *)
(* concurrent acks route-sync-ack handles.                                 *)
GenerationOrder ==
    row.synced <= row.attempted /\ row.attempted <= row.desired

(* synced_generation is never claimed for a generation the gateway did not *)
(* accept, although SyncRouteEvent answers success for generations it only *)
(* believes to know and acks may arrive in any order.                      *)
SyncedWasApplied ==
    row.synced = 0 \/ <<row.id, row.synced>> \in applied

(* No message runs ahead of the row: x (a route event or an ack) is about  *)
(* this row or an earlier one, and not about a generation still to come.   *)
NotAhead(x) ==
    /\ x.id <= row.id
    /\ x.id = row.id /\ Exists(row) => x.gen <= row.desired

(* Why the two properties above hold, in parts: what each actor holds or   *)
(* has sent while the others move on.                                      *)
RequestsAreCurrent ==    \* a request in flight read the generation it will bump
    \A r \in Requests : req[r].pc = "read" =>
        /\ row.id < reqs
        /\ req[r].read.id <= row.id
        /\ SameRow(row, req[r].read) => req[r].read.desired = row.desired
EventsAreNotAhead ==
    \A i \in 1 .. Len(sse) : NotAhead(sse[i]) /\ sse[i].gen > 0
MemoryIsApplied ==       \* what the adapter remembers was accepted by the gateway
    \A i \in Ids :
        /\ known[i] = 0 \/ <<i, known[i]>> \in applied
        /\ i > row.id => known[i] = 0
        /\ i = row.id /\ Exists(row) => known[i] <= row.desired
AcksAreHonest ==         \* an ack that is not stale by now reports a fact
    \A m \in acks :
        /\ NotAhead(m)
        /\ m.id = row.id /\ Exists(row) /\ m.gen = row.desired /\ m.status = "applied"
              => <<m.id, m.gen>> \in applied
HandlersAreFenced ==     \* a handler acts on the generation of the row it read
    \A h \in Handlers : ackTx[h] # Idle =>
        /\ ackTx[h].gen = ackTx[h].read.desired
        /\ ackTx[h].read.attempted <= ackTx[h].gen
        /\ ackTx[h].pc = "applied" => /\ <<ackTx[h].read.id, ackTx[h].gen>> \in applied
                                      /\ ackTx[h].read.status # "DELETING"
        /\ ackTx[h].pc = "removed" => ackTx[h].read.status = "DELETING"

(* With one API request at a time, the whole protocol keeps this           *)
(* invariant: row, requests in flight, queued events, the adapter's        *)
(* memory, acks in the network and ack handlers agree on the generations.  *)
ProtocolInvariant ==
    /\ row.id <= reqs /\ row.desired > 0
    /\ GenerationOrder
    /\ SyncedWasApplied
    /\ RequestsAreCurrent
    /\ EventsAreNotAhead
    /\ MemoryIsApplied
    /\ AcksAreHonest
    /\ HandlersAreFenced

(* Once the tombstone of a deployment is acknowledged and its row deleted, *)
(* its route is not on the gateway, and no late event brings it back.      *)
RemovedStaysRemoved ==
    ~Exists(row) /\ row.id # 0 => table.id # row.id

(* route-sync-ack leaves a deletion alone: an ack takes a DELETING row     *)
(* nowhere but out of the table (CAB-2256), and removes a row only while   *)
(* its status is DELETING.                                                 *)
AcksRespectTombstones ==
    [][\A h \in Handlers : acknowledge(h) =>
          /\ row.status = "DELETING" => row'.status \in {"DELETING", "GONE"}
          /\ Exists(row) /\ ~Exists(row') => row.status = "DELETING"]_vars

(* When requests and faults stop, the loops of the agent bring the row and *)
(* the gateway to agreement: the deployment is gone, or it is SYNCED at    *)
(* its desired generation and that generation is what the gateway serves.  *)
Convergence ==
    <>[](IF Exists(row)
         THEN row.status = "SYNCED" /\ row.synced = row.desired /\ table = RouteOf(row)
         ELSE table = NoRoute)

(* The row implements the observed-generation protocol: synced_generation  *)
(* only ever becomes the generation desired at that very moment.           *)
Observed ==
    INSTANCE ObservedGeneration
        WITH alive <- Exists(row),
             desired <- IF Exists(row) THEN row.desired ELSE 0,
             observed <- IF Exists(row) THEN row.synced ELSE 0
ObservesGenerations == Observed!Spec
==============================================================================

