--------------------------- MODULE AgentSync_proofs ---------------------------
(***************************************************************************)
(* Proofs about AgentSync for every value of its constants: any number of  *)
(* ack handlers, API requests, faults and queued messages, Envoy or not,   *)
(* polling or streaming, in every deploy mode.                             *)
(***************************************************************************)
EXTENDS AgentSync, DeploymentRow_proofs

------------------------------------------------------------------------------
(* Type correctness. *)

(* The route the agent builds carries the id and the desired generation. *)
LEMMA RouteOfType ==
    ASSUME NEW r \in GatewayDeployment
    PROVE  /\ RouteOf(r) \in Route
           /\ RouteOf(r).id = r.id
           /\ RouteOf(r).gen = r.desired
BY DEF RouteOf, Route, GatewayDeployment

(* routeSyncResults produces well-formed acks. *)
LEMMA AckType ==
    ASSUME NEW rt \in Route, NEW res \in PushResults
    PROVE  Ack(rt, res) \in AckMessage
BY DEF Ack, ResultStatus, Route, AckMessage, PushResults

(* What a push leaves behind is well typed, whichever way it ends. *)
LEMMA AcceptedType ==
    ASSUME TypeOK, NEW rt \in Route \cup {NoRoute}, Accepted(rt)
    PROVE  /\ table' \in {NoRoute} \cup Route
           /\ known' \in [Ids -> Nat]
           /\ applied' \subseteq Nat \X Nat
<1>1. rt # NoRoute => rt \in Route /\ rt.id \in Nat /\ rt.gen \in Nat
  BY DEF Route
<1>2. table' \in {NoRoute} \cup Route
  BY <1>1 DEF Accepted
<1>3. known' \in [Ids -> Nat]
  BY <1>1 DEF Accepted, TypeOK
<1>4. applied' \subseteq Nat \X Nat
  BY <1>1 DEF Accepted, TypeOK
<1> QED
  BY <1>2, <1>3, <1>4

(* Reporting a result keeps the acks in the network well formed. *)
LEMMA SendAckType ==
    ASSUME TypeOK, NEW rt \in Route \cup {NoRoute}, NEW res \in PushResults, SendAck(rt, res)
    PROVE  acks' \subseteq AckMessage
<1>1. rt # NoRoute => Ack(rt, res) \in AckMessage
  BY AckType
<1> QED
  BY <1>1 DEF SendAck, TypeOK

(* The fault budget is respected. *)
LEMMA FaultType ==
    ASSUME TypeOK, NEW res, faults + CountFault(res) <= MaxFaults,
           faults' = faults + CountFault(res)
    PROVE  faults' \in 0 .. MaxFaults
<1>1. CountFault(res) \in {0, 1}
  BY DEF CountFault
<1> QED
  BY <1>1, BoundsAssumption DEF TypeOK

(* A batch of the routeSyncer, applied or refused, keeps the agent's types. *)
LEMMA SyncRoutesType ==
    ASSUME TypeOK, NEW rt \in Route \cup {NoRoute}, NEW res \in PushResults,
           SyncRoutes(rt, res)
    PROVE  /\ table' \in {NoRoute} \cup Route
           /\ known' \in [Ids -> Nat]
           /\ applied' \subseteq Nat \X Nat
           /\ acks' \subseteq AckMessage
           /\ faults' \in 0 .. MaxFaults
<1>1. faults' \in 0 .. MaxFaults
  BY FaultType DEF SyncRoutes
<1>2. CASE res = "ok" /\ ~Refused(rt)
  <2>1. Accepted(rt) /\ SendAck(rt, "ok")
    BY <1>2 DEF SyncRoutes
  <2> QED
    BY <1>1, <2>1, AcceptedType, SendAckType DEF PushResults
<1>3. CASE ~(res = "ok" /\ ~Refused(rt))
  <2>1. UNCHANGED <<table, known, applied>>
    BY <1>3 DEF SyncRoutes
  <2>2. PICK r \in PushResults : SendAck(rt, r)
    BY <1>3 DEF SyncRoutes, PushResults
  <2> QED
    BY <1>1, <2>1, <2>2, SendAckType DEF TypeOK
<1> QED
  BY <1>2, <1>3

(* The state before the first request is well typed. *)
LEMMA InitType == Init => TypeOK
<1> SUFFICES ASSUME Init PROVE TypeOK
  OBVIOUS
<1>1. PICK s \in Specs : row = Deleted(Created(0, s))
  BY DEF Init
<1>2. row \in GatewayDeployment
  BY <1>1, CreatedFacts, DeletedFacts
<1> QED
  BY <1>2, MaxRequestsAssumption, BoundsAssumption DEF Init, TypeOK, Route

(* Whatever route_sync_ack writes is a row. *)
LEMMA AcknowledgedType ==
    ASSUME row \in GatewayDeployment, NEW tx \in AckState
    PROVE  Acknowledged(tx) \in GatewayDeployment
<1>1. tx.gen \in Nat /\ tx.read.attempted \in Nat
  BY DEF AckState, GatewayDeployment
<1>2. CASE tx.pc = "preserve"
  BY <1>1, <1>2 DEF Acknowledged, GatewayDeployment
<1>3. CASE tx.pc = "applied"
  BY <1>1, <1>3 DEF Acknowledged, GatewayDeployment, DeploymentSyncStatus
<1>4. CASE tx.pc = "failed"
  BY <1>1, <1>4 DEF Acknowledged, GatewayDeployment, DeploymentSyncStatus
<1>5. CASE tx.pc = "removed"
  BY <1>5, DeletedFacts DEF Acknowledged
<1> QED
  BY <1>2, <1>3, <1>4, <1>5 DEF AckState

(* Every step of API, engine, agent and ack handler keeps the types. *)
LEMMA NextType == TypeOK /\ [Next]_vars => TypeOK'
<1> SUFFICES ASSUME TypeOK, [Next]_vars PROVE TypeOK'
  OBVIOUS
<1> USE DEF TypeOK, apiVars, agentVars
<1>1. ASSUME NEW r \in Requests, NEW op \in Operations, BeginRequest(r, op)
      PROVE  TypeOK'
  <2>1. [pc |-> "read", op |-> op, read |-> row] \in RequestState
    BY DEF RequestState
  <2>2. reqs' \in 0 .. MaxRequests
    BY <1>1, MaxRequestsAssumption DEF BeginRequest
  <2> QED
    BY <1>1, <2>1, <2>2 DEF BeginRequest
<1>2. ASSUME NEW r \in Requests, CommitRequest(r)
      PROVE  TypeOK'
  <2>1. req[r] \in RequestState
    BY <1>2 DEF CommitRequest, Idle
  <2>2. req[r].op \in Operations /\ req[r].read \in GatewayDeployment
    BY <2>1 DEF RequestState
  <2>3. row' \in GatewayDeployment
    BY <1>2, <2>2, WrittenFacts DEF CommitRequest
  <2>4. sse' \in Seq(Route)
    BY <1>2, <2>2, <2>3, RouteOfType DEF CommitRequest, Publish, Announced
  <2> QED
    BY <1>2, <2>3, <2>4 DEF CommitRequest
<1>3. ASSUME NEW r \in Requests, RollbackRequest(r)
      PROVE  TypeOK'
  BY <1>3 DEF RollbackRequest
<1>4. CASE ListPending
  <2>1. loop' \in [pc : {"timeout"}, read : GatewayDeployment]
    BY <1>4 DEF ListPending
  <2> QED
    BY <1>4, <2>1 DEF ListPending
<1>5. CASE ExpirePending
  <2>1. loop.read \in GatewayDeployment
    BY <1>5 DEF ExpirePending, Idle
  <2>2. row' \in GatewayDeployment
    BY <1>5, <2>1, TimeoutFacts DEF ExpirePending
  <2> QED
    BY <1>5, <2>2 DEF ExpirePending
<1>6. CASE Elapse
  BY <1>6, AgedFacts DEF Elapse
<1>7. ASSUME NEW res \in PushResults, RunRouteSync(res)
      PROVE  TypeOK'
  <2>1. FetchedRoute \in Route \cup {NoRoute}
    BY RouteOfType DEF FetchedRoute
  <2>2. /\ table' \in {NoRoute} \cup Route
        /\ known' \in [Ids -> Nat]
        /\ applied' \subseteq Nat \X Nat
        /\ acks' \subseteq AckMessage
        /\ faults' \in 0 .. MaxFaults
    BY <1>7, <2>1, SyncRoutesType DEF RunRouteSync
  <2> QED
    BY <1>7, <2>2 DEF RunRouteSync
<1>8. ASSUME NEW res \in PushResults, HandleEvent(res)
      PROVE  TypeOK'
  <2> DEFINE rt == Head(sse)
  <2>1. rt \in Route /\ sse' \in Seq(Route)
    BY <1>8 DEF HandleEvent
  <2> HIDE DEF rt
  <2>2. UNCHANGED <<apiVars, link, ackTx>>
    BY <1>8 DEF HandleEvent
  <2>3. CASE rt.removing /\ ~Envoy
    BY <1>8, <2>1, <2>2, <2>3 DEF HandleEvent, rt
  <2>4. CASE ~(rt.removing /\ ~Envoy) /\ AlreadyKnown(rt)
    <3>1. SendAck(rt, "ok") /\ UNCHANGED <<table, known, applied, faults>>
      BY <1>8, <2>4 DEF HandleEvent, rt
    <3>2. acks' \subseteq AckMessage
      BY <2>1, <3>1, SendAckType DEF PushResults
    <3> QED
      BY <2>1, <2>2, <3>1, <3>2
  <2>5. CASE ~(rt.removing /\ ~Envoy) /\ ~AlreadyKnown(rt)
    <3>1. /\ faults + CountFault(res) <= MaxFaults
          /\ faults' = faults + CountFault(res)
          /\ Accepted(rt) \/ UNCHANGED <<table, known, applied>>
          /\ SendAck(rt, res)
      BY <1>8, <2>5 DEF HandleEvent, rt
    <3>2. faults' \in 0 .. MaxFaults
      BY <3>1, FaultType
    <3>3. acks' \subseteq AckMessage
      BY <2>1, <3>1, SendAckType
    <3>4. /\ table' \in {NoRoute} \cup Route
          /\ known' \in [Ids -> Nat]
          /\ applied' \subseteq Nat \X Nat
      BY <2>1, <3>1, AcceptedType
    <3> QED
      BY <2>1, <2>2, <3>2, <3>3, <3>4
  <2> QED
    BY <2>3, <2>4, <2>5
<1>9. CASE Connect
  BY <1>9 DEF Connect
<1>10. CASE ReadyFetchFails
  BY <1>10, BoundsAssumption DEF ReadyFetchFails
<1>11. CASE Disconnect
  BY <1>11, BoundsAssumption DEF Disconnect
<1>12. CASE RestartAgent
  BY <1>12, BoundsAssumption DEF RestartAgent
<1>13. ASSUME NEW m \in acks, LoseAck(m)
       PROVE  TypeOK'
  BY <1>13, BoundsAssumption DEF LoseAck
<1>14. ASSUME NEW h \in Handlers, NEW m \in acks, ReceiveAck(h, m)
       PROVE  TypeOK'
  <2>1. CASE AckKind(m, row) = "ignore"
    BY <1>14, <2>1 DEF ReceiveAck
  <2>2. CASE AckKind(m, row) # "ignore"
    <3>1. AckKind(m, row) \in {"preserve", "applied", "removed", "failed"}
      BY <2>2 DEF AckKind
    <3>2. [pc |-> AckKind(m, row), gen |-> m.gen, read |-> row] \in AckState
      BY <3>1 DEF AckState, AckMessage
    <3> QED
      BY <1>14, <2>2, <3>2 DEF ReceiveAck
  <2> QED
    BY <2>1, <2>2
<1>15. ASSUME NEW h \in Handlers, acknowledge(h)
       PROVE  TypeOK'
  <2>1. ackTx[h] \in AckState
    BY <1>15 DEF acknowledge
  <2>2. row' \in GatewayDeployment
    BY <1>15, <2>1, AcknowledgedType DEF acknowledge
  <2> QED
    BY <1>15, <2>2 DEF acknowledge
<1>16. CASE UNCHANGED vars
  BY <1>16 DEF vars
<1> QED
  BY <1>1, <1>2, <1>3, <1>4, <1>5, <1>6, <1>7, <1>8, <1>9, <1>10, <1>11, <1>12,
     <1>13, <1>14, <1>15, <1>16
  DEF Next, ApiStep, EngineStep, AgentStep, AckStep

(* Every reachable state of AgentSync is well typed: in particular no      *)
(* writer of the row, however stale its copy, leaves a status or a         *)
(* generation that the model of gateway_deployments does not have.         *)
THEOREM TypeCorrect == Spec => []TypeOK
<1>1. Init => TypeOK
  BY InitType
<1>2. TypeOK /\ [Next]_vars => TypeOK'
  BY NextType
<1> QED
  BY <1>1, <1>2, PTL DEF Spec

------------------------------------------------------------------------------
(* The protocol invariant, for one API request at a time (two concurrent   *)
(* ones can read one generation and both write its successor).             *)
SingleRequest == \A a, b \in Requests : a = b

(* How a step may change the row: to a later row, or within one row to the *)
(* same or a later generation; a deleted row does not come back.           *)
RowAdvances ==
    /\ row'.id >= row.id
    /\ row'.id = row.id /\ Exists(row') => Exists(row) /\ row'.desired >= row.desired

(* The numbers of the row are naturals. *)
LEMMA RowTyped ==
    ASSUME TypeOK
    PROVE  /\ row.id \in Nat /\ row.desired \in Nat
           /\ row.synced \in Nat /\ row.attempted \in Nat
BY DEF TypeOK, GatewayDeployment

(* The numbers of an ack are naturals. *)
LEMMA AckTyped ==
    ASSUME TypeOK, NEW m \in acks
    PROVE  m.id \in Nat /\ m.gen \in Nat
BY DEF TypeOK, AckMessage

(* A queued SSE event is a route with natural numbers. *)
LEMMA EventTyped ==
    ASSUME TypeOK, NEW i \in 1 .. Len(sse)
    PROVE  sse[i] \in Route /\ sse[i].id \in Nat /\ sse[i].gen \in Nat
<1>1. sse \in Seq(Route)
  BY DEF TypeOK
<1>2. sse[i] \in Route
  BY <1>1
<1> QED
  BY <1>2 DEF Route

(* A message that is not ahead of the row stays so while the row advances. *)
LEMMA AdvanceKeepsNotAhead ==
    ASSUME TypeOK, TypeOK', RowAdvances,
           NEW i \in Nat, NEW g \in Nat,
           i <= row.id, i = row.id /\ Exists(row) => g <= row.desired
    PROVE  /\ i <= row'.id
           /\ i = row'.id /\ Exists(row') => g <= row'.desired
<1>1. row'.id \in Nat /\ row'.desired \in Nat
  BY DEF TypeOK, GatewayDeployment
<1> QED
  BY <1>1, RowTyped DEF RowAdvances

(* Queued events do not get ahead when the row advances. *)
LEMMA AdvanceKeepsEvents ==
    ASSUME TypeOK, TypeOK', RowAdvances, EventsAreNotAhead, sse' = sse
    PROVE  EventsAreNotAhead'
<1> SUFFICES ASSUME NEW i \in 1 .. Len(sse)
             PROVE  (NotAhead(sse[i]) /\ sse[i].gen > 0)'
  BY DEF EventsAreNotAhead
<1>1. NotAhead(sse[i]) /\ sse[i].gen > 0 /\ sse[i].id \in Nat /\ sse[i].gen \in Nat
  BY EventTyped DEF EventsAreNotAhead
<1> QED
  BY <1>1, AdvanceKeepsNotAhead DEF NotAhead

(* The adapter's memory stays behind a row that advances. *)
LEMMA AdvanceKeepsMemory ==
    ASSUME TypeOK, TypeOK', RowAdvances, MemoryIsApplied, known' = known, applied \subseteq applied'
    PROVE  MemoryIsApplied'
<1> SUFFICES ASSUME NEW i \in Ids
             PROVE  /\ known[i] = 0 \/ <<i, known[i]>> \in applied'
                    /\ i > row'.id => known[i] = 0
                    /\ i = row'.id /\ Exists(row') => known[i] <= row'.desired
  BY DEF MemoryIsApplied
<1>1. i \in Nat /\ known[i] \in Nat
  BY MaxRequestsAssumption DEF Ids, TypeOK
<1>3. row'.id \in Nat /\ row'.desired \in Nat
  BY DEF TypeOK, GatewayDeployment
<1>2. /\ known[i] = 0 \/ <<i, known[i]>> \in applied
      /\ i > row.id => known[i] = 0
      /\ i = row.id /\ Exists(row) => known[i] <= row.desired
  BY DEF MemoryIsApplied
<1> QED
  BY <1>1, <1>2, <1>3, RowTyped DEF RowAdvances

(* Acks in the network stay behind a row that advances. *)
LEMMA AdvanceKeepsAcks ==
    ASSUME TypeOK, TypeOK', RowAdvances, AcksAreHonest, acks' \subseteq acks, applied \subseteq applied'
    PROVE  AcksAreHonest'
<1> SUFFICES ASSUME NEW m \in acks'
             PROVE  /\ NotAhead(m)'
                    /\ m.id = row'.id /\ Exists(row') /\ m.gen = row'.desired /\ m.status = "applied"
                          => <<m.id, m.gen>> \in applied'
  BY DEF AcksAreHonest, NotAhead
<1>1. m \in acks /\ m.id \in Nat /\ m.gen \in Nat /\ row'.id \in Nat /\ row'.desired \in Nat
  BY AckTyped DEF TypeOK, GatewayDeployment
<1>2. /\ NotAhead(m)
      /\ m.id = row.id /\ Exists(row) /\ m.gen = row.desired /\ m.status = "applied"
            => <<m.id, m.gen>> \in applied
  BY <1>1 DEF AcksAreHonest
<1>3. NotAhead(m)'
  BY <1>1, <1>2, AdvanceKeepsNotAhead DEF NotAhead
<1>4. ASSUME m.id = row'.id, Exists(row'), m.gen = row'.desired, m.status = "applied"
      PROVE  <<m.id, m.gen>> \in applied'
  BY <1>1, <1>2, <1>4, RowTyped DEF RowAdvances, NotAhead
<1> QED
  BY <1>3, <1>4

(* A waiting ack handler holds facts that later pushes cannot undo. *)
LEMMA FencedStays ==
    ASSUME HandlersAreFenced, ackTx' = ackTx, applied \subseteq applied'
    PROVE  HandlersAreFenced'
BY DEF HandlersAreFenced

(* Steps that leave the row alone keep what is known of it. *)
LEMMA SameRowAdvances ==
    ASSUME TypeOK, row' = row
    PROVE  RowAdvances
BY RowTyped DEF RowAdvances

(* What an accepted ack does to the generations of the row. *)
LEMMA AcknowledgedFacts ==
    ASSUME row \in GatewayDeployment, NEW tx \in AckState, tx.read.attempted <= tx.gen
    PROVE  LET new == Acknowledged(tx)
           IN \/ tx.pc = "removed" /\ new = Deleted(row)
              \/ /\ tx.pc # "removed"
                 /\ new.id = row.id
                 /\ new.desired = row.desired
                 /\ new.attempted = tx.gen
                 /\ new.synced = IF tx.pc = "applied" THEN tx.gen ELSE row.synced
                 /\ new.status \in {row.status, "SYNCED", "ERROR"}
                 /\ row.status = "DELETING" /\ tx.pc # "applied" => new.status = "DELETING"
<1>1. tx.gen \in Nat /\ tx.read.attempted \in Nat
  BY DEF AckState, GatewayDeployment
<1>2. CASE tx.pc = "preserve"
  <2>1. (IF tx.read.attempted >= tx.gen THEN tx.read.attempted ELSE tx.gen) = tx.gen
    BY <1>1
  <2>2. Acknowledged(tx) = [[row EXCEPT !.attemptAt = "recent"] EXCEPT !.attempted = tx.gen]
    BY <1>2, <2>1 DEF Acknowledged
  <2> QED
    BY <1>2, <2>2 DEF GatewayDeployment
<1>3. CASE tx.pc = "applied"
  BY <1>1, <1>3 DEF Acknowledged, GatewayDeployment
<1>4. CASE tx.pc = "failed"
  BY <1>1, <1>4 DEF Acknowledged, GatewayDeployment
<1>5. CASE tx.pc = "removed"
  BY <1>5 DEF Acknowledged
<1> QED
  BY <1>2, <1>3, <1>4, <1>5 DEF AckState

(* The protocol invariant holds before the first request. *)
LEMMA InitProtocol == Init => ProtocolInvariant
<1> SUFFICES ASSUME Init PROVE ProtocolInvariant
  OBVIOUS
<1>1. PICK s \in Specs : row = Deleted(Created(0, s))
  BY DEF Init
<1>2. /\ row.id = 0 /\ row.desired = 1 /\ row.synced = 0 /\ row.attempted = 0
      /\ ~Exists(row)
  BY <1>1, CreatedFacts, DeletedFacts DEF Exists
<1>3. RequestsAreCurrent
  BY DEF Init, RequestsAreCurrent, Idle
<1>4. EventsAreNotAhead /\ AcksAreHonest
  BY DEF Init, EventsAreNotAhead, AcksAreHonest
<1>5. MemoryIsApplied
  BY <1>2 DEF Init, MemoryIsApplied
<1>6. HandlersAreFenced
  BY DEF Init, HandlersAreFenced
<1> QED
  BY <1>2, <1>3, <1>4, <1>5, <1>6 DEF Init, ProtocolInvariant, GenerationOrder, SyncedWasApplied

(* The requests in flight stay current when nobody changes the desired     *)
(* generation of the row they read.                                        *)
LEMMA RequestsStayCurrent ==
    ASSUME TypeOK, RequestsAreCurrent, req' = req, reqs' = reqs, row'.id = row.id,
           Exists(row') => Exists(row) /\ row'.desired = row.desired
    PROVE  RequestsAreCurrent'
BY DEF RequestsAreCurrent, SameRow

(* An ack that claims "applied" does so for a generation in applied', or   *)
(* is no longer about the desired generation.                              *)
LEMMA SendAckKeepsAcks ==
    ASSUME TypeOK, TypeOK', AcksAreHonest, row' = row, applied \subseteq applied',
           NEW rt \in Route \cup {NoRoute}, NEW res \in PushResults, SendAck(rt, res),
           rt # NoRoute => NotAhead(rt),
           rt # NoRoute /\ res = "ok" /\ rt.id = row.id /\ Exists(row) /\ rt.gen = row.desired
              => <<rt.id, rt.gen>> \in applied'
    PROVE  AcksAreHonest'
<1> SUFFICES ASSUME NEW m \in acks'
             PROVE  /\ NotAhead(m)
                    /\ m.id = row.id /\ Exists(row) /\ m.gen = row.desired /\ m.status = "applied"
                          => <<m.id, m.gen>> \in applied'
  BY DEF AcksAreHonest, NotAhead
<1>1. CASE m \in acks
  BY <1>1 DEF AcksAreHonest
<1>2. CASE m \notin acks
  <2>1. rt # NoRoute /\ m = Ack(rt, res)
    BY <1>2 DEF SendAck
  <2>2. m.id = rt.id /\ m.gen = rt.gen /\ (m.status = "applied" => res = "ok")
    BY <2>1 DEF Ack, ResultStatus
  <2> QED
    BY <2>1, <2>2 DEF NotAhead
<1> QED
  BY <1>1, <1>2

(* The gateway accepted a route that is not ahead: memory and history grow *)
(* together.                                                               *)
LEMMA AcceptedKeepsMemory ==
    ASSUME TypeOK, ProtocolInvariant, row' = row, NEW rt \in Route \cup {NoRoute}, Accepted(rt),
           rt # NoRoute => NotAhead(rt) /\ rt.gen > 0
    PROVE  /\ MemoryIsApplied'
           /\ applied \subseteq applied'
           /\ rt # NoRoute => <<rt.id, rt.gen>> \in applied'
<1>1. /\ applied \subseteq applied'
      /\ rt # NoRoute => <<rt.id, rt.gen>> \in applied'
  BY DEF Accepted
<1>2. SUFFICES MemoryIsApplied'
  BY <1>1
<1>3. CASE known' = known
  BY <1>1, <1>3 DEF ProtocolInvariant, MemoryIsApplied
<1>4. CASE known' # known
  <2>1. rt # NoRoute /\ known' = [known EXCEPT ![rt.id] = rt.gen]
    BY <1>4 DEF Accepted
  <2>2. rt.id \in Nat /\ rt.gen \in Nat /\ NotAhead(rt)
    BY <2>1 DEF Route
  <2>3. MemoryIsApplied
    BY DEF ProtocolInvariant
  <2> SUFFICES ASSUME NEW i \in Ids
               PROVE  /\ known'[i] = 0 \/ <<i, known'[i]>> \in applied'
                      /\ i > row.id => known'[i] = 0
                      /\ i = row.id /\ Exists(row) => known'[i] <= row.desired
    BY DEF MemoryIsApplied
  <2>4. i \in Nat /\ known \in [Ids -> Nat]
    BY MaxRequestsAssumption DEF Ids, TypeOK
  <2>5. CASE i = rt.id
    <3>1. known'[i] = rt.gen
      BY <2>1, <2>4, <2>5
    <3> QED
      BY <1>1, <2>1, <2>2, <2>5, <3>1, RowTyped DEF NotAhead
  <2>6. CASE i # rt.id
    <3>1. known'[i] = known[i]
      BY <2>1, <2>4, <2>6
    <3> QED
      BY <1>1, <2>3, <3>1 DEF MemoryIsApplied
  <2> QED
    BY <2>5, <2>6
<1> QED
  BY <1>3, <1>4

(* The row itself is not ahead of itself. *)
LEMMA FetchedNotAhead ==
    ASSUME TypeOK, ProtocolInvariant, FetchedRoute # NoRoute
    PROVE  /\ FetchedRoute \in Route
           /\ NotAhead(FetchedRoute)
           /\ FetchedRoute.gen > 0
<1>1. FetchedRoute = RouteOf(row) /\ row \in GatewayDeployment
  BY DEF FetchedRoute, TypeOK
<1>2. RouteOf(row) \in Route /\ RouteOf(row).id = row.id /\ RouteOf(row).gen = row.desired
  BY <1>1, RouteOfType
<1> QED
  BY <1>1, <1>2, RowTyped DEF NotAhead, ProtocolInvariant

(* The invariant from its parts, when a step leaves the row alone. *)
LEMMA SameRowProtocol ==
    ASSUME TypeOK, ProtocolInvariant, row' = row, reqs' >= reqs, reqs' \in Nat,
           applied \subseteq applied',
           RequestsAreCurrent', EventsAreNotAhead', MemoryIsApplied', AcksAreHonest',
           HandlersAreFenced'
    PROVE  ProtocolInvariant'
<1>1. reqs \in Nat /\ row.id \in Nat
  BY MaxRequestsAssumption, RowTyped DEF TypeOK
<1> QED
  BY <1>1 DEF ProtocolInvariant, GenerationOrder, SyncedWasApplied

(* A committed request keeps the protocol invariant. *)
LEMMA CommitProtocol ==
    ASSUME TypeOK, TypeOK', ProtocolInvariant, SingleRequest,
           NEW r \in Requests, CommitRequest(r)
    PROVE  ProtocolInvariant'
<1> DEFINE op == req[r].op
           read == req[r].read
<1>1. req[r] \in RequestState
  BY DEF CommitRequest, Idle, TypeOK
<1>2. op \in Operations /\ read \in GatewayDeployment /\ row \in GatewayDeployment
  BY <1>1 DEF RequestState, TypeOK
<1>3. CanWrite(op, read, row) /\ row' = Written(op, read, row)
  BY DEF CommitRequest
<1>4. /\ row.id < reqs
      /\ SameRow(row, read) => read.desired = row.desired
  BY DEF CommitRequest, ProtocolInvariant, RequestsAreCurrent
<1>5. \/ /\ ~Exists(row) /\ Exists(row')
         /\ row'.id = row.id + 1
         /\ row'.desired = 1 /\ row'.synced = 0 /\ row'.attempted = 0
      \/ /\ SameRow(row, read) /\ ~Exists(row')
         /\ row'.id = row.id
         /\ row'.desired = 1 /\ row'.synced = 0 /\ row'.attempted = 0
      \/ /\ SameRow(row, read) /\ Exists(row')
         /\ row'.id = row.id
         /\ row'.desired \in {row.desired, read.desired + 1}
         /\ row'.synced = row.synced /\ row'.attempted = row.attempted
  BY <1>2, <1>3, WrittenFacts
<1> HIDE DEF op, read
<1>6. RowAdvances
  BY <1>4, <1>5, RowTyped DEF RowAdvances, SameRow
<1>7. /\ UNCHANGED <<reqs, known, applied, acks, ackTx>>
      /\ \A q \in Requests : req'[q] = Idle
  BY DEF CommitRequest, SingleRequest, TypeOK
<1>8. row'.id <= reqs' /\ row'.desired > 0 /\ GenerationOrder' /\ SyncedWasApplied'
  <2>1. reqs \in Nat /\ row.desired > 0 /\ GenerationOrder /\ SyncedWasApplied
    BY MaxRequestsAssumption DEF TypeOK, ProtocolInvariant
  <2> QED
    BY <1>4, <1>5, <1>7, <2>1, RowTyped DEF GenerationOrder, SyncedWasApplied
<1>9. RequestsAreCurrent'
  BY <1>7 DEF RequestsAreCurrent, Idle
<1>10. EventsAreNotAhead'
  <2>1. CASE sse' = sse
    BY <1>6, <2>1, AdvanceKeepsEvents DEF ProtocolInvariant
  <2>2. CASE sse' # sse
    <3> DEFINE told == Announced(op, read, row')
    <3>1. sse' = Append(sse, RouteOf(told))
      BY <1>3, <2>2 DEF CommitRequest, Publish, op, read
    <3>a. told = row' \/ (told = read /\ SameRow(row, read))
      BY <1>3, Zenon DEF Announced, CanWrite
    <3> HIDE DEF told
    <3>b. told \in GatewayDeployment
      BY <1>2, <3>a DEF TypeOK
    <3>c. told.id <= row'.id /\ told.desired > 0
          /\ (Exists(row') /\ told.id = row'.id => told.desired <= row'.desired)
      <4>1. CASE told = row'
        BY <1>8, <4>1, RowTyped DEF TypeOK, GatewayDeployment
      <4>2. CASE told = read /\ SameRow(row, read)
        BY <1>4, <1>5, <4>2, RowTyped DEF SameRow, ProtocolInvariant
      <4> QED
        BY <3>a, <4>1, <4>2
    <3>2. RouteOf(told).id = told.id /\ RouteOf(told).gen = told.desired /\ RouteOf(told) \in Route
      BY <3>b, RouteOfType
    <3>3. row'.id \in Nat /\ row'.desired \in Nat /\ sse \in Seq(Route)
      BY DEF TypeOK, GatewayDeployment
    <3> SUFFICES ASSUME NEW i \in 1 .. Len(sse')
                 PROVE  (NotAhead(sse[i]) /\ sse[i].gen > 0)'
      BY DEF EventsAreNotAhead
    <3>4. CASE i = Len(sse) + 1
      <4>1. sse'[i] = RouteOf(told)
        BY <3>1, <3>2, <3>3, <3>4
      <4> QED
        BY <3>c, <3>2, <4>1 DEF NotAhead
    <3>5. CASE i # Len(sse) + 1
      <4>1. i \in 1 .. Len(sse) /\ sse'[i] = sse[i]
        BY <3>1, <3>2, <3>3, <3>5
      <4>2. NotAhead(sse[i]) /\ sse[i].gen > 0 /\ sse[i].id \in Nat /\ sse[i].gen \in Nat
        BY <4>1, EventTyped DEF ProtocolInvariant, EventsAreNotAhead
      <4> QED
        BY <1>6, <4>1, <4>2, AdvanceKeepsNotAhead DEF NotAhead
    <3> QED
      BY <3>4, <3>5
  <2> QED
    BY <2>1, <2>2
<1>11. MemoryIsApplied' /\ AcksAreHonest' /\ HandlersAreFenced'
  BY <1>6, <1>7, AdvanceKeepsMemory, AdvanceKeepsAcks, FencedStays DEF ProtocolInvariant
<1> QED
  BY <1>8, <1>9, <1>10, <1>11 DEF ProtocolInvariant

(* Steps of the engine and of the ack handlers: the row keeps its key and  *)
(* desired generation, or goes.                                            *)
LEMMA QuietRowProtocol ==
    ASSUME TypeOK, TypeOK', ProtocolInvariant,
           UNCHANGED <<req, reqs, sse, known, applied, acks>>,
           row'.id = row.id, row'.desired > 0,
           Exists(row') => Exists(row) /\ row'.desired = row.desired,
           GenerationOrder', SyncedWasApplied', HandlersAreFenced'
    PROVE  ProtocolInvariant'
<1>1. RowAdvances
  BY RowTyped DEF RowAdvances
<1>2. RequestsAreCurrent'
  BY RequestsStayCurrent DEF ProtocolInvariant
<1>3. EventsAreNotAhead' /\ MemoryIsApplied' /\ AcksAreHonest'
  BY <1>1, AdvanceKeepsEvents, AdvanceKeepsMemory, AdvanceKeepsAcks DEF ProtocolInvariant
<1> QED
  BY <1>2, <1>3 DEF ProtocolInvariant

(* The compare-and-set of an ack handler keeps it. *)
LEMMA AcknowledgeProtocol ==
    ASSUME TypeOK, TypeOK', ProtocolInvariant, NEW h \in Handlers, acknowledge(h)
    PROVE  ProtocolInvariant'
<1> DEFINE tx == ackTx[h]
<1>1. tx \in AckState /\ row \in GatewayDeployment
  BY DEF acknowledge, TypeOK
<1>2. /\ tx.gen = tx.read.desired
      /\ tx.read.attempted <= tx.gen
      /\ tx.pc = "applied" => <<tx.read.id, tx.gen>> \in applied
      /\ tx.gen \in Nat
  BY <1>1 DEF acknowledge, ProtocolInvariant, HandlersAreFenced, AckState
<1>3. UNCHANGED <<req, reqs, sse, known, applied, acks>>
  BY DEF acknowledge, agentVars
<1>4. HandlersAreFenced'
  BY <1>3 DEF acknowledge, ProtocolInvariant, HandlersAreFenced, TypeOK
<1>5. row.desired > 0 /\ GenerationOrder /\ SyncedWasApplied
  BY DEF ProtocolInvariant
<1>6. CASE ~Current(tx.read)
  <2>1. row' = row
    BY <1>6 DEF acknowledge
  <2> QED
    BY <1>3, <1>4, <1>5, <2>1, QuietRowProtocol DEF GenerationOrder, SyncedWasApplied
<1>7. CASE Current(tx.read)
  <2>1. row' = Acknowledged(tx)
    BY <1>7 DEF acknowledge
  <2>2. Exists(row) /\ row.id = tx.read.id /\ row.desired = tx.gen
    BY <1>2, <1>7 DEF Current, SameRow
  <2>3. \/ tx.pc = "removed" /\ row' = Deleted(row)
        \/ /\ tx.pc # "removed"
           /\ row'.id = row.id
           /\ row'.desired = row.desired
           /\ row'.attempted = tx.gen
           /\ row'.synced = IF tx.pc = "applied" THEN tx.gen ELSE row.synced
    BY <1>1, <1>2, <2>1, AcknowledgedFacts
  <2> HIDE DEF tx
  <2>4. CASE tx.pc = "removed"
    <3>1. /\ row'.id = row.id /\ row'.desired = 1 /\ row'.synced = 0 /\ row'.attempted = 0
          /\ ~Exists(row')
      BY <1>1, <2>3, <2>4, DeletedFacts DEF Exists
    <3> QED
      BY <1>3, <1>4, <3>1, QuietRowProtocol DEF GenerationOrder, SyncedWasApplied
  <2>5. CASE tx.pc # "removed"
    <3>1. GenerationOrder'
      BY <1>2, <1>5, <2>2, <2>3, <2>5, RowTyped DEF GenerationOrder
    <3>2. SyncedWasApplied'
      BY <1>2, <1>3, <1>5, <2>2, <2>3, <2>5 DEF SyncedWasApplied
    <3> QED
      BY <1>3, <1>4, <1>5, <2>2, <2>3, <2>5, <3>1, <3>2, QuietRowProtocol
  <2> QED
    BY <2>4, <2>5
<1> QED
  BY <1>6, <1>7

(* An ack handler that has read the row keeps it. *)
LEMMA ReceiveAckProtocol ==
    ASSUME TypeOK, TypeOK', ProtocolInvariant,
           NEW h \in Handlers, NEW m \in acks, ReceiveAck(h, m)
    PROVE  ProtocolInvariant'
<1>1. UNCHANGED <<row, req, reqs, sse, known, applied>> /\ acks' \subseteq acks
  BY DEF ReceiveAck, apiVars, agentVars
<1>2. HandlersAreFenced'
  <2>1. CASE AckKind(m, row) = "ignore"
    BY <1>1, <2>1, FencedStays DEF ReceiveAck, ProtocolInvariant
  <2>2. CASE AckKind(m, row) # "ignore"
    <3> DEFINE tx == [pc |-> AckKind(m, row), gen |-> m.gen, read |-> row]
    <3>1. ackTx' = [ackTx EXCEPT ![h] = tx]
      BY <2>2 DEF ReceiveAck
    <3>2. m.id = row.id /\ Exists(row) /\ ~(m.gen < row.desired)
      BY <2>2 DEF AckKind
    <3>3. m.gen = row.desired
      <4>1. m.gen <= row.desired
        BY <3>2 DEF ProtocolInvariant, AcksAreHonest, NotAhead
      <4>2. m.gen \in Nat /\ row.desired \in Nat
        BY AckTyped, RowTyped
      <4> QED
        BY <3>2, <4>1, <4>2
    <3>4. AckKind(m, row) = "applied" => m.status = "applied" /\ row.status # "DELETING"
      BY DEF AckKind
    <3>5. AckKind(m, row) = "removed" => row.status = "DELETING"
      BY DEF AckKind
    <3>6. AckKind(m, row) = "applied" => <<row.id, m.gen>> \in applied
      BY <3>2, <3>3, <3>4 DEF ProtocolInvariant, AcksAreHonest
    <3>7. row.attempted <= m.gen
      BY <3>3 DEF ProtocolInvariant, GenerationOrder
    <3> SUFFICES ASSUME NEW k \in Handlers, ackTx'[k] # Idle
                 PROVE  /\ ackTx'[k].gen = ackTx'[k].read.desired
                        /\ ackTx'[k].read.attempted <= ackTx'[k].gen
                        /\ ackTx'[k].pc = "applied" =>
                             /\ <<ackTx'[k].read.id, ackTx'[k].gen>> \in applied
                             /\ ackTx'[k].read.status # "DELETING"
                        /\ ackTx'[k].pc = "removed" => ackTx'[k].read.status = "DELETING"
      BY <1>1 DEF HandlersAreFenced
    <3>8. CASE k = h
      <4>1. ackTx'[k] = tx
        BY <3>1, <3>8 DEF TypeOK
      <4> QED
        BY <3>3, <3>4, <3>5, <3>6, <3>7, <4>1
    <3>9. CASE k # h
      <4>1. ackTx'[k] = ackTx[k]
        BY <3>1, <3>9 DEF TypeOK
      <4> QED
        BY <4>1 DEF ProtocolInvariant, HandlersAreFenced
    <3> QED
      BY <3>8, <3>9
  <2> QED
    BY <2>1, <2>2
<1>3. RowAdvances
  BY <1>1, SameRowAdvances
<1>4. RequestsAreCurrent' /\ EventsAreNotAhead' /\ MemoryIsApplied' /\ AcksAreHonest'
  BY <1>1, <1>3, RequestsStayCurrent, AdvanceKeepsEvents, AdvanceKeepsMemory, AdvanceKeepsAcks
  DEF ProtocolInvariant
<1> QED
  BY <1>1, <1>2, <1>4, MaxRequestsAssumption, SameRowProtocol DEF TypeOK

(* A fetch-and-push cycle of the agent keeps it. *)
LEMMA RunRouteSyncProtocol ==
    ASSUME TypeOK, TypeOK', ProtocolInvariant, NEW res \in PushResults, RunRouteSync(res)
    PROVE  ProtocolInvariant'
<1> DEFINE rt == FetchedRoute
<1>1. UNCHANGED <<row, req, reqs, sse, ackTx>> /\ SyncRoutes(rt, res)
  BY DEF RunRouteSync, apiVars
<1>2. rt \in Route \cup {NoRoute} /\ (rt # NoRoute => NotAhead(rt) /\ rt.gen > 0)
  BY FetchedNotAhead
<1> HIDE DEF rt
<1>3. RowAdvances
  BY <1>1, SameRowAdvances
<1>4. MemoryIsApplied' /\ applied \subseteq applied' /\ AcksAreHonest'
  <2>1. CASE res = "ok" /\ ~Refused(rt)
    <3>1. Accepted(rt) /\ SendAck(rt, "ok")
      BY <1>1, <2>1 DEF SyncRoutes
    <3>2. /\ MemoryIsApplied' /\ applied \subseteq applied'
          /\ rt # NoRoute => <<rt.id, rt.gen>> \in applied'
      BY <1>1, <1>2, <3>1, AcceptedKeepsMemory
    <3>3. AcksAreHonest /\ "ok" \in PushResults
      BY DEF ProtocolInvariant, PushResults
    <3> QED
      BY <1>1, <1>2, <3>1, <3>2, <3>3, SendAckKeepsAcks
  <2>2. CASE ~(res = "ok" /\ ~Refused(rt))
    <3>1. UNCHANGED <<table, known, applied>>
      BY <1>1, <2>2 DEF SyncRoutes
    <3>2. PICK r \in PushResults \ {"ok"} : SendAck(rt, r)
      BY <1>1, <2>2 DEF SyncRoutes, PushResults
    <3>3. MemoryIsApplied'
      BY <1>3, <3>1, AdvanceKeepsMemory DEF ProtocolInvariant
    <3>4. AcksAreHonest'
      BY <1>1, <1>2, <3>1, <3>2, SendAckKeepsAcks DEF ProtocolInvariant
    <3> QED
      BY <3>1, <3>3, <3>4
  <2> QED
    BY <2>1, <2>2
<1>5. RequestsAreCurrent' /\ EventsAreNotAhead' /\ HandlersAreFenced'
  BY <1>1, <1>3, <1>4, RequestsStayCurrent, AdvanceKeepsEvents, FencedStays DEF ProtocolInvariant
<1> QED
  BY <1>1, <1>4, <1>5, MaxRequestsAssumption, SameRowProtocol DEF TypeOK

(* An SSE event handled by the agent keeps it. *)
LEMMA HandleEventProtocol ==
    ASSUME TypeOK, TypeOK', ProtocolInvariant, NEW res \in PushResults, HandleEvent(res)
    PROVE  ProtocolInvariant'
<1> DEFINE rt == Head(sse)
<1>1. sse \in Seq(Route) /\ sse # << >> /\ sse' = Tail(sse) /\ UNCHANGED <<row, req, reqs, ackTx>>
  BY DEF HandleEvent, TypeOK, apiVars
<1>2. rt \in Route /\ rt = sse[1] /\ 1 \in 1 .. Len(sse)
  BY <1>1
<1>3. NotAhead(rt) /\ rt.gen > 0 /\ rt.id \in Nat /\ rt.gen \in Nat
  BY <1>2, EventTyped DEF ProtocolInvariant, EventsAreNotAhead
<1>4. EventsAreNotAhead'
  <2> SUFFICES ASSUME NEW i \in 1 .. Len(sse')
               PROVE  (NotAhead(sse[i]) /\ sse[i].gen > 0)'
    BY DEF EventsAreNotAhead
  <2>1. i + 1 \in 1 .. Len(sse) /\ sse'[i] = sse[i + 1]
    BY <1>1
  <2>2. NotAhead(sse[i + 1]) /\ sse[i + 1].gen > 0
    BY <2>1 DEF ProtocolInvariant, EventsAreNotAhead
  <2> QED
    BY <1>1, <2>1, <2>2 DEF NotAhead
<1>5. RowAdvances
  BY <1>1, SameRowAdvances
<1> HIDE DEF rt
<1>6. MemoryIsApplied' /\ applied \subseteq applied' /\ AcksAreHonest'
  <2>1. CASE rt.removing /\ ~Envoy
    <3>1. UNCHANGED <<known, applied, acks>>
      BY <2>1 DEF HandleEvent, rt
    <3> QED
      BY <1>5, <3>1, AdvanceKeepsMemory, AdvanceKeepsAcks DEF ProtocolInvariant
  <2>2. CASE ~(rt.removing /\ ~Envoy) /\ AlreadyKnown(rt)
    <3>1. SendAck(rt, "ok") /\ UNCHANGED <<known, applied>> /\ rt.gen <= known[rt.id]
      BY <2>2 DEF HandleEvent, AlreadyKnown, rt
    <3>2. MemoryIsApplied'
      BY <1>5, <3>1, AdvanceKeepsMemory DEF ProtocolInvariant
    <3>3. ASSUME rt.id = row.id, Exists(row), rt.gen = row.desired
          PROVE  <<rt.id, rt.gen>> \in applied
      <4>1. row.id <= reqs /\ MemoryIsApplied
        BY DEF ProtocolInvariant
      <4>2. row.id \in Ids
        <5>1. reqs \in Nat /\ reqs <= MaxRequests /\ row.id \in Nat
          BY RowTyped, MaxRequestsAssumption DEF TypeOK
        <5> QED
          BY <4>1, <5>1, MaxRequestsAssumption DEF Ids
      <4>3. known[row.id] \in Nat
        BY <4>2 DEF TypeOK
      <4>4. known[row.id] <= row.desired /\ (known[row.id] = 0 \/ <<row.id, known[row.id]>> \in applied)
        BY <3>3, <4>1, <4>2 DEF MemoryIsApplied
      <4>5. known[row.id] = rt.gen
        BY <1>3, <3>1, <3>3, <4>3, <4>4
      <4> QED
        BY <1>3, <3>3, <4>4, <4>5
    <3>4. AcksAreHonest'
      BY <1>1, <1>2, <1>3, <3>1, <3>3, SendAckKeepsAcks DEF ProtocolInvariant, PushResults
    <3> QED
      BY <3>1, <3>2, <3>4
  <2>3. CASE ~(rt.removing /\ ~Envoy) /\ ~AlreadyKnown(rt)
    <3>1. SendAck(rt, res)
      BY <2>3 DEF HandleEvent, rt
    <3>2. CASE res = "ok"
      <4>1. Accepted(rt)
        BY <2>3, <3>2 DEF HandleEvent, rt
      <4>2. /\ MemoryIsApplied' /\ applied \subseteq applied'
            /\ rt # NoRoute => <<rt.id, rt.gen>> \in applied'
        BY <1>1, <1>2, <1>3, <4>1, AcceptedKeepsMemory
      <4> QED
        BY <1>1, <1>2, <1>3, <3>1, <4>2, SendAckKeepsAcks DEF ProtocolInvariant
    <3>3. CASE res # "ok"
      <4>1. UNCHANGED <<known, applied>>
        BY <2>3, <3>3 DEF HandleEvent, rt
      <4>2. MemoryIsApplied'
        BY <1>5, <4>1, AdvanceKeepsMemory DEF ProtocolInvariant
      <4> QED
        BY <1>1, <1>2, <1>3, <3>1, <3>3, <4>1, <4>2, SendAckKeepsAcks DEF ProtocolInvariant
    <3> QED
      BY <3>2, <3>3
  <2> QED
    BY <2>1, <2>2, <2>3
<1>7. RequestsAreCurrent' /\ HandlersAreFenced'
  BY <1>1, <1>6, RequestsStayCurrent, FencedStays DEF ProtocolInvariant
<1> QED
  BY <1>1, <1>4, <1>6, <1>7, MaxRequestsAssumption, SameRowProtocol DEF TypeOK

(* Every step keeps the protocol invariant. *)
LEMMA NextProtocol ==
    ASSUME SingleRequest
    PROVE  TypeOK /\ TypeOK' /\ ProtocolInvariant /\ [Next]_vars => ProtocolInvariant'
<1> SUFFICES ASSUME TypeOK, TypeOK', ProtocolInvariant, [Next]_vars
             PROVE  ProtocolInvariant'
  OBVIOUS
(* Steps that change neither the row nor what the others know of it. *)
<1>0. ASSUME UNCHANGED <<row, req, reqs, applied, ackTx>>, known' = known,
             acks' \subseteq acks, sse' = sse
      PROVE  ProtocolInvariant'
  <2>1. RowAdvances
    BY <1>0, SameRowAdvances
  <2>2. RequestsAreCurrent' /\ EventsAreNotAhead' /\ MemoryIsApplied' /\ AcksAreHonest' /\ HandlersAreFenced'
    BY <1>0, <2>1, RequestsStayCurrent, AdvanceKeepsEvents, AdvanceKeepsMemory, AdvanceKeepsAcks,
       FencedStays DEF ProtocolInvariant
  <2> QED
    BY <1>0, <2>2, MaxRequestsAssumption, SameRowProtocol DEF TypeOK
<1>1. ASSUME NEW r \in Requests, NEW op \in Operations, BeginRequest(r, op)
      PROVE  ProtocolInvariant'
  <2>1. UNCHANGED <<row, sse, known, applied, acks, ackTx>> /\ reqs' = reqs + 1
    BY <1>1 DEF BeginRequest, agentVars
  <2>2. RowAdvances
    BY <2>1, SameRowAdvances
  <2>3. reqs \in Nat /\ reqs' \in Nat /\ row.id \in Nat /\ row.id <= reqs
    BY <2>1, MaxRequestsAssumption, RowTyped DEF TypeOK, ProtocolInvariant
  <2>4. ASSUME NEW q \in Requests
        PROVE  req'[q].read = row
    BY <1>1, <2>4 DEF BeginRequest, SingleRequest, TypeOK
  <2>5. RequestsAreCurrent'
    BY <2>1, <2>3, <2>4 DEF RequestsAreCurrent
  <2>6. EventsAreNotAhead' /\ MemoryIsApplied' /\ AcksAreHonest' /\ HandlersAreFenced'
    BY <2>1, <2>2, AdvanceKeepsEvents, AdvanceKeepsMemory, AdvanceKeepsAcks, FencedStays
    DEF ProtocolInvariant
  <2> QED
    BY <2>1, <2>3, <2>5, <2>6, SameRowProtocol
<1>2. ASSUME NEW r \in Requests, CommitRequest(r)
      PROVE  ProtocolInvariant'
  BY <1>2, CommitProtocol
<1>3. ASSUME NEW r \in Requests, RollbackRequest(r)
      PROVE  ProtocolInvariant'
  <2>1. UNCHANGED <<row, reqs, sse, known, applied, acks, ackTx>>
    BY <1>3 DEF RollbackRequest, agentVars
  <2>2. RowAdvances
    BY <2>1, SameRowAdvances
  <2>3. \A q \in Requests : req'[q] = Idle
    BY <1>3 DEF RollbackRequest, SingleRequest, TypeOK
  <2>4. RequestsAreCurrent'
    BY <2>3 DEF RequestsAreCurrent, Idle
  <2>5. EventsAreNotAhead' /\ MemoryIsApplied' /\ AcksAreHonest' /\ HandlersAreFenced'
    BY <2>1, <2>2, AdvanceKeepsEvents, AdvanceKeepsMemory, AdvanceKeepsAcks, FencedStays
    DEF ProtocolInvariant
  <2> QED
    BY <2>1, <2>4, <2>5, MaxRequestsAssumption, SameRowProtocol DEF TypeOK
<1>4. CASE ListPending
  BY <1>0, <1>4 DEF ListPending, agentVars
<1>5. CASE ExpirePending
  <2>1. loop.read \in GatewayDeployment /\ row \in GatewayDeployment
    BY <1>5 DEF ExpirePending, Idle, TypeOK
  <2>2. UNCHANGED <<req, reqs, sse, known, applied, acks, ackTx>>
    BY <1>5 DEF ExpirePending, agentVars
  <2>3. /\ row'.id = row.id /\ row'.desired = row.desired
        /\ row'.synced = row.synced /\ row'.attempted = row.attempted
        /\ Exists(row') => Exists(row)
    BY <1>5, <2>1, TimeoutFacts DEF ExpirePending, SameRow
  <2>4. HandlersAreFenced'
    BY <2>2, FencedStays DEF ProtocolInvariant
  <2> QED
    BY <2>2, <2>3, <2>4, QuietRowProtocol DEF ProtocolInvariant, GenerationOrder, SyncedWasApplied
<1>6. CASE Elapse
  <2>1. UNCHANGED <<req, reqs, sse, known, applied, acks, ackTx>>
    BY <1>6 DEF Elapse, agentVars
  <2>2. /\ row'.id = row.id /\ row'.desired = row.desired
        /\ row'.synced = row.synced /\ row'.attempted = row.attempted
        /\ Exists(row)
    BY <1>6, AgedFacts DEF Elapse, TypeOK
  <2>3. HandlersAreFenced'
    BY <2>1, FencedStays DEF ProtocolInvariant
  <2> QED
    BY <2>1, <2>2, <2>3, QuietRowProtocol DEF ProtocolInvariant, GenerationOrder, SyncedWasApplied
<1>7. ASSUME NEW res \in PushResults, RunRouteSync(res)
      PROVE  ProtocolInvariant'
  BY <1>7, RunRouteSyncProtocol
<1>8. ASSUME NEW res \in PushResults, HandleEvent(res)
      PROVE  ProtocolInvariant'
  BY <1>8, HandleEventProtocol
<1>9. CASE Connect \/ ReadyFetchFails
  BY <1>0, <1>9 DEF Connect, ReadyFetchFails, apiVars
<1>10. CASE Disconnect \/ RestartAgent
  <2>1. UNCHANGED <<row, req, reqs, applied, acks, ackTx>> /\ sse' = << >>
    BY <1>10 DEF Disconnect, RestartAgent, apiVars
  <2>2. RowAdvances
    BY <2>1, SameRowAdvances
  <2>3. EventsAreNotAhead'
    BY <2>1 DEF EventsAreNotAhead
  <2>4. MemoryIsApplied'
    <3>1. CASE known' = known
      BY <2>1, <2>2, <3>1, AdvanceKeepsMemory DEF ProtocolInvariant
    <3>2. CASE known' = [i \in Ids |-> 0]
      <4>1. row'.desired \in Nat
        BY DEF TypeOK, GatewayDeployment
      <4> QED
        BY <3>2, <4>1 DEF MemoryIsApplied
    <3> QED
      BY <1>10, <3>1, <3>2 DEF Disconnect, RestartAgent
  <2>5. RequestsAreCurrent' /\ AcksAreHonest' /\ HandlersAreFenced'
    BY <2>1, <2>2, RequestsStayCurrent, AdvanceKeepsAcks, FencedStays DEF ProtocolInvariant
  <2> QED
    BY <2>1, <2>3, <2>4, <2>5, MaxRequestsAssumption, SameRowProtocol DEF TypeOK
<1>11. ASSUME NEW m \in acks, LoseAck(m)
       PROVE  ProtocolInvariant'
  BY <1>0, <1>11 DEF LoseAck, apiVars, agentVars
<1>12. ASSUME NEW h \in Handlers, NEW m \in acks, ReceiveAck(h, m)
       PROVE  ProtocolInvariant'
  BY <1>12, ReceiveAckProtocol
<1>13. ASSUME NEW h \in Handlers, acknowledge(h)
       PROVE  ProtocolInvariant'
  BY <1>13, AcknowledgeProtocol
<1>14. CASE UNCHANGED vars
  BY <1>0, <1>14 DEF vars
<1> QED
  BY <1>1, <1>2, <1>3, <1>4, <1>5, <1>6, <1>7, <1>8, <1>9, <1>10, <1>11, <1>12, <1>13, <1>14
  DEF Next, ApiStep, EngineStep, AgentStep, AckStep

(* With one API request at a time, row, requests, events, adapter memory,  *)
(* acks and ack handlers agree on the generations in every reachable state *)
(* (the inductive invariant behind the theorems that follow).              *)
THEOREM Protocol ==
    ASSUME SingleRequest
    PROVE  Spec => []ProtocolInvariant
<1>1. Init => TypeOK /\ ProtocolInvariant
  BY InitType, InitProtocol
<1>2. TypeOK /\ ProtocolInvariant /\ [Next]_vars => TypeOK' /\ ProtocolInvariant'
  BY NextType, NextProtocol
<1> QED
  BY <1>1, <1>2, PTL DEF Spec

(* synced_generation <= attempted_generation <= desired_generation, for    *)
(* any number of late, lost, failed or concurrent acks.                    *)
THEOREM GenerationsOrdered ==
    ASSUME SingleRequest
    PROVE  Spec => []GenerationOrder
<1>1. ProtocolInvariant => GenerationOrder
  BY DEF ProtocolInvariant
<1> QED
  BY <1>1, Protocol, PTL

(* The control plane never reports a generation as synced that the gateway *)
(* behind the agent did not accept.                                        *)
THEOREM SyncedIsApplied ==
    ASSUME SingleRequest
    PROVE  Spec => []SyncedWasApplied
<1>1. ProtocolInvariant => SyncedWasApplied
  BY DEF ProtocolInvariant
<1> QED
  BY <1>1, Protocol, PTL

------------------------------------------------------------------------------
(* Tombstones, for any number of concurrent API requests. *)

(* A handler marks as applied, or removes, only what it read as such. *)
TombstoneFence ==
    \A h \in Handlers :
        /\ ackTx[h].pc = "applied" => ackTx[h].read.status # "DELETING"
        /\ ackTx[h].pc = "removed" => ackTx[h].read.status = "DELETING"

(* No ack handler is under way at the start. *)
LEMMA InitFence == Init => TombstoneFence
BY DEF Init, TombstoneFence, Idle

(* Every step keeps the fence: a handler read what it decided upon. *)
LEMMA NextFence == TypeOK /\ TombstoneFence /\ [Next]_vars => TombstoneFence'
<1> SUFFICES ASSUME TypeOK, TombstoneFence, [Next]_vars PROVE TombstoneFence'
  OBVIOUS
<1>1. CASE ackTx' = ackTx
  BY <1>1 DEF TombstoneFence
<1>2. ASSUME NEW h \in Handlers, NEW m \in acks, ReceiveAck(h, m)
      PROVE  TombstoneFence'
  <2>1. CASE AckKind(m, row) = "ignore"
    BY <1>1, <1>2, <2>1 DEF ReceiveAck
  <2>2. CASE AckKind(m, row) # "ignore"
    <3>1. ackTx' = [ackTx EXCEPT ![h] = [pc |-> AckKind(m, row), gen |-> m.gen, read |-> row]]
      BY <1>2, <2>2 DEF ReceiveAck
    <3>2. /\ AckKind(m, row) = "applied" => row.status # "DELETING"
          /\ AckKind(m, row) = "removed" => row.status = "DELETING"
      BY DEF AckKind
    <3> QED
      BY <3>1, <3>2 DEF TombstoneFence, TypeOK
  <2> QED
    BY <2>1, <2>2
<1>3. ASSUME NEW h \in Handlers, acknowledge(h)
      PROVE  TombstoneFence'
  BY <1>3 DEF acknowledge, TombstoneFence, TypeOK, Idle
<1> QED
  BY <1>1, <1>2, <1>3
  DEF Next, ApiStep, EngineStep, AgentStep, AckStep, BeginRequest, CommitRequest,
      RollbackRequest, ListPending, ExpirePending, Elapse, RunRouteSync, HandleEvent,
      Connect, ReadyFetchFails, Disconnect, RestartAgent, LoseAck, vars

(* The write of an ack handler leaves a deletion alone. *)
LEMMA AckRespectsTombstone ==
    ASSUME TypeOK, TombstoneFence, NEW h \in Handlers, acknowledge(h)
    PROVE  /\ row.status = "DELETING" => row'.status \in {"DELETING", "GONE"}
           /\ Exists(row) /\ ~Exists(row') => row.status = "DELETING"
<1> DEFINE tx == ackTx[h]
<1>1. tx \in AckState /\ row \in GatewayDeployment
  BY DEF acknowledge, TypeOK
<1>2. CASE ~Current(tx.read)
  BY <1>2 DEF acknowledge
<1>3. CASE Current(tx.read)
  <2>1. /\ row' = Acknowledged(tx) /\ row.status = tx.read.status
        /\ tx.pc = "applied" => tx.read.status # "DELETING"
        /\ tx.pc = "removed" => tx.read.status = "DELETING"
    BY <1>3 DEF acknowledge, Current, TombstoneFence
  <2>2. CASE tx.pc = "preserve"
    <3>1. row'.status = row.status
      BY <1>1, <2>1, <2>2 DEF Acknowledged, GatewayDeployment
    <3> QED
      BY <3>1 DEF Exists
  <2>3. CASE tx.pc = "applied"
    <3>1. row'.status = "SYNCED"
      BY <1>1, <2>1, <2>3 DEF Acknowledged, GatewayDeployment
    <3> QED
      BY <2>1, <2>3, <3>1 DEF Exists
  <2>4. CASE tx.pc = "failed"
    <3>1. row'.status = IF row.status = "DELETING" THEN "DELETING" ELSE "ERROR"
      BY <1>1, <2>1, <2>4 DEF Acknowledged, GatewayDeployment
    <3> QED
      BY <3>1 DEF Exists
  <2>5. CASE tx.pc = "removed"
    <3>1. row' = Deleted(row)
      BY <2>1, <2>5 DEF Acknowledged
    <3> QED
      BY <1>1, <2>1, <2>5, <3>1, DeletedFacts
  <2> QED
    BY <1>1, <2>2, <2>3, <2>4, <2>5 DEF AckState
<1> QED
  BY <1>2, <1>3

(* CAB-2256 for every configuration, concurrent API requests included: an  *)
(* ack takes a row that is being deleted nowhere but out of the table, and *)
(* removes no row that is not being deleted.                               *)
THEOREM TombstonesRespected == Spec => AcksRespectTombstones
<1>1. Init => TypeOK /\ TombstoneFence
  BY InitType, InitFence
<1>2. TypeOK /\ TombstoneFence /\ [Next]_vars => TypeOK' /\ TombstoneFence'
  BY NextType, NextFence
<1>3. TypeOK /\ TombstoneFence =>
        \A h \in Handlers : acknowledge(h) =>
          /\ row.status = "DELETING" => row'.status \in {"DELETING", "GONE"}
          /\ Exists(row) /\ ~Exists(row') => row.status = "DELETING"
  BY AckRespectsTombstone
<1> QED
  BY <1>1, <1>2, <1>3, PTL DEF Spec, AcksRespectTombstones

------------------------------------------------------------------------------
(* Refinement: the row implements ObservedGeneration. *)

(* The initial row maps to the initial abstract state. *)
LEMMA InitObserves == Init => Observed!Init
<1> SUFFICES ASSUME Init PROVE Observed!Init
  OBVIOUS
<1>1. PICK s \in Specs : row = Deleted(Created(0, s))
  BY DEF Init
<1>2. ~Exists(row)
  BY <1>1, CreatedFacts, DeletedFacts DEF Exists
<1> QED
  BY <1>2 DEF Observed!Init

(* A committed request is a Create, Desire or Remove, or a stutter. *)
LEMMA CommitObserves ==
    ASSUME TypeOK, ProtocolInvariant, NEW r \in Requests, CommitRequest(r)
    PROVE  [Observed!Next]_(Observed!vars)
<1> DEFINE op == req[r].op
           read == req[r].read
<1>1. req[r] \in RequestState
  BY DEF CommitRequest, Idle, TypeOK
<1>2. op \in Operations /\ read \in GatewayDeployment /\ row \in GatewayDeployment
  BY <1>1 DEF RequestState, TypeOK
<1>3. CanWrite(op, read, row) /\ row' = Written(op, read, row)
  BY DEF CommitRequest
<1>4. SameRow(row, read) => read.desired = row.desired
  BY DEF CommitRequest, ProtocolInvariant, RequestsAreCurrent
<1>5. \/ /\ ~Exists(row) /\ Exists(row')
         /\ row'.desired = 1 /\ row'.synced = 0
      \/ SameRow(row, read) /\ ~Exists(row')
      \/ /\ SameRow(row, read) /\ Exists(row')
         /\ row'.desired \in {row.desired, read.desired + 1}
         /\ row'.synced = row.synced
  BY <1>2, <1>3, WrittenFacts
<1> HIDE DEF op, read
<1>6. CASE ~Exists(row)
  <2>1. Observed!Create
    BY <1>5, <1>6 DEF Observed!Create, SameRow
  <2> QED
    BY <2>1 DEF Observed!Next
<1>7. CASE Exists(row) /\ ~Exists(row')
  <2>1. Observed!Remove
    BY <1>7 DEF Observed!Remove
  <2> QED
    BY <2>1 DEF Observed!Next
<1>8. CASE Exists(row) /\ Exists(row')
  <2>1. Observed!Desire \/ UNCHANGED Observed!vars
    BY <1>4, <1>5, <1>8 DEF Observed!Desire, Observed!vars
  <2> QED
    BY <2>1 DEF Observed!Next
<1> QED
  BY <1>6, <1>7, <1>8

(* An accepted ack is an Observe or a Remove, or a stutter. *)
LEMMA AcknowledgeObserves ==
    ASSUME TypeOK, ProtocolInvariant, NEW h \in Handlers, acknowledge(h)
    PROVE  [Observed!Next]_(Observed!vars)
<1> DEFINE tx == ackTx[h]
<1>1. tx \in AckState /\ row \in GatewayDeployment
  BY DEF acknowledge, TypeOK
<1>2. tx.gen = tx.read.desired /\ tx.read.attempted <= tx.gen
  BY <1>1 DEF acknowledge, ProtocolInvariant, HandlersAreFenced, AckState
<1>3. CASE ~Current(tx.read)
  BY <1>3 DEF acknowledge, Observed!vars
<1>4. CASE Current(tx.read)
  <2>1. row' = Acknowledged(tx) /\ Exists(row) /\ row.desired = tx.gen
    BY <1>2, <1>4 DEF acknowledge, Current, SameRow
  <2>2. \/ tx.pc = "removed" /\ row' = Deleted(row)
        \/ /\ tx.pc # "removed"
           /\ row'.desired = row.desired
           /\ row'.synced = IF tx.pc = "applied" THEN tx.gen ELSE row.synced
           /\ row'.status \in {row.status, "SYNCED", "ERROR"}
    BY <1>1, <1>2, <2>1, AcknowledgedFacts
  <2> HIDE DEF tx
  <2>3. CASE tx.pc = "removed"
    <3>1. ~Exists(row')
      BY <1>1, <2>2, <2>3, DeletedFacts DEF Exists
    <3>2. Observed!Remove
      BY <2>1, <3>1 DEF Observed!Remove
    <3> QED
      BY <3>2 DEF Observed!Next
  <2>4. CASE tx.pc # "removed"
    <3>1. Exists(row')
      BY <2>1, <2>2, <2>4 DEF Exists
    <3>2. Observed!Observe \/ UNCHANGED Observed!vars
      BY <2>1, <2>2, <2>4, <3>1 DEF Observed!Observe, Observed!vars
    <3> QED
      BY <3>2 DEF Observed!Next
  <2> QED
    BY <2>3, <2>4
<1> QED
  BY <1>3, <1>4

(* Every step of the protocol is an abstract step or a stutter. *)
LEMMA NextObserves ==
    ASSUME TypeOK, ProtocolInvariant, [Next]_vars
    PROVE  [Observed!Next]_(Observed!vars)
<1>1. CASE row' = row
  BY <1>1 DEF Observed!vars
<1>2. ASSUME NEW r \in Requests, CommitRequest(r)
      PROVE  [Observed!Next]_(Observed!vars)
  BY <1>2, CommitObserves
<1>3. ASSUME NEW h \in Handlers, acknowledge(h)
      PROVE  [Observed!Next]_(Observed!vars)
  BY <1>3, AcknowledgeObserves
<1>4. CASE ExpirePending
  <2>1. loop.read \in GatewayDeployment /\ row \in GatewayDeployment
    BY <1>4 DEF ExpirePending, Idle, TypeOK
  <2>2. /\ row'.desired = row.desired /\ row'.synced = row.synced
        /\ Exists(row') <=> Exists(row)
    BY <1>4, <2>1, TimeoutFacts DEF ExpirePending, SameRow, Exists
  <2>3. CASE Exists(row) /\ Exists(row')
    BY <2>2, <2>3 DEF Observed!vars
  <2>4. CASE ~Exists(row) /\ ~Exists(row')
    BY <2>4 DEF Observed!vars, Exists
  <2> QED
    BY <2>2, <2>3, <2>4
<1>5. CASE Elapse
  <2>1. /\ row'.desired = row.desired /\ row'.synced = row.synced
        /\ Exists(row') <=> Exists(row)
    BY <1>5, AgedFacts DEF Elapse, TypeOK, Exists
  <2>3. CASE Exists(row) /\ Exists(row')
    BY <2>1, <2>3 DEF Observed!vars
  <2>4. CASE ~Exists(row) /\ ~Exists(row')
    BY <2>4 DEF Observed!vars, Exists
  <2> QED
    BY <2>1, <2>3, <2>4
<1> QED
  BY <1>1, <1>2, <1>3, <1>4, <1>5
  DEF Next, ApiStep, EngineStep, AgentStep, AckStep, BeginRequest, RollbackRequest,
      ListPending, RunRouteSync, HandleEvent, Connect, ReadyFetchFails, Disconnect,
      RestartAgent, LoseAck, ReceiveAck, apiVars, vars

(* With one API request at a time, every behaviour of the deployment       *)
(* protocol is one of ObservedGeneration: each change of the desired state *)
(* takes the next generation, and synced_generation only ever becomes the  *)
(* generation desired at that moment.                                      *)
THEOREM RefinesObservedGeneration ==
    ASSUME SingleRequest
    PROVE  Spec => ObservesGenerations
<1>1. Init => Observed!Init
  BY InitObserves
<1>2. TypeOK /\ ProtocolInvariant /\ [Next]_vars => [Observed!Next]_(Observed!vars)
  BY NextObserves
<1> QED
  BY <1>1, <1>2, TypeCorrect, Protocol, PTL DEF Spec, ObservesGenerations, Observed!Spec
------------------------------------------------------------------------------
(* Removed routes, for an Envoy agent with tombstones (SSE or dual mode)   *)
(* and one API request at a time.  ProtocolInvariant orders generations    *)
(* but does not say which of them are tombstones, nor what is on the       *)
(* gateway; the parts below do.                                            *)

(* A row in DELETING has been so since its generation began: what was read *)
(* or announced of that generation is a tombstone.                         *)
ReadsAreTombstones ==
    \A r \in Requests :
        req[r].pc = "read" /\ SameRow(row, req[r].read) /\ row.status = "DELETING" =>
            req[r].read.status = "DELETING"
EventsAreTombstones ==
    \A i \in 1 .. Len(sse) :
        sse[i].id = row.id /\ row.status = "DELETING" /\ sse[i].gen = row.desired => sse[i].removing

(* The table holds the route accepted last, which is no tombstone.         *)
TableIsRemembered ==
    table # NoRoute =>
        /\ table.id \in Ids /\ known[table.id] = table.gen
        /\ table.id = row.id /\ row.status = "DELETING" => table.gen # row.desired

(* The route is off the gateway, and no queued event brings it back.       *)
Cleared ==
    /\ table # NoRoute => table.id # row.id
    /\ \A i \in 1 .. Len(sse) :
        sse[i].id = row.id => sse[i].removing \/ sse[i].gen <= known[row.id]

(* An ack handler holds no row, and no generation, still to come.          *)
HandlersAreNotAhead ==
    \A h \in Handlers : ackTx[h] # Idle =>
        /\ ackTx[h].read.id <= row.id
        /\ SameRow(row, ackTx[h].read) => ackTx[h].read.desired <= row.desired

(* An ack of a removal that is still to take effect tells the truth, so    *)
(* does the handler that is about to delete the row, and so does the       *)
(* absence of the row.                                                     *)
RemovalsAreTrue ==
    /\ \A m \in acks :
        m.status = "removed" /\ m.id = row.id /\ row.status = "DELETING" /\ m.gen = row.desired => Cleared
    /\ \A h \in Handlers :
        ackTx[h].pc = "removed" /\ Current(ackTx[h].read) => Cleared
    /\ ~Exists(row) /\ row.id # 0 => Cleared

RemovalInvariant ==
    /\ ReadsAreTombstones
    /\ EventsAreTombstones
    /\ TableIsRemembered
    /\ HandlersAreNotAhead
    /\ RemovalsAreTrue

(* Nothing has been deployed, announced or removed at the start. *)
LEMMA InitRemoval == Init => RemovalInvariant
<1> SUFFICES ASSUME Init PROVE RemovalInvariant
  OBVIOUS
<1>1. PICK s \in Specs : row = Deleted(Created(0, s))
  BY DEF Init
<1>2. row.id = 0 /\ row.status = "GONE"
  BY <1>1, CreatedFacts, DeletedFacts
<1>3. ReadsAreTombstones /\ EventsAreTombstones
  BY <1>2 DEF ReadsAreTombstones, EventsAreTombstones
<1>4. TableIsRemembered /\ HandlersAreNotAhead
  BY DEF Init, TableIsRemembered, HandlersAreNotAhead
<1>5. RemovalsAreTrue
  BY <1>2 DEF Init, RemovalsAreTrue, Idle
<1> QED
  BY <1>3, <1>4, <1>5 DEF RemovalInvariant

(* How a step that changes the row may do so: a tombstone keeps its row,   *)
(* within one generation a row does not become a tombstone, and a row goes *)
(* only when its route is gone.                                            *)
RowRetires ==
    /\ RowAdvances
    /\ row'.status = "DELETING" => row'.id = row.id
    /\ row'.status = "DELETING" /\ row'.desired = row.desired => row.status = "DELETING"
    /\ ~Exists(row') => row'.id = row.id /\ (row.id # 0 => Cleared)

(* Acks, events and handlers of an older generation say nothing of the     *)
(* tombstone that follows it.                                              *)
LEMMA RetiringKeepsEvents ==
    ASSUME TypeOK, TypeOK', ProtocolInvariant, EventsAreTombstones, RowRetires,
           NEW i \in 1 .. Len(sse), sse[i].id = row'.id, row'.status = "DELETING",
           sse[i].gen = row'.desired
    PROVE  sse[i].removing
<1>1. sse[i].id \in Nat /\ sse[i].gen \in Nat /\ NotAhead(sse[i])
  BY EventTyped DEF ProtocolInvariant, EventsAreNotAhead
<1>2. row'.desired \in Nat /\ row'.id = row.id /\ Exists(row')
  BY DEF TypeOK, GatewayDeployment, RowRetires, Exists
<1>3. Exists(row) /\ row'.desired >= row.desired
  BY <1>2 DEF RowRetires, RowAdvances
<1>4. row'.desired = row.desired
  BY <1>1, <1>2, <1>3, RowTyped DEF NotAhead
<1> QED
  BY <1>2, <1>4 DEF RowRetires, EventsAreTombstones

(* The key of the row and of what is not ahead of it index the memory. *)
LEMMA KnownIds ==
    ASSUME TypeOK, ProtocolInvariant, NEW i \in Nat, i <= row.id
    PROVE  i \in Ids /\ known[i] \in Nat
<1>1. reqs \in Nat /\ reqs <= MaxRequests /\ row.id \in Nat /\ row.id <= reqs
  BY RowTyped, MaxRequestsAssumption DEF TypeOK, ProtocolInvariant
<1>2. i \in Ids
  BY <1>1, MaxRequestsAssumption DEF Ids
<1> QED
  BY <1>2 DEF TypeOK

(* A table that is remembered stays so while the row changes. *)
LEMMA RetiringKeepsTable ==
    ASSUME TypeOK, TypeOK', ProtocolInvariant, TableIsRemembered, RowRetires,
           UNCHANGED <<table, known>>
    PROVE  TableIsRemembered'
<1> SUFFICES ASSUME table # NoRoute, table.id = row'.id, row'.status = "DELETING",
                    table.gen = row'.desired
             PROVE  FALSE
  BY DEF TableIsRemembered
<1>1. row'.desired \in Nat /\ row'.id = row.id /\ Exists(row')
  BY DEF TypeOK, GatewayDeployment, RowRetires, Exists
<1>2. Exists(row) /\ row'.desired >= row.desired
  BY <1>1 DEF RowRetires, RowAdvances
<1>3. table.id \in Ids /\ known[table.id] = table.gen
  BY DEF TableIsRemembered
<1>4. table.gen <= row.desired
  BY <1>1, <1>2, <1>3 DEF ProtocolInvariant, MemoryIsApplied
<1>5. row'.desired = row.desired
  BY <1>1, <1>2, <1>4, RowTyped
<1> QED
  BY <1>1, <1>5 DEF RowRetires, TableIsRemembered

(* A handler does not run ahead of a row that advances. *)
LEMMA RetiringKeepsHandlers ==
    ASSUME TypeOK, TypeOK', HandlersAreNotAhead, RowAdvances,
           \A h \in Handlers : ackTx'[h] \in {ackTx[h], Idle}
    PROVE  HandlersAreNotAhead'
<1> SUFFICES ASSUME NEW h \in Handlers, ackTx'[h] # Idle
             PROVE  /\ ackTx'[h].read.id <= row'.id
                    /\ SameRow(row', ackTx'[h].read) => ackTx'[h].read.desired <= row'.desired
  BY DEF HandlersAreNotAhead
<1>1. ackTx'[h] = ackTx[h] /\ ackTx[h] # Idle
  OBVIOUS
<1>2. ackTx[h].read \in GatewayDeployment
  BY <1>1 DEF TypeOK, AckState
<1>3. /\ ackTx[h].read.id <= row.id
      /\ SameRow(row, ackTx[h].read) => ackTx[h].read.desired <= row.desired
  BY <1>1 DEF HandlersAreNotAhead
<1>4. /\ ackTx[h].read.id \in Nat /\ ackTx[h].read.desired \in Nat
      /\ row'.id \in Nat /\ row'.desired \in Nat
  BY <1>2 DEF TypeOK, GatewayDeployment
<1> HIDE DEF Idle
<1> QED
  BY <1>1, <1>3, <1>4, RowTyped DEF RowAdvances, SameRow

(* What reports a removal of the row as it is after the step reported it   *)
(* of the row before.                                                      *)
LEMMA RetiringKeepsReports ==
    ASSUME TypeOK, TypeOK', ProtocolInvariant, HandlersAreNotAhead, RemovalsAreTrue, RowRetires,
           row'.id = row.id /\ row'.desired = row.desired /\ row.status = "DELETING"
               /\ row'.status = "DELETING" /\ Cleared => Cleared',
           ~Exists(row') => (Cleared => Cleared'),
           acks' \subseteq acks,
           \A h \in Handlers : ackTx'[h] \in {ackTx[h], Idle}
    PROVE  RemovalsAreTrue'
<1>0. row'.desired \in Nat /\ row'.id \in Nat /\ row.id \in Nat /\ row.desired \in Nat
  BY RowTyped DEF TypeOK, GatewayDeployment
<1>1. ASSUME NEW m \in acks', m.status = "removed", m.id = row'.id, row'.status = "DELETING",
             m.gen = row'.desired
      PROVE  Cleared'
  <2>1. m \in acks /\ m.id \in Nat /\ m.gen \in Nat
    BY AckTyped
  <2>2. NotAhead(m)
    BY <2>1 DEF ProtocolInvariant, AcksAreHonest
  <2>3. row'.id = row.id /\ Exists(row')
    BY <1>1 DEF RowRetires, Exists
  <2>4. Exists(row) /\ row'.desired >= row.desired
    BY <2>3 DEF RowRetires, RowAdvances
  <2>5. row'.desired = row.desired
    BY <1>0, <1>1, <2>1, <2>2, <2>3, <2>4 DEF NotAhead
  <2>6. row.status = "DELETING"
    BY <1>1, <2>5 DEF RowRetires
  <2>7. Cleared
    BY <1>1, <2>1, <2>3, <2>5, <2>6 DEF RemovalsAreTrue
  <2> QED
    BY <1>1, <2>3, <2>5, <2>6, <2>7
<1>2. ASSUME NEW h \in Handlers, ackTx'[h].pc = "removed", Current(ackTx[h].read)'
      PROVE  Cleared'
  <2>1. ackTx'[h] = ackTx[h] /\ ackTx[h] # Idle /\ ackTx[h].pc = "removed"
    BY <1>2 DEF Idle
  <2>2. ackTx[h].read \in GatewayDeployment
    BY <2>1 DEF TypeOK, AckState
  <2> DEFINE read == ackTx[h].read
  <2>3. SameRow(row', read) /\ row'.desired = read.desired /\ row'.status = read.status
    BY <1>2, <2>1 DEF Current
  <2>4. read.status = "DELETING"
    BY <2>1 DEF ProtocolInvariant, HandlersAreFenced
  <2>5. /\ read.id <= row.id
        /\ SameRow(row, read) => read.desired <= row.desired
    BY <2>1 DEF HandlersAreNotAhead
  <2>6. read.id \in Nat /\ read.desired \in Nat
    BY <2>2 DEF GatewayDeployment
  <2> HIDE DEF read
  <2>7. row'.id = row.id /\ Exists(row')
    BY <2>3, <2>4 DEF RowRetires, SameRow
  <2>8. Exists(row) /\ row'.desired >= row.desired
    BY <2>7 DEF RowRetires, RowAdvances
  <2>9. SameRow(row, read) /\ row'.desired = row.desired
    BY <1>0, <2>3, <2>5, <2>6, <2>7, <2>8 DEF SameRow
  <2>10. row.status = "DELETING"
    BY <2>3, <2>4, <2>9 DEF RowRetires
  <2>11. Current(read)
    BY <2>3, <2>4, <2>9, <2>10 DEF Current
  <2>12. Cleared
    BY <2>1, <2>11 DEF RemovalsAreTrue, read
  <2> QED
    BY <2>3, <2>4, <2>7, <2>9, <2>10, <2>12
<1>3. ~Exists(row') /\ row'.id # 0 => Cleared'
  BY DEF RowRetires
<1> QED
  BY <1>1, <1>2, <1>3 DEF RemovalsAreTrue

(* A committed request and its event keep the invariant. *)
LEMMA CommitRemoval ==
    ASSUME TypeOK, TypeOK', ProtocolInvariant, RemovalInvariant, SingleRequest, is_sse_enabled,
           NEW r \in Requests, CommitRequest(r)
    PROVE  RemovalInvariant'
<1> DEFINE op == req[r].op
           read == req[r].read
           told == Announced(op, read, row')
<1>1. req[r] \in RequestState
  BY DEF CommitRequest, Idle, TypeOK
<1>2. op \in Operations /\ read \in GatewayDeployment /\ row \in GatewayDeployment
  BY <1>1 DEF RequestState, TypeOK
<1>3. CanWrite(op, read, row) /\ row' = Written(op, read, row)
  BY DEF CommitRequest
<1>4. SameRow(row, read) => read.desired = row.desired
  BY DEF CommitRequest, ProtocolInvariant, RequestsAreCurrent
<1>5. SameRow(row, read) /\ row.status = "DELETING" => read.status = "DELETING"
  BY DEF CommitRequest, RemovalInvariant, ReadsAreTombstones
<1>6. \/ /\ ~Exists(row) /\ Exists(row')
         /\ row'.id = row.id + 1
      \/ SameRow(row, read) /\ ~Exists(row')
      \/ /\ SameRow(row, read) /\ Exists(row')
         /\ row'.id = row.id
         /\ row'.desired \in {row.desired, read.desired + 1}
  BY <1>2, <1>3, WrittenFacts
<1>7. /\ Exists(row')
      /\ row'.status = "DELETING" => row'.id = row.id /\ SameRow(row, read)
      /\ row'.status = "DELETING" /\ row'.desired = row.desired => row.status = "DELETING"
  BY <1>2, <1>3, <1>4, WrittenStatus
<1>8. sse' = sse \/ sse' = Append(sse, RouteOf(told))
  BY <1>3 DEF CommitRequest, Publish
<1>9. told = row' \/ (told = read /\ SameRow(row, read))
  BY <1>3, Zenon DEF Announced, CanWrite
<1>10. /\ UNCHANGED <<table, known, acks, ackTx>>
       /\ \A q \in Requests : req'[q] = Idle
  BY DEF CommitRequest, SingleRequest, TypeOK
<1>11. told \in GatewayDeployment
  BY <1>2, <1>9 DEF TypeOK
<1> HIDE DEF op, read, told
<1>12. /\ RouteOf(told) \in Route /\ RouteOf(told).gen = told.desired
       /\ RouteOf(told).removing = (told.status = "DELETING")
  BY <1>11, RouteOfType DEF RouteOf
<1>13. RowRetires
  <2>1. RowAdvances
    BY <1>4, <1>6, <1>7, RowTyped DEF RowAdvances, SameRow
  <2> QED
    BY <1>7, <2>1 DEF RowRetires
<1>14. ASSUME row'.status = "DELETING", told.desired = row'.desired \/ row.status = "DELETING"
       PROVE  RouteOf(told).removing
  <2>1. CASE told = row'
    BY <1>12, <1>14, <2>1
  <2>2. CASE told = read /\ SameRow(row, read)
    <3>1. row.status = "DELETING"
      BY <1>4, <1>7, <1>14, <2>2
    <3> QED
      BY <1>5, <1>12, <2>2, <3>1
  <2> QED
    BY <1>9, <2>1, <2>2
<1>15. ASSUME NEW i \in 1 .. Len(sse')
       PROVE  \/ i \in 1 .. Len(sse) /\ sse'[i] = sse[i]
              \/ sse'[i] = RouteOf(told)
  <2>1. sse \in Seq(Route)
    BY DEF TypeOK
  <2> QED
    BY <1>8, <1>12, <2>1
<1>16. ReadsAreTombstones'
  BY <1>10 DEF ReadsAreTombstones, Idle
<1>17. EventsAreTombstones'
  <2> SUFFICES ASSUME NEW i \in 1 .. Len(sse'), sse'[i].id = row'.id, row'.status = "DELETING",
                      sse'[i].gen = row'.desired
               PROVE  sse'[i].removing
    BY DEF EventsAreTombstones
  <2>1. CASE i \in 1 .. Len(sse) /\ sse'[i] = sse[i]
    BY <1>13, <2>1, RetiringKeepsEvents DEF RemovalInvariant
  <2>2. CASE sse'[i] = RouteOf(told)
    BY <1>12, <1>14, <2>2
  <2> QED
    BY <1>15, <2>1, <2>2
<1>18. TableIsRemembered' /\ HandlersAreNotAhead'
  BY <1>10, <1>13, RetiringKeepsTable, RetiringKeepsHandlers DEF RemovalInvariant, RowRetires
<1>19. RemovalsAreTrue'
  <2>1. ASSUME row'.id = row.id, row.status = "DELETING", row'.status = "DELETING", Cleared
        PROVE  Cleared'
    <3>1. ASSUME NEW i \in 1 .. Len(sse'), sse'[i].id = row'.id
          PROVE  sse'[i].removing \/ sse'[i].gen <= known'[row'.id]
      <4>1. CASE i \in 1 .. Len(sse) /\ sse'[i] = sse[i]
        BY <1>10, <2>1, <3>1, <4>1 DEF Cleared
      <4>2. CASE sse'[i] = RouteOf(told)
        BY <1>14, <2>1, <4>2
      <4> QED
        BY <1>15, <4>1, <4>2
    <3> QED
      BY <1>10, <2>1, <3>1 DEF Cleared
  <2>2. row'.id = row.id /\ row'.desired = row.desired /\ row.status = "DELETING"
          /\ row'.status = "DELETING" /\ Cleared => Cleared'
    BY <2>1
  <2>3. /\ ~Exists(row') => (Cleared => Cleared')
        /\ acks' \subseteq acks
        /\ \A h \in Handlers : ackTx'[h] \in {ackTx[h], Idle}
    BY <1>7, <1>10
  <2>4. HandlersAreNotAhead /\ RemovalsAreTrue
    BY DEF RemovalInvariant
  <2> QED
    BY <1>13, <2>2, <2>3, <2>4, RetiringKeepsReports
<1> QED
  BY <1>16, <1>17, <1>18, <1>19 DEF RemovalInvariant

(* Steps of the engine and of the ack handlers, which publish nothing. *)
LEMMA QuietRemoval ==
    ASSUME TypeOK, TypeOK', ProtocolInvariant, RemovalInvariant, RowRetires,
           row'.id = row.id, Exists(row') => row'.desired = row.desired,
           UNCHANGED <<req, sse, table, known, acks>>,
           \A h \in Handlers : ackTx'[h] \in {ackTx[h], Idle}
    PROVE  RemovalInvariant'
<1>1. ReadsAreTombstones'
  <2> SUFFICES ASSUME NEW r \in Requests, req[r].pc = "read", SameRow(row', req[r].read),
                      row'.status = "DELETING"
               PROVE  req[r].read.status = "DELETING"
    BY DEF ReadsAreTombstones
  <2>1. Exists(row) /\ row.status = "DELETING" /\ row.id = req[r].read.id
    BY DEF RowRetires, RowAdvances, SameRow
  <2> QED
    BY <2>1 DEF RemovalInvariant, ReadsAreTombstones, SameRow
<1>2. EventsAreTombstones'
  <2> SUFFICES ASSUME NEW i \in 1 .. Len(sse), sse[i].id = row'.id, row'.status = "DELETING",
                      sse[i].gen = row'.desired
               PROVE  sse[i].removing
    BY DEF EventsAreTombstones
  <2> QED
    BY RetiringKeepsEvents DEF RemovalInvariant
<1>3. TableIsRemembered' /\ HandlersAreNotAhead'
  BY RetiringKeepsTable, RetiringKeepsHandlers DEF RemovalInvariant, RowRetires
<1>4. Cleared => Cleared'
  BY DEF Cleared
<1>5. RemovalsAreTrue'
  <2>1. row'.id = row.id /\ row'.desired = row.desired /\ row.status = "DELETING"
          /\ row'.status = "DELETING" /\ Cleared => Cleared'
    BY <1>4
  <2>2. (~Exists(row') => (Cleared => Cleared')) /\ acks' \subseteq acks
    BY <1>4
  <2>3. HandlersAreNotAhead /\ RemovalsAreTrue
    BY DEF RemovalInvariant
  <2> QED
    BY <2>1, <2>2, <2>3, RetiringKeepsReports
<1> QED
  BY <1>1, <1>2, <1>3, <1>5 DEF RemovalInvariant

(* An ack handler deletes the row only when its route is off the gateway. *)
LEMMA AcknowledgeRemoval ==
    ASSUME TypeOK, TypeOK', ProtocolInvariant, RemovalInvariant, NEW h \in Handlers, acknowledge(h)
    PROVE  RemovalInvariant'
<1> DEFINE tx == ackTx[h]
<1>1. tx \in AckState /\ row \in GatewayDeployment
  BY DEF acknowledge, TypeOK
<1>2. tx.read.attempted <= tx.gen
  BY DEF acknowledge, ProtocolInvariant, HandlersAreFenced
<1>3. UNCHANGED <<req, sse, table, known, acks>>
  BY DEF acknowledge, agentVars
<1>4. \A g \in Handlers : ackTx'[g] \in {ackTx[g], Idle}
  BY DEF acknowledge, TypeOK
<1>5. CASE ~Current(tx.read)
  <2>1. row' = row
    BY <1>5 DEF acknowledge
  <2>2. RowRetires
    BY <2>1, SameRowAdvances DEF RowRetires, RemovalInvariant, RemovalsAreTrue
  <2> QED
    BY <1>3, <1>4, <2>1, <2>2, QuietRemoval
<1>6. CASE Current(tx.read) /\ tx.pc = "removed"
  <2>1. row' = Deleted(row)
    BY <1>6 DEF acknowledge, Acknowledged
  <2>2. row'.id = row.id /\ row'.status = "GONE"
    BY <1>1, <2>1, DeletedFacts
  <2>3. Cleared
    BY <1>6 DEF RemovalInvariant, RemovalsAreTrue
  <2>4. RowRetires
    BY <2>2, <2>3, RowTyped DEF RowRetires, RowAdvances, Exists
  <2> QED
    BY <1>3, <1>4, <2>2, <2>4, QuietRemoval DEF Exists
<1>7. CASE Current(tx.read) /\ tx.pc # "removed"
  <2>1. row' = Acknowledged(tx) /\ Exists(row)
    BY <1>7 DEF acknowledge, Current, SameRow
  <2>2. /\ row'.id = row.id /\ row'.desired = row.desired
        /\ row'.status \in {row.status, "SYNCED", "ERROR"}
    BY <1>1, <1>2, <1>7, <2>1, AcknowledgedFacts
  <2>3. RowRetires
    BY <2>1, <2>2, RowTyped DEF RowRetires, RowAdvances, Exists
  <2> QED
    BY <1>3, <1>4, <2>2, <2>3, QuietRemoval
<1> QED
  BY <1>5, <1>6, <1>7

(* A handler that reads an ack of a removal takes over what it reports. *)
LEMMA ReceiveAckRemoval ==
    ASSUME TypeOK, TypeOK', RemovalInvariant,
           NEW h \in Handlers, NEW m \in acks, ReceiveAck(h, m)
    PROVE  RemovalInvariant'
<1> DEFINE tx == [pc |-> AckKind(m, row), gen |-> m.gen, read |-> row]
<1>1. UNCHANGED <<row, req, sse, table, known>> /\ acks' \subseteq acks
  BY DEF ReceiveAck, apiVars, agentVars
<1>2. \A g \in Handlers : ackTx'[g] = ackTx[g] \/ (ackTx'[g] = tx /\ AckKind(m, row) # "ignore")
  BY DEF ReceiveAck, TypeOK
<1>3. tx.pc = AckKind(m, row) /\ tx.read = row
  OBVIOUS
<1>4. AckKind(m, row) = "removed" =>
        m.status = "removed" /\ m.id = row.id /\ row.status = "DELETING" /\ m.gen = row.desired
  BY DEF AckKind
<1> HIDE DEF tx
<1>5. ReadsAreTombstones' /\ EventsAreTombstones' /\ TableIsRemembered' /\ (Cleared' <=> Cleared)
  BY <1>1 DEF RemovalInvariant, ReadsAreTombstones, EventsAreTombstones, TableIsRemembered, Cleared
<1>6. HandlersAreNotAhead'
  <2> SUFFICES ASSUME NEW g \in Handlers, ackTx'[g] # Idle
               PROVE  /\ ackTx'[g].read.id <= row.id
                      /\ SameRow(row, ackTx'[g].read) => ackTx'[g].read.desired <= row.desired
    BY <1>1 DEF HandlersAreNotAhead
  <2>1. CASE ackTx'[g] = ackTx[g]
    BY <2>1 DEF RemovalInvariant, HandlersAreNotAhead
  <2>2. CASE ackTx'[g] = tx
    BY <1>3, <2>2, RowTyped
  <2> QED
    BY <1>2, <2>1, <2>2
<1>7. RemovalsAreTrue'
  <2>1. ASSUME NEW g \in Handlers, ackTx'[g].pc = "removed", Current(ackTx[g].read)'
        PROVE  Cleared
    <3>1. CASE ackTx'[g] = ackTx[g]
      BY <1>1, <2>1, <3>1 DEF RemovalInvariant, RemovalsAreTrue, Current
    <3>2. CASE ackTx'[g] = tx
      BY <1>3, <1>4, <2>1, <3>2 DEF RemovalInvariant, RemovalsAreTrue
    <3> QED
      BY <1>2, <3>1, <3>2
  <2> QED
    BY <1>1, <1>5, <2>1 DEF RemovalInvariant, RemovalsAreTrue
<1> QED
  BY <1>5, <1>6, <1>7 DEF RemovalInvariant

(* Steps of the agent: the row and the handlers stay as they are, and what *)
(* is reported as removed is removed after the step.                       *)
LEMMA AgentReports ==
    ASSUME ProtocolInvariant, RemovalsAreTrue, UNCHANGED <<row, ackTx>>,
           row.status \in {"DELETING", "GONE"} /\ Cleared => Cleared',
           \A m \in acks' \ acks :
               m.status = "removed" /\ m.id = row.id /\ row.status = "DELETING" /\ m.gen = row.desired
                   => Cleared'
    PROVE  RemovalsAreTrue'
<1>1. ASSUME NEW m \in acks', m.status = "removed", m.id = row.id, row.status = "DELETING",
             m.gen = row.desired
      PROVE  Cleared'
  BY <1>1 DEF RemovalsAreTrue
<1>2. ASSUME NEW h \in Handlers, ackTx[h].pc = "removed", Current(ackTx[h].read)
      PROVE  Cleared'
  <2>1. Cleared
    BY <1>2 DEF RemovalsAreTrue
  <2>2. row.status = "DELETING"
    <3>1. ackTx[h] # Idle
      BY <1>2 DEF Idle
    <3>2. ackTx[h].read.status = "DELETING"
      BY <1>2, <3>1 DEF ProtocolInvariant, HandlersAreFenced
    <3> QED
      BY <1>2, <3>2 DEF Current
  <2> QED
    BY <2>1, <2>2
<1>3. ~Exists(row) /\ row.id # 0 => Cleared'
  BY DEF RemovalsAreTrue, Exists
<1>4. \A h \in Handlers : Current(ackTx[h].read)' = Current(ackTx[h].read)
  BY DEF Current
<1> QED
  BY <1>1, <1>2, <1>3, <1>4 DEF RemovalsAreTrue

(* What an accepted table leaves on the gateway and in the memory. *)
LEMMA AcceptedFacts ==
    ASSUME TypeOK, Envoy, NEW rt \in Route \cup {NoRoute}, Accepted(rt), rt.id \in Ids
    PROVE  /\ table' # NoRoute => table' = rt /\ rt # NoRoute /\ ~rt.removing
           /\ rt # NoRoute => known'[rt.id] = rt.gen
           /\ rt = NoRoute => known' = known
           /\ \A i \in Ids : i # rt.id => known'[i] = known[i]
<1>1. table' # NoRoute => table' = rt /\ rt # NoRoute /\ ~rt.removing
  BY DEF Accepted
<1>2. CASE rt = NoRoute
  BY <1>1, <1>2 DEF Accepted
<1>3. CASE rt # NoRoute
  <2>1. known' = [known EXCEPT ![rt.id] = rt.gen] /\ known \in [Ids -> Nat]
    BY <1>3 DEF Accepted, TypeOK
  <2> HIDE DEF NoRoute
  <2> QED
    BY <1>1, <1>3, <2>1
<1> QED
  BY <1>2, <1>3

(* Events in a queue that got shorter are still the tombstones they were. *)
LEMMA FewerEvents ==
    ASSUME TypeOK, UNCHANGED <<row, req>>, ReadsAreTombstones, EventsAreTombstones,
           sse' = sse \/ sse' = << >> \/ (sse # << >> /\ sse' = Tail(sse))
    PROVE  /\ ReadsAreTombstones' /\ EventsAreTombstones'
           /\ \A i \in 1 .. Len(sse') : \E j \in 1 .. Len(sse) : sse'[i] = sse[j]
<1>1. sse \in Seq(Route)
  BY DEF TypeOK
<1>2. ASSUME NEW i \in 1 .. Len(sse')
      PROVE  \E j \in 1 .. Len(sse) : sse'[i] = sse[j]
  <2>1. CASE sse' = sse
    BY <2>1
  <2>2. CASE sse' = << >>
    BY <2>2
  <2>3. CASE sse # << >> /\ sse' = Tail(sse)
    <3>1. i + 1 \in 1 .. Len(sse) /\ sse'[i] = sse[i + 1]
      BY <1>1, <2>3
    <3> QED
      BY <3>1
  <2> QED
    BY <2>1, <2>2, <2>3
<1>3. EventsAreTombstones'
  BY <1>2 DEF EventsAreTombstones
<1>4. ReadsAreTombstones'
  BY DEF ReadsAreTombstones
<1> QED
  BY <1>2, <1>3, <1>4

(* The gateway accepts a route that the agent was told: the table and the  *)
(* memory agree on it, and a tombstone that is current clears the route.   *)
LEMMA AcceptedRemoval ==
    ASSUME TypeOK, TypeOK', ProtocolInvariant, RemovalInvariant, Envoy, row' = row,
           NEW rt \in Route \cup {NoRoute}, Accepted(rt), rt.id \in Nat,
           rt # NoRoute => NotAhead(rt),
           rt # NoRoute /\ rt.id = row.id /\ row.status = "DELETING" /\ rt.gen = row.desired
               => rt.removing,
           rt # NoRoute /\ rt.id = row.id /\ row.status \in {"DELETING", "GONE"} /\ Cleared
               => rt.removing /\ rt.gen >= known[row.id],
           \A i \in 1 .. Len(sse') : \E j \in 1 .. Len(sse) : sse'[i] = sse[j]
    PROVE  /\ TableIsRemembered'
           /\ row.status \in {"DELETING", "GONE"} /\ Cleared => Cleared'
           /\ rt # NoRoute /\ rt.id = row.id /\ row.status = "DELETING" /\ rt.gen = row.desired
                  => Cleared'
<1>0. row.id \in Nat /\ row.desired \in Nat
  BY RowTyped
<1>1. rt.id <= row.id
  BY <1>0 DEF NotAhead, NoRoute
<1>2. rt.id \in Ids /\ row.id \in Ids /\ known[row.id] \in Nat
  BY <1>0, <1>1, KnownIds
<1>3. /\ table' # NoRoute => table' = rt /\ rt # NoRoute /\ ~rt.removing
      /\ rt # NoRoute => known'[rt.id] = rt.gen
      /\ rt = NoRoute => known' = known
      /\ \A i \in Ids : i # rt.id => known'[i] = known[i]
  BY <1>2, AcceptedFacts
<1>4. TableIsRemembered'
  BY <1>2, <1>3 DEF TableIsRemembered
<1>5. ASSUME row.status \in {"DELETING", "GONE"}, Cleared
      PROVE  Cleared'
  <2>1. table' # NoRoute => table'.id # row.id
    BY <1>3, <1>5
  <2>2. known'[row.id] \in Nat /\ known'[row.id] >= known[row.id]
    <3>1. known'[row.id] \in Nat
      BY <1>2 DEF TypeOK
    <3>2. CASE rt # NoRoute /\ rt.id = row.id
      BY <1>2, <1>3, <1>5, <3>1, <3>2
    <3>3. CASE ~(rt # NoRoute /\ rt.id = row.id)
      BY <1>2, <1>3, <3>1, <3>3
    <3> QED
      BY <3>2, <3>3
  <2>3. ASSUME NEW i \in 1 .. Len(sse'), sse'[i].id = row.id
        PROVE  sse'[i].removing \/ sse'[i].gen <= known'[row.id]
    <3>1. PICK j \in 1 .. Len(sse) : sse'[i] = sse[j]
      BY <2>3
    <3>2. sse[j].removing \/ sse[j].gen <= known[row.id]
      BY <1>5, <2>3, <3>1 DEF Cleared
    <3>3. sse[j].gen \in Nat
      BY <3>1, EventTyped
    <3> QED
      BY <1>2, <2>2, <3>1, <3>2, <3>3
  <2> QED
    BY <2>1, <2>3 DEF Cleared
<1>6. ASSUME rt # NoRoute, rt.id = row.id, row.status = "DELETING", rt.gen = row.desired
      PROVE  Cleared'
  <2>1. table' = NoRoute
    BY <1>3, <1>6
  <2>2. known'[row.id] = row.desired
    BY <1>3, <1>6
  <2>3. ASSUME NEW i \in 1 .. Len(sse'), sse'[i].id = row.id
        PROVE  sse'[i].gen <= known'[row.id]
    <3>1. PICK j \in 1 .. Len(sse) : sse'[i] = sse[j]
      BY <2>3
    <3>2. NotAhead(sse[j])
      BY <3>1 DEF ProtocolInvariant, EventsAreNotAhead
    <3> QED
      BY <1>6, <2>2, <2>3, <3>1, <3>2 DEF NotAhead, Exists
  <2> QED
    BY <2>1, <2>3 DEF Cleared
<1> QED
  BY <1>4, <1>5, <1>6

(* A result that is sent: only a tombstone accepted or known is reported   *)
(* as removed.                                                             *)
LEMMA SentAck ==
    ASSUME NEW rt, NEW res, SendAck(rt, res), NEW m \in acks' \ acks
    PROVE  /\ rt # NoRoute /\ m.id = rt.id /\ m.gen = rt.gen
           /\ m.status = "removed" => res = "ok" /\ rt.removing
<1>1. rt # NoRoute /\ m = Ack(rt, res)
  BY DEF SendAck
<1>2. m.id = rt.id /\ m.gen = rt.gen /\ m.status = ResultStatus(rt, res)
  BY <1>1 DEF Ack
<1> QED
  BY <1>1, <1>2 DEF ResultStatus

(* A fetched route is the row itself: its tombstone clears the route, and  *)
(* any other route finds no removal reported.                              *)
LEMMA RunRouteSyncRemoval ==
    ASSUME TypeOK, TypeOK', ProtocolInvariant, RemovalInvariant, Envoy,
           NEW res \in PushResults, RunRouteSync(res)
    PROVE  RemovalInvariant'
<1> DEFINE rt == FetchedRoute
<1>1. UNCHANGED <<row, req, sse, ackTx>> /\ SyncRoutes(rt, res)
  BY DEF RunRouteSync, apiVars
<1>2. rt # NoRoute => rt = RouteOf(row) /\ Exists(row)
  BY DEF FetchedRoute
<1>3. rt # NoRoute => rt \in Route /\ NotAhead(rt)
  BY FetchedNotAhead
<1>4. RouteOf(row).id = row.id /\ RouteOf(row).gen = row.desired
      /\ RouteOf(row).removing = (row.status = "DELETING")
  BY RouteOfType DEF TypeOK, RouteOf
<1>5. rt.id \in Nat
  BY <1>2, <1>4, RowTyped DEF NoRoute
<1> HIDE DEF rt
<1>6. ReadsAreTombstones' /\ EventsAreTombstones'
      /\ \A i \in 1 .. Len(sse') : \E j \in 1 .. Len(sse) : sse'[i] = sse[j]
  BY <1>1, FewerEvents DEF RemovalInvariant
<1>7. HandlersAreNotAhead'
  BY <1>1 DEF RemovalInvariant, HandlersAreNotAhead
<1>8. TableIsRemembered' /\ RemovalsAreTrue'
  <2>1. CASE res = "ok" /\ ~Refused(rt)
    <3>1. Accepted(rt) /\ SendAck(rt, "ok")
      BY <1>1, <2>1 DEF SyncRoutes
    <3>2. /\ rt # NoRoute /\ rt.id = row.id /\ row.status = "DELETING" /\ rt.gen = row.desired
                => rt.removing
          /\ rt # NoRoute /\ rt.id = row.id /\ row.status \in {"DELETING", "GONE"} /\ Cleared
                => rt.removing /\ rt.gen >= known[row.id]
      <4>1. row.id \in Ids /\ known[row.id] \in Nat
        BY KnownIds, RowTyped
      <4>2. Exists(row) => known[row.id] <= row.desired
        BY <4>1 DEF ProtocolInvariant, MemoryIsApplied
      <4> QED
        BY <1>2, <1>4, <4>1, <4>2, RowTyped DEF Exists
    <3>3. /\ TableIsRemembered'
          /\ row.status \in {"DELETING", "GONE"} /\ Cleared => Cleared'
          /\ rt # NoRoute /\ rt.id = row.id /\ row.status = "DELETING" /\ rt.gen = row.desired
                 => Cleared'
      BY <1>1, <1>3, <1>5, <1>6, <3>1, <3>2, AcceptedRemoval
    <3>4. \A m \in acks' \ acks :
            m.status = "removed" /\ m.id = row.id /\ row.status = "DELETING" /\ m.gen = row.desired
                => Cleared'
      BY <3>1, <3>3, SentAck
    <3> QED
      BY <1>1, <3>3, <3>4, AgentReports DEF RemovalInvariant
  <2>2. CASE ~(res = "ok" /\ ~Refused(rt))
    <3>1. UNCHANGED <<table, known>>
      BY <1>1, <2>2 DEF SyncRoutes
    <3>2. PICK r : SendAck(rt, r) /\ r # "ok"
      BY <1>1, <2>2 DEF SyncRoutes
    <3>3. TableIsRemembered' /\ (Cleared => Cleared')
      BY <1>1, <3>1 DEF RemovalInvariant, TableIsRemembered, Cleared
    <3>4. \A m \in acks' \ acks : m.status # "removed"
      BY <3>2, SentAck
    <3> QED
      BY <1>1, <3>3, <3>4, AgentReports DEF RemovalInvariant
  <2> QED
    BY <2>1, <2>2
<1> QED
  BY <1>6, <1>7, <1>8 DEF RemovalInvariant

(* An event is the news of some generation: a known one is answered from   *)
(* memory, and no event brings a removed route back.                       *)
LEMMA HandleEventRemoval ==
    ASSUME TypeOK, TypeOK', ProtocolInvariant, RemovalInvariant, Envoy,
           NEW res \in PushResults, HandleEvent(res)
    PROVE  RemovalInvariant'
<1> DEFINE rt == Head(sse)
<1>1. sse \in Seq(Route) /\ sse # << >> /\ sse' = Tail(sse) /\ UNCHANGED <<row, req, ackTx>>
  BY DEF HandleEvent, TypeOK, apiVars
<1>2. rt \in Route /\ rt = sse[1] /\ 1 \in 1 .. Len(sse)
  BY <1>1
<1>3. NotAhead(rt) /\ rt.id \in Nat /\ rt.gen \in Nat
  BY <1>2, EventTyped DEF ProtocolInvariant, EventsAreNotAhead
<1>4. rt.id = row.id /\ row.status = "DELETING" /\ rt.gen = row.desired => rt.removing
  BY <1>2 DEF RemovalInvariant, EventsAreTombstones
<1>5. Cleared /\ rt.id = row.id => rt.removing \/ rt.gen <= known[row.id]
  BY <1>2 DEF Cleared
<1>6. \/ SendAck(rt, "ok") /\ rt.gen <= known[rt.id] /\ UNCHANGED <<table, known>>
      \/ rt.gen > known[rt.id] /\ res = "ok" /\ Accepted(rt) /\ SendAck(rt, "ok")
      \/ res # "ok" /\ SendAck(rt, res) /\ UNCHANGED <<table, known>>
  <2>1. rt.id \in Ids /\ known[rt.id] \in Nat
    BY <1>3, KnownIds DEF NotAhead
  <2> QED
    BY <1>3, <2>1 DEF HandleEvent, AlreadyKnown
<1> HIDE DEF rt
<1>7. ReadsAreTombstones' /\ EventsAreTombstones'
      /\ \A i \in 1 .. Len(sse') : \E j \in 1 .. Len(sse) : sse'[i] = sse[j]
  BY <1>1, FewerEvents DEF RemovalInvariant
<1>8. HandlersAreNotAhead'
  BY <1>1 DEF RemovalInvariant, HandlersAreNotAhead
<1>9. row.id \in Ids /\ known[row.id] \in Nat
  BY KnownIds, RowTyped
<1>10. ASSUME UNCHANGED <<table, known>>
       PROVE  TableIsRemembered' /\ (Cleared => Cleared')
  BY <1>1, <1>7, <1>10 DEF RemovalInvariant, TableIsRemembered, Cleared
<1>11. CASE SendAck(rt, "ok") /\ rt.gen <= known[rt.id] /\ UNCHANGED <<table, known>>
  <2>1. ASSUME rt.id = row.id, row.status = "DELETING", rt.gen = row.desired
        PROVE  Cleared
    <3>1. known[row.id] <= row.desired
      BY <1>9, <2>1 DEF ProtocolInvariant, MemoryIsApplied, Exists
    <3>2. known[row.id] = row.desired
      BY <1>9, <1>11, <2>1, <3>1, RowTyped
    <3>3. table # NoRoute => table.id # row.id
      BY <2>1, <3>2 DEF RemovalInvariant, TableIsRemembered
    <3>4. \A i \in 1 .. Len(sse) : NotAhead(sse[i])
      BY DEF ProtocolInvariant, EventsAreNotAhead
    <3> QED
      BY <2>1, <3>2, <3>3, <3>4 DEF Cleared, NotAhead, Exists
  <2>2. \A m \in acks' \ acks :
          m.status = "removed" /\ m.id = row.id /\ row.status = "DELETING" /\ m.gen = row.desired
              => Cleared'
    BY <1>10, <1>11, <2>1, SentAck
  <2>3. RemovalsAreTrue'
    BY <1>1, <1>10, <1>11, <2>2, AgentReports DEF RemovalInvariant
  <2> QED
    BY <1>7, <1>8, <1>10, <1>11, <2>3 DEF RemovalInvariant
<1>12. CASE rt.gen > known[rt.id] /\ res = "ok" /\ Accepted(rt) /\ SendAck(rt, "ok")
  <2>1. rt # NoRoute /\ rt.id = row.id /\ row.status \in {"DELETING", "GONE"} /\ Cleared
          => rt.removing /\ rt.gen >= known[row.id]
    BY <1>3, <1>5, <1>9, <1>12
  <2>2. /\ TableIsRemembered'
        /\ row.status \in {"DELETING", "GONE"} /\ Cleared => Cleared'
        /\ rt # NoRoute /\ rt.id = row.id /\ row.status = "DELETING" /\ rt.gen = row.desired
               => Cleared'
    BY <1>1, <1>2, <1>3, <1>4, <1>7, <1>12, <2>1, AcceptedRemoval
  <2>3. \A m \in acks' \ acks :
          m.status = "removed" /\ m.id = row.id /\ row.status = "DELETING" /\ m.gen = row.desired
              => Cleared'
    BY <1>12, <2>2, SentAck
  <2>4. RemovalsAreTrue'
    BY <1>1, <2>2, <2>3, AgentReports DEF RemovalInvariant
  <2> QED
    BY <1>7, <1>8, <2>2, <2>4 DEF RemovalInvariant
<1>13. CASE res # "ok" /\ SendAck(rt, res) /\ UNCHANGED <<table, known>>
  <2>1. \A m \in acks' \ acks : m.status # "removed"
    BY <1>13, SentAck
  <2>2. RemovalsAreTrue'
    BY <1>1, <1>10, <1>13, <2>1, AgentReports DEF RemovalInvariant
  <2> QED
    BY <1>7, <1>8, <1>10, <1>13, <2>2 DEF RemovalInvariant
<1> QED
  BY <1>6, <1>11, <1>12, <1>13

(* Every step keeps the invariant. *)
LEMMA NextRemoval ==
    ASSUME SingleRequest, Envoy, is_sse_enabled
    PROVE  TypeOK /\ TypeOK' /\ ProtocolInvariant /\ RemovalInvariant /\ [Next]_vars
               => RemovalInvariant'
<1> SUFFICES ASSUME TypeOK, TypeOK', ProtocolInvariant, RemovalInvariant, [Next]_vars
             PROVE  RemovalInvariant'
  OBVIOUS
<1>0. ASSUME UNCHANGED <<row, ackTx>>, acks' \subseteq acks
      PROVE  HandlersAreNotAhead' /\ ((Cleared => Cleared') => RemovalsAreTrue')
  <2>1. HandlersAreNotAhead'
    BY <1>0 DEF RemovalInvariant, HandlersAreNotAhead
  <2>2. ASSUME Cleared => Cleared' PROVE RemovalsAreTrue'
    BY <1>0, <2>2, AgentReports DEF RemovalInvariant
  <2> QED
    BY <2>1, <2>2
<1>a. ASSUME UNCHANGED <<row, sse, table, known, ackTx>>, acks' \subseteq acks,
             \A r \in Requests : req'[r] \in {req[r], Idle} \/ req'[r].read = row
      PROVE  RemovalInvariant'
  <2>1. ReadsAreTombstones'
    BY <1>a DEF RemovalInvariant, ReadsAreTombstones, Idle
  <2>2. EventsAreTombstones' /\ TableIsRemembered' /\ (Cleared => Cleared')
    BY <1>a DEF RemovalInvariant, EventsAreTombstones, TableIsRemembered, Cleared
  <2> QED
    BY <1>0, <1>a, <2>1, <2>2 DEF RemovalInvariant
<1>1. ASSUME NEW r \in Requests, NEW op \in Operations, BeginRequest(r, op)
      PROVE  RemovalInvariant'
  <2>1. UNCHANGED <<row, sse, table, known, acks, ackTx>>
    BY <1>1 DEF BeginRequest, agentVars
  <2>2. \A q \in Requests : req'[q] \in {req[q], Idle} \/ req'[q].read = row
    BY <1>1 DEF BeginRequest, TypeOK
  <2> QED
    BY <1>a, <2>1, <2>2
<1>2. ASSUME NEW r \in Requests, CommitRequest(r)
      PROVE  RemovalInvariant'
  BY <1>2, CommitRemoval
<1>3. ASSUME NEW r \in Requests, RollbackRequest(r)
      PROVE  RemovalInvariant'
  <2>1. UNCHANGED <<row, sse, table, known, acks, ackTx>>
    BY <1>3 DEF RollbackRequest, agentVars
  <2>2. \A q \in Requests : req'[q] \in {req[q], Idle} \/ req'[q].read = row
    BY <1>3 DEF RollbackRequest, TypeOK
  <2> QED
    BY <1>a, <2>1, <2>2
<1>4. CASE ListPending \/ Connect \/ ReadyFetchFails \/ UNCHANGED vars \/ \E m \in acks : LoseAck(m)
  <2>1. UNCHANGED <<row, req, sse, table, known, ackTx>> /\ acks' \subseteq acks
    BY <1>4 DEF ListPending, Connect, ReadyFetchFails, LoseAck, vars, apiVars, agentVars
  <2> QED
    BY <1>a, <2>1
<1>5. CASE ExpirePending
  <2>1. loop.read \in GatewayDeployment /\ row \in GatewayDeployment
    BY <1>5 DEF ExpirePending, Idle, TypeOK
  <2>2. UNCHANGED <<req, sse, table, known, acks, ackTx>>
    BY <1>5 DEF ExpirePending, agentVars
  <2>3. /\ row'.id = row.id /\ row'.desired = row.desired
        /\ row'.status \in {row.status, "ERROR"}
        /\ Exists(row') <=> Exists(row)
    BY <1>5, <2>1, TimeoutFacts DEF ExpirePending, SameRow, Exists
  <2>4. RowRetires
    BY <2>3, RowTyped DEF RowRetires, RowAdvances, RemovalInvariant, RemovalsAreTrue
  <2> QED
    BY <2>2, <2>3, <2>4, QuietRemoval
<1>6. CASE Elapse
  <2>1. UNCHANGED <<req, sse, table, known, acks, ackTx>>
    BY <1>6 DEF Elapse, agentVars
  <2>2. row'.id = row.id /\ row'.desired = row.desired /\ row'.status = row.status
    BY <1>6, AgedFacts DEF Elapse, TypeOK
  <2>3. RowRetires
    BY <2>2, RowTyped DEF RowRetires, RowAdvances, RemovalInvariant, RemovalsAreTrue, Exists
  <2> QED
    BY <2>1, <2>2, <2>3, QuietRemoval
<1>7. ASSUME NEW res \in PushResults, RunRouteSync(res) \/ HandleEvent(res)
      PROVE  RemovalInvariant'
  BY <1>7, RunRouteSyncRemoval, HandleEventRemoval
<1>8. CASE Disconnect \/ RestartAgent
  <2>1. UNCHANGED <<row, req, acks, ackTx>> /\ sse' = << >>
    BY <1>8 DEF Disconnect, RestartAgent, apiVars
  <2>2. table' = NoRoute \/ UNCHANGED <<table, known>>
    BY <1>8 DEF Disconnect, RestartAgent
  <2>3. ReadsAreTombstones' /\ EventsAreTombstones'
    BY <2>1, FewerEvents DEF RemovalInvariant
  <2>4. TableIsRemembered' /\ (Cleared => Cleared')
    BY <2>1, <2>2 DEF RemovalInvariant, TableIsRemembered, Cleared
  <2> QED
    BY <1>0, <2>1, <2>3, <2>4 DEF RemovalInvariant
<1>9. ASSUME NEW h \in Handlers, NEW m \in acks, ReceiveAck(h, m)
      PROVE  RemovalInvariant'
  BY <1>9, ReceiveAckRemoval
<1>10. ASSUME NEW h \in Handlers, acknowledge(h)
       PROVE  RemovalInvariant'
  BY <1>10, AcknowledgeRemoval
<1> QED
  BY <1>1, <1>2, <1>3, <1>4, <1>5, <1>6, <1>7, <1>8, <1>9, <1>10
  DEF Next, ApiStep, EngineStep, AgentStep, AckStep

(* Once the tombstone of a deployment is acknowledged and its row deleted, *)
(* its route is off the gateway and stays off: no late SSE event, repeated *)
(* ack, restart or catch-up fetch of the Envoy agent brings it back, for   *)
(* any number of ack handlers, faults and queued events.                   *)
THEOREM RemovedRoutesStayRemoved ==
    ASSUME SingleRequest, Envoy, is_sse_enabled
    PROVE  Spec => []RemovedStaysRemoved
<1>1. Init => TypeOK /\ ProtocolInvariant /\ RemovalInvariant
  BY InitType, InitProtocol, InitRemoval
<1>2. TypeOK /\ ProtocolInvariant /\ RemovalInvariant /\ [Next]_vars
        => TypeOK' /\ ProtocolInvariant' /\ RemovalInvariant'
  BY NextType, NextProtocol, NextRemoval
<1>3. RemovalInvariant => RemovedStaysRemoved
  <2>1. NoRoute.id = 0
    BY DEF NoRoute
  <2> QED
    BY <2>1 DEF RemovalInvariant, RemovalsAreTrue, Cleared, RemovedStaysRemoved
<1> QED
  BY <1>1, <1>2, <1>3, PTL DEF Spec
==============================================================================
