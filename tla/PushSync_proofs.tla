--------------------------- MODULE PushSync_proofs ----------------------------
(***************************************************************************)
(* Proofs about PushSync for every value of its constants: any number of   *)
(* concurrent reconcile tasks, crashes, outages and adapter failures, in   *)
(* every deploy mode; only the last section assumes a single task.         *)
(***************************************************************************)
EXTENDS PushSync, DeploymentRow_proofs

------------------------------------------------------------------------------
(* What the tasks write. *)

(* The row a reconcile task wants after a step of its adapter is a session *)
(* copy of the row it read.                                                *)
LEMMA TaskCopies ==
    ASSUME NEW r \in GatewayDeployment
    PROVE  /\ Synced(r) \in SessionCopy
           /\ [r EXCEPT !.status = "ERROR"] \in SessionCopy
           /\ [r EXCEPT !.status = "DRIFTED"] \in SessionCopy
           /\ [r EXCEPT !.status = "SYNCING", !.attemptAt = "now"] \in SessionCopy
           /\ [r EXCEPT !.status = "ERROR", !.attempted = r.desired, !.attempts = @ + 1] \in SessionCopy
           /\ [r EXCEPT !.status = "ERROR", !.attempts = @ + 1, !.attemptAt = "now"] \in SessionCopy
           /\ [r EXCEPT !.attempts = @ + 1, !.attemptAt = "now"] \in SessionCopy
           /\ TimedOut(r) \in SessionCopy
<1>1. r.attempts + 1 \in Nat /\ r.desired \in Nat
  BY DEF GatewayDeployment
<1> QED
  BY <1>1, RetryMaxAssumption DEF Synced, TimedOut, GatewayDeployment, SessionCopy, DeploymentSyncStatus

(* ... and it leaves desired_generation alone; attempted_generation and    *)
(* synced_generation keep their value or become the generation read.       *)
KeepsSynced(w, r) ==
    w.desired = r.desired /\ w.attempted \in {r.attempted, r.desired} /\ w.synced = r.synced

(* The copies a reconcile task writes, except on success, claim no synced generation. *)
LEMMA TaskGenerations ==
    ASSUME NEW r \in GatewayDeployment
    PROVE  /\ KeepsSynced([r EXCEPT !.status = "ERROR"], r)
           /\ KeepsSynced([r EXCEPT !.status = "SYNCING", !.attemptAt = "now"], r)
           /\ KeepsSynced([r EXCEPT !.status = "ERROR", !.attempted = r.desired, !.attempts = @ + 1], r)
           /\ KeepsSynced([r EXCEPT !.status = "ERROR", !.attempts = @ + 1, !.attemptAt = "now"], r)
           /\ KeepsSynced([r EXCEPT !.attempts = @ + 1, !.attemptAt = "now"], r)
BY DEF KeepsSynced, GatewayDeployment

(* A successful push records the generation that was read. *)
LEMMA SyncedFacts ==
    ASSUME NEW r \in GatewayDeployment
    PROVE  Synced(r).desired = r.desired /\ Synced(r).attempted = r.desired /\ Synced(r).synced = r.desired
BY DEF Synced, GatewayDeployment

(* The gateway's answer to an inline push changes no generation. *)
LEMMA InlineSyncedFacts ==
    ASSUME NEW r \in GatewayDeployment, NEW res \in InlineResults
    PROVE  /\ InlineSynced(r, res) \in GatewayDeployment
           /\ InlineSynced(r, res).id = r.id
           /\ InlineSynced(r, res).desired = r.desired
           /\ InlineSynced(r, res).attempted = r.attempted
           /\ InlineSynced(r, res).synced = r.synced
           /\ Exists(InlineSynced(r, res))
<1>1. r.attempts + 1 \in Nat
  BY DEF GatewayDeployment
<1>2. CASE res = "unconnected"
  BY <1>1, <1>2 DEF InlineSynced, GatewayDeployment, DeploymentSyncStatus, Exists
<1>3. CASE res = "accepted"
  BY <1>1, <1>3 DEF InlineSynced, GatewayDeployment, DeploymentSyncStatus, Exists
<1>4. CASE res = "refused"
  BY <1>1, <1>4 DEF InlineSynced, GatewayDeployment, DeploymentSyncStatus, Exists
<1>5. CASE res = "raised"
  BY <1>1, <1>5 DEF InlineSynced, GatewayDeployment, DeploymentSyncStatus, Exists
<1> QED
  BY <1>2, <1>3, <1>4, <1>5 DEF InlineResults

------------------------------------------------------------------------------
(* Type correctness. *)

(* A flush of a task leaves a well-typed row. *)
LEMMA TaskFlushType ==
    ASSUME TypeOK, NEW t \in Tasks, task[t].read \in GatewayDeployment,
           NEW w \in SessionCopy, TaskFlush(t, w)
    PROVE  row' \in GatewayDeployment
BY SessionFlushFacts DEF TaskFlush, TypeOK

(* A task that is under way has read a row. *)
LEMMA TaskRead ==
    ASSUME TypeOK, NEW t \in Tasks, task[t].pc # "idle"
    PROVE  task[t] \in TaskState /\ task[t].read \in GatewayDeployment
BY DEF TypeOK, TaskState, Idle

(* The two ways a task goes on. *)
LEMMA TaskMoves ==
    ASSUME TypeOK, NEW t \in Tasks
    PROVE  /\ Finish(t) => task' \in [Tasks -> {Idle} \cup TaskState]
           /\ task[t].pc # "idle" =>
                \A pc \in {"sync", "accepted", "refused", "raised", "delete", "removed", "notremoved"} :
                    GoTo(t, pc) => task' \in [Tasks -> {Idle} \cup TaskState]
<1>1. Finish(t) => task' \in [Tasks -> {Idle} \cup TaskState]
  BY DEF Finish, TypeOK
<1>2. ASSUME task[t].pc # "idle",
             NEW pc \in {"sync", "accepted", "refused", "raised", "delete", "removed", "notremoved"},
             GoTo(t, pc)
      PROVE  task' \in [Tasks -> {Idle} \cup TaskState]
  <2>1. task[t] \in TaskState
    BY <1>2, TaskRead
  <2>2. [task[t] EXCEPT !.pc = pc] \in TaskState
    BY <2>1 DEF TaskState
  <2>3. task' = [task EXCEPT ![t] = [task[t] EXCEPT !.pc = pc]]
    BY <1>2 DEF GoTo
  <2> QED
    BY <2>2, <2>3 DEF TypeOK
<1> QED
  BY <1>1, <1>2

(* A task that starts has read the row. *)
LEMMA StartedType ==
    ASSUME TypeOK, NEW i
    PROVE  Started(i) \in {Idle} \cup TaskState
BY DEF Started, TaskState, TypeOK

(* The state before the first request is well typed. *)
LEMMA InitType == Init => TypeOK
<1> SUFFICES ASSUME Init PROVE TypeOK
  OBVIOUS
<1>1. PICK s \in Specs : row = Deleted(Created(0, s))
  BY DEF Init
<1>2. row \in GatewayDeployment
  BY <1>1, CreatedFacts, DeletedFacts
<1> QED
  BY <1>2, MaxRequestsAssumption, PushBoundsAssumption DEF Init, TypeOK, LoopState, Idle

(* The steps of an API request keep the types. *)
LEMMA RequestType ==
    ASSUME TypeOK, NEW r \in Requests, RequestStep(r)
    PROVE  TypeOK'
<1> USE DEF TypeOK
<1>1. ASSUME NEW op \in Operations, BeginRequest(r, op)
      PROVE  TypeOK'
  <2>1. [pc |-> "read", op |-> op, row |-> row] \in RequestState
    BY DEF RequestState
  <2>2. reqs' \in 0 .. MaxRequests
    BY <1>1, MaxRequestsAssumption DEF BeginRequest
  <2> QED
    BY <1>1, <2>1, <2>2 DEF BeginRequest
<1>2. CASE FlushRequest(r)
  <2>1. req[r].op \in Operations /\ req[r].row \in GatewayDeployment
    BY <1>2 DEF FlushRequest, RequestState, Idle
  <2> DEFINE new == Written(req[r].op, req[r].row, row)
  <2>2. new \in GatewayDeployment
    BY <1>2, <2>1, WrittenFacts DEF FlushRequest
  <2> HIDE DEF new
  <2>3. req' = [req EXCEPT ![r] = [pc |-> "flushed", op |-> req[r].op, row |-> new]]
    BY <1>2 DEF FlushRequest, new
  <2>4. [pc |-> "flushed", op |-> req[r].op, row |-> new] \in RequestState
    BY <2>1, <2>2 DEF RequestState
  <2>5. kafka' \in [Ids -> Nat]
    <3>1. kafka' = kafka \/ kafka' = [kafka EXCEPT ![new.id] = @ + 1]
      BY <1>2 DEF FlushRequest, new
    <3> QED
      BY <3>1
  <2> QED
    BY <1>2, <2>3, <2>4, <2>5 DEF FlushRequest
<1>3. ASSUME NEW res \in InlineResults, InlineSync(r, res)
      PROVE  TypeOK'
  <2>1. req[r].row \in GatewayDeployment /\ req[r].row.spec \in Specs
    BY <1>3 DEF InlineSync, RequestState, Idle, GatewayDeployment
  <2>2. InlineSynced(req[r].row, res) \in GatewayDeployment
    BY <2>1, InlineSyncedFacts
  <2>3. [pc |-> "flushed", op |-> [name |-> "inline_synced"], row |-> InlineSynced(req[r].row, res)]
           \in RequestState
    BY <2>2 DEF RequestState
  <2>4. req' \in [Requests -> {Idle} \cup RequestState]
    BY <1>3, <2>3 DEF InlineSync
  <2>5. gw' \in Specs \cup {NoSpec}
    BY <1>3, <2>1 DEF InlineSync
  <2> QED
    BY <1>3, <2>4, <2>5 DEF InlineSync
<1>4. CASE CommitRequest(r)
  <2>1. req[r].row \in GatewayDeployment
    BY <1>4 DEF CommitRequest, RequestState, Idle
  <2> QED
    BY <1>4, <2>1 DEF CommitRequest
<1>5. CASE RollbackRequest(r)
  BY <1>5 DEF RollbackRequest
<1> QED
  BY <1>1, <1>2, <1>3, <1>4, <1>5 DEF RequestStep

(* The steps of _reconcile_one keep the types. *)
LEMMA TaskType ==
    ASSUME TypeOK, NEW t \in Tasks, TaskStep(t)
    PROVE  TypeOK'
<1> DEFINE read == task[t].read
<1>0. task[t].pc # "idle" => read \in GatewayDeployment /\ read.spec \in Specs
  BY TaskRead DEF GatewayDeployment
<1>1. CASE FailNoGateway(t)
  <2>1. row' \in GatewayDeployment
    BY <1>0, <1>1, TaskCopies, TaskFlushType DEF FailNoGateway
  <2> QED
    BY <1>1, <2>1, TaskMoves DEF FailNoGateway, TypeOK
<1>2. CASE ConnectFails(t)
  BY <1>2, TaskMoves DEF ConnectFails, TypeOK
<1>3. CASE ConnectForDelete(t)
  BY <1>3, TaskMoves DEF ConnectForDelete, TypeOK
<1>4. CASE ConnectForNothing(t)
  BY <1>4, TaskMoves DEF ConnectForNothing, TypeOK
<1>5. CASE MarkSyncing(t)
  <2>1. row' \in GatewayDeployment
    BY <1>0, <1>5, TaskCopies, TaskFlushType DEF MarkSyncing
  <2>2. [pc |-> "sync", read |-> row'] \in TaskState
    BY <2>1 DEF TaskState
  <2>3. task' \in [Tasks -> {Idle} \cup TaskState]
    BY <1>5, <2>2 DEF MarkSyncing, TypeOK
  <2> QED
    BY <1>5, <2>1, <2>3 DEF MarkSyncing, TypeOK
<1>6. CASE CallSync(t)
  <2>1. read.spec \in Specs /\ read.id \in Nat /\ read.desired \in Nat
    BY <1>0, <1>6 DEF CallSync, GatewayDeployment
  <2>2. task' \in [Tasks -> {Idle} \cup TaskState]
    BY <1>6, TaskMoves DEF CallSync
  <2>3. gw' \in Specs \cup {NoSpec} /\ pushed' \subseteq Nat \X Nat
    BY <1>6, <2>1 DEF CallSync, TypeOK
  <2> QED
    BY <1>6, <2>2, <2>3 DEF CallSync, TypeOK
<1>7. CASE RecordSynced(t)
  <2>1. row' \in GatewayDeployment
    BY <1>0, <1>7, TaskCopies, TaskFlushType DEF RecordSynced
  <2> QED
    BY <1>7, <2>1, TaskMoves DEF RecordSynced, TypeOK
<1>8. CASE RecordRefused(t)
  <2>1. row' \in GatewayDeployment
    BY <1>0, <1>8, TaskCopies, TaskFlushType DEF RecordRefused
  <2> QED
    BY <1>8, <2>1, TaskMoves DEF RecordRefused, TypeOK
<1>9. CASE RecordRaised(t)
  <2>1. row' \in GatewayDeployment
    BY <1>0, <1>9, TaskCopies, TaskFlushType DEF RecordRaised
  <2> QED
    BY <1>9, <2>1, TaskMoves DEF RecordRaised, TypeOK
<1>10. CASE CallDelete(t)
  <2>1. task' \in [Tasks -> {Idle} \cup TaskState]
    BY <1>10, TaskMoves DEF CallDelete
  <2>2. gw' \in Specs \cup {NoSpec}
    BY <1>10 DEF CallDelete, TypeOK
  <2> QED
    BY <1>10, <2>1, <2>2 DEF CallDelete, TypeOK
<1>11. CASE RecordRemoved(t)
  <2>1. row' \in GatewayDeployment
    BY <1>11, DeletedFacts DEF RecordRemoved, TypeOK
  <2> QED
    BY <1>11, <2>1, TaskMoves DEF RecordRemoved, TypeOK
<1>12. CASE RecordNotRemoved(t)
  <2>1. row' \in GatewayDeployment
    BY <1>0, <1>12, TaskCopies, TaskFlushType DEF RecordNotRemoved
  <2> QED
    BY <1>12, <2>1, TaskMoves DEF RecordNotRemoved, TypeOK
<1> QED
  BY <1>1, <1>2, <1>3, <1>4, <1>5, <1>6, <1>7, <1>8, <1>9, <1>10, <1>11, <1>12 DEF TaskStep

(* The steps of the periodic loop keep the types. *)
LEMMA LoopType ==
    ASSUME TypeOK, LoopStep
    PROVE  TypeOK'
<1> USE DEF TypeOK
<1>1. CASE ListActionable
  <2>1. row.id \in Nat
    BY DEF GatewayDeployment
  <2>2. /\ [pc |-> "drift"] \in LoopState
        /\ [pc |-> "expire", read |-> row] \in LoopState
        /\ [pc |-> "dispatch", id |-> row.id] \in LoopState
    BY <2>1 DEF LoopState
  <2>3. loop' \in LoopState
    BY <1>1, <2>2 DEF ListActionable
  <2> QED
    BY <1>1, <2>3 DEF ListActionable
<1>2. CASE ExpirePending
  <2>1. loop.read \in GatewayDeployment
    BY <1>2 DEF ExpirePending, LoopState
  <2>2. row' \in GatewayDeployment
    BY <1>2, <2>1, TaskCopies, SessionFlushFacts DEF ExpirePending
  <2>3. loop' \in LoopState
    BY <1>2 DEF ExpirePending, LoopState, Idle
  <2> QED
    BY <1>2, <2>2, <2>3 DEF ExpirePending
<1>3. CASE Dispatch
  <2>1. task' \in [Tasks -> {Idle} \cup TaskState]
    BY <1>3, StartedType DEF Dispatch
  <2>2. loop' \in LoopState
    BY <1>3 DEF Dispatch, LoopState
  <2> QED
    BY <1>3, <2>1, <2>2 DEF Dispatch
<1>4. CASE Gather
  <2>1. loop' \in LoopState
    BY <1>4 DEF Gather, LoopState
  <2> QED
    BY <1>4, <2>1 DEF Gather
<1>5. CASE ListSynced
  <2>1. Idle \in LoopState /\ [pc |-> "compare", read |-> row] \in LoopState
    BY DEF LoopState, Idle
  <2>2. loop' \in LoopState
    BY <1>5, <2>1 DEF ListSynced
  <2> QED
    BY <1>5, <2>2 DEF ListSynced
<1>6. CASE CompareWithGateway
  <2>1. loop.read \in GatewayDeployment
    BY <1>6 DEF CompareWithGateway, LoopState
  <2>2. Idle \in LoopState /\ [pc |-> "drifted", read |-> loop.read] \in LoopState
    BY <2>1 DEF LoopState, Idle
  <2>3. loop' \in LoopState
    BY <1>6, <2>2 DEF CompareWithGateway
  <2> QED
    BY <1>6, <2>3 DEF CompareWithGateway
<1>7. CASE RecordDrift
  <2>1. loop.read \in GatewayDeployment
    BY <1>7 DEF RecordDrift, LoopState
  <2>2. row' \in GatewayDeployment
    BY <1>7, <2>1, TaskCopies, SessionFlushFacts DEF RecordDrift
  <2>3. loop' \in LoopState
    BY <1>7 DEF RecordDrift, LoopState, Idle
  <2> QED
    BY <1>7, <2>2, <2>3 DEF RecordDrift
<1> QED
  BY <1>1, <1>2, <1>3, <1>4, <1>5, <1>6, <1>7 DEF LoopStep

(* Every step keeps the types. *)
LEMMA NextType == TypeOK /\ [Next]_vars => TypeOK'
<1> SUFFICES ASSUME TypeOK, [Next]_vars PROVE TypeOK'
  OBVIOUS
<1>1. ASSUME NEW r \in Requests, RequestStep(r)
      PROVE  TypeOK'
  BY <1>1, RequestType
<1>2. ASSUME NEW t \in KafkaTasks, NEW i \in Ids, DeliverKafka(t, i)
      PROVE  TypeOK'
  <2>1. task' \in [Tasks -> {Idle} \cup TaskState]
    BY <1>2, StartedType DEF DeliverKafka, Tasks, TypeOK
  <2>2. kafka' \in [Ids -> Nat]
    <3>1. kafka[i] \in Nat /\ kafka[i] > 0
      BY <1>2 DEF DeliverKafka, TypeOK
    <3>2. kafka[i] - 1 \in Nat
      BY <3>1
    <3> QED
      BY <1>2, <3>2 DEF DeliverKafka, TypeOK
  <2> QED
    BY <1>2, <2>1, <2>2 DEF DeliverKafka, TypeOK
<1>3. ASSUME NEW t \in Tasks, TaskStep(t)
      PROVE  TypeOK'
  BY <1>3, TaskType
<1>4. CASE LoopStep
  BY <1>4, LoopType
<1>5. CASE Elapse
  BY <1>5, AgedFacts DEF Elapse, TypeOK
<1>6. CASE Crash
  <2>1. crashes' \in 0 .. MaxCrashes /\ loop' \in LoopState
    BY <1>6, PushBoundsAssumption DEF Crash, TypeOK, LoopState, Idle
  <2> QED
    BY <1>6, <2>1 DEF Crash, TypeOK
<1>7. ASSUME NEW s \in {"online"} \cup Outages, SetGateway(s)
      PROVE  TypeOK'
  BY <1>7 DEF SetGateway, TypeOK
<1>8. ASSUME NEW s \in Specs \cup {NoSpec}, Tamper(s)
      PROVE  TypeOK'
  BY <1>8, PushBoundsAssumption DEF Tamper, TypeOK
<1>9. CASE UNCHANGED vars
  BY <1>9 DEF vars, TypeOK
<1> QED
  BY <1>1, <1>2, <1>3, <1>4, <1>5, <1>6, <1>7, <1>8, <1>9 DEF Next

(* Every reachable state of PushSync is well typed: whichever task writes  *)
(* last, and whatever it had read, the row is one the table can hold.      *)
THEOREM TypeCorrect == Spec => []TypeOK
<1>1. Init => TypeOK
  BY InitType
<1>2. TypeOK /\ [Next]_vars => TypeOK'
  BY NextType
<1> QED
  BY <1>1, <1>2, PTL DEF Spec

------------------------------------------------------------------------------
(* The generations, for one API request at a time. *)
SingleRequest == \A a, b \in Requests : a = b

(* How a step may change the row: to a later row, or within one row to the *)
(* same or a later generation; a deleted row does not come back.           *)
RowAdvances ==
    /\ row'.id >= row.id
    /\ row'.id = row.id /\ Exists(row') => Exists(row) /\ row'.desired >= row.desired

(* How the engine may change it: the generation stays, or the row goes. *)
RowKept ==
    row'.id = row.id /\ (Exists(row') => Exists(row) /\ row'.desired = row.desired)

(* The numbers of the row are naturals. *)
LEMMA RowTyped ==
    ASSUME TypeOK
    PROVE  /\ row \in GatewayDeployment
           /\ row.id \in Nat /\ row.desired \in Nat
           /\ row.synced \in Nat /\ row.attempted \in Nat
BY DEF TypeOK, GatewayDeployment

(* A row whose generations are kept has advanced in the weak sense. *)
LEMMA KeptAdvances ==
    ASSUME TypeOK, RowKept
    PROVE  RowAdvances
BY RowTyped DEF RowKept, RowAdvances

(* So has a row that did not change. *)
LEMMA SameRowKept ==
    ASSUME row' = row
    PROVE  RowKept
BY DEF RowKept

(* What a task has read may become older, never newer, than the row. *)
LEMMA AdvanceKeepsRead ==
    ASSUME TypeOK, TypeOK', RowAdvances, NEW read \in GatewayDeployment,
           read.id <= row.id, SameRow(row, read) => read.desired <= row.desired
    PROVE  /\ read.id <= row'.id
           /\ SameRow(row', read) => read.desired <= row'.desired
<1>1. row'.id \in Nat /\ row'.desired \in Nat /\ read.id \in Nat /\ read.desired \in Nat
  BY DEF TypeOK, GatewayDeployment
<1> QED
  BY <1>1, RowTyped DEF RowAdvances, SameRow

(* A task goes on with what it read, or with the row as it is now; what it *)
(* calls accepted was pushed.                                              *)
TaskMove(u) ==
    \/ task'[u] = Idle
    \/ /\ task[u] # Idle
       /\ task'[u].read = task[u].read
       /\ task'[u].pc = "accepted" =>
            task[u].pc = "accepted" \/ <<task[u].read.id, task[u].read.desired>> \in pushed'
    \/ task'[u].read = row' /\ task'[u].pc # "accepted"

(* Tasks that move as allowed stay behind an advancing row. *)
LEMMA TasksStayInAgreement ==
    ASSUME TypeOK, TypeOK', RowAdvances, TasksAgree, pushed \subseteq pushed',
           \A u \in Tasks : TaskMove(u)
    PROVE  TasksAgree'
<1> SUFFICES ASSUME NEW u \in Tasks, task'[u] # Idle
             PROVE  /\ task'[u].read.id <= row'.id
                    /\ SameRow(row', task'[u].read) => task'[u].read.desired <= row'.desired
                    /\ task'[u].pc = "accepted" =>
                          <<task'[u].read.id, task'[u].read.desired>> \in pushed'
  BY DEF TasksAgree
<1>1. CASE /\ task[u] # Idle
           /\ task'[u].read = task[u].read
           /\ task'[u].pc = "accepted" =>
                task[u].pc = "accepted" \/ <<task[u].read.id, task[u].read.desired>> \in pushed'
  <2>1. task[u].read \in GatewayDeployment
    BY <1>1 DEF TypeOK, TaskState
  <2>2. /\ task[u].read.id <= row.id
        /\ SameRow(row, task[u].read) => task[u].read.desired <= row.desired
        /\ task[u].pc = "accepted" => <<task[u].read.id, task[u].read.desired>> \in pushed
    BY <1>1 DEF TasksAgree
  <2>3. /\ task[u].read.id <= row'.id
        /\ SameRow(row', task[u].read) => task[u].read.desired <= row'.desired
    BY <2>1, <2>2, AdvanceKeepsRead
  <2> QED
    BY <1>1, <2>2, <2>3
<1>2. CASE task'[u].read = row' /\ task'[u].pc # "accepted"
  <2>1. row'.id \in Nat /\ row'.desired \in Nat
    BY DEF TypeOK, GatewayDeployment
  <2> QED
    BY <1>2, <2>1 DEF SameRow
<1> QED
  BY <1>1, <1>2 DEF TaskMove

(* Steps of the others do not disturb an open transaction. *)
LEMMA RequestsStayInAgreement ==
    ASSUME TypeOK, RequestsAgree, req' = req, pushed \subseteq pushed',
           row' = row \/ (~Locked /\ RowKept)
    PROVE  RequestsAgree'
<1>1. CASE row' = row
  BY <1>1 DEF RequestsAgree
<1>2. CASE ~Locked /\ RowKept
  BY <1>2 DEF RequestsAgree, Locked, RowKept, SameRow
<1> QED
  BY <1>1, <1>2

(* The invariant after a step of the engine or of the environment. *)
LEMMA EngineKeepsInvariant ==
    ASSUME TypeOK, TypeOK', PushInvariant, req' = req, pushed \subseteq pushed',
           row' = row \/ (~Locked /\ RowKept),
           GenerationsWithinDesired', SyncedWasPushed',
           \A u \in Tasks : TaskMove(u)
    PROVE  PushInvariant'
<1>1. RowAdvances
  BY KeptAdvances, SameRowKept
<1>2. RequestsAgree'
  BY RequestsStayInAgreement DEF PushInvariant
<1>3. TasksAgree'
  BY <1>1, TasksStayInAgreement DEF PushInvariant
<1> QED
  BY <1>2, <1>3 DEF PushInvariant

(* ... and when it does not touch the row at all. *)
LEMMA RowUntouched ==
    ASSUME TypeOK, TypeOK', PushInvariant, UNCHANGED <<row, req>>, pushed \subseteq pushed',
           \A u \in Tasks : TaskMove(u)
    PROVE  PushInvariant'
<1>1. GenerationsWithinDesired' /\ SyncedWasPushed'
  BY DEF PushInvariant, GenerationsWithinDesired, SyncedWasPushed
<1> QED
  BY <1>1, EngineKeepsInvariant

(* Tasks that stay as they are, and the task that ends. *)
LEMMA TasksUnchanged ==
    ASSUME TypeOK, task' = task
    PROVE  \A u \in Tasks : TaskMove(u)
BY DEF TaskMove

(* Ending a task is an allowed move. *)
LEMMA TaskFinishes ==
    ASSUME TypeOK, NEW t \in Tasks, Finish(t)
    PROVE  \A u \in Tasks : TaskMove(u)
BY DEF TaskMove, Finish, TypeOK

(* So is going on with the copy the task has read. *)
LEMMA TaskGoesOn ==
    ASSUME TypeOK, NEW t \in Tasks, task[t] # Idle, NEW pc, GoTo(t, pc),
           pc = "accepted" => <<task[t].read.id, task[t].read.desired>> \in pushed'
    PROVE  \A u \in Tasks : TaskMove(u)
<1> SUFFICES ASSUME NEW u \in Tasks PROVE TaskMove(u)
  OBVIOUS
<1>1. CASE u = t
  <2>1. task[t] \in TaskState
    BY DEF TypeOK
  <2>2. task' = [task EXCEPT ![t] = [task[t] EXCEPT !.pc = pc]]
    BY DEF GoTo
  <2>3. task'[t] = [task[t] EXCEPT !.pc = pc]
    BY <2>2 DEF TypeOK
  <2>4. task'[t].read = task[t].read /\ task'[t].pc = pc
    BY <2>1, <2>3 DEF TaskState
  <2> QED
    BY <1>1, <2>4 DEF TaskMove
<1>2. CASE u # t
  BY <1>2 DEF GoTo, TaskMove, TypeOK
<1> QED
  BY <1>1, <1>2

(* A late write of a task: it may record the generation it read, which the *)
(* row has reached, and changes no desired generation.                     *)
LEMMA LateFlush ==
    ASSUME TypeOK, PushInvariant, pushed' = pushed, NEW t \in Tasks, task[t].pc # "idle",
           NEW w \in SessionCopy, KeepsSynced(w, task[t].read), TaskFlush(t, w)
    PROVE  /\ ~Locked /\ RowKept
           /\ GenerationsWithinDesired' /\ SyncedWasPushed'
<1> DEFINE read == task[t].read
<1>1. read \in GatewayDeployment
  BY TaskRead
<1>2. ~Locked /\ GenerationsWithinDesired /\ SyncedWasPushed
  BY DEF TaskFlush, PushInvariant
<1>3. CASE ~SameRow(row, read)
  <2>1. row' = row
    BY <1>3 DEF TaskFlush
  <2> QED
    BY <1>2, <2>1, SameRowKept DEF GenerationsWithinDesired, SyncedWasPushed
<1>4. CASE SameRow(row, read)
  <2>1. row' = Flush(row, read, w)
    BY <1>4 DEF TaskFlush
  <2>2. /\ row'.id = row.id
        /\ row'.desired = Changed(row.desired, read.desired, w.desired)
        /\ row'.synced = Changed(row.synced, read.synced, w.synced)
        /\ row'.attempted = Changed(row.attempted, read.attempted, w.attempted)
    BY <1>1, <2>1, RowTyped, SessionFlushFacts
  <2>3. read.desired <= row.desired
    <3>1. task[t] # Idle
      BY DEF Idle
    <3> QED
      BY <1>4, <3>1 DEF PushInvariant, TasksAgree
  <2>4. /\ row'.desired = row.desired /\ row'.synced = row.synced
        /\ row'.attempted \in {row.attempted, read.desired}
    BY <2>2 DEF Changed, KeepsSynced
  <2>5. RowKept
    BY <1>4, <2>2, <2>4 DEF RowKept, SameRow
  <2> QED
    BY <1>2, <2>2, <2>3, <2>4, <2>5 DEF GenerationsWithinDesired, SyncedWasPushed
<1> QED
  BY <1>3, <1>4

(* The invariant holds before the first request. *)
LEMMA InitInvariant == Init => PushInvariant
<1> SUFFICES ASSUME Init PROVE PushInvariant
  OBVIOUS
<1>1. PICK s \in Specs : row = Deleted(Created(0, s))
  BY DEF Init
<1>2. row.desired = 1 /\ row.synced = 0 /\ row.attempted = 0
  BY <1>1, CreatedFacts, DeletedFacts
<1>3. RequestsAgree
  BY DEF Init, RequestsAgree, Idle
<1>4. TasksAgree
  BY DEF Init, TasksAgree
<1> QED
  BY <1>2, <1>3, <1>4 DEF PushInvariant, GenerationsWithinDesired, SyncedWasPushed

(* The steps of an API request keep it. *)
LEMMA RequestInvariant ==
    ASSUME TypeOK, TypeOK', PushInvariant, SingleRequest, NEW r \in Requests, RequestStep(r)
    PROVE  PushInvariant'
<1>0. \A q \in Requests : q = r
  BY DEF SingleRequest
<1>1. ASSUME UNCHANGED <<row, task, pushed>>, RequestsAgree'
      PROVE  PushInvariant'
  <2>1. TasksAgree'
    BY <1>1 DEF PushInvariant, TasksAgree
  <2> QED
    BY <1>1, <2>1 DEF PushInvariant, GenerationsWithinDesired, SyncedWasPushed
<1>2. ASSUME NEW op \in Operations, BeginRequest(r, op)
      PROVE  PushInvariant'
  <2>1. \A q \in Requests : req'[q].row = row /\ req'[q].pc = "read"
    BY <1>0, <1>2 DEF BeginRequest, TypeOK
  <2>2. RequestsAgree'
    BY <1>2, <2>1, RowTyped DEF BeginRequest, RequestsAgree
  <2> QED
    BY <1>1, <1>2, <2>2 DEF BeginRequest
<1>3. CASE FlushRequest(r)
  <2> DEFINE op == req[r].op
             read == req[r].row
             new == Written(op, read, row)
  <2>1. op \in Operations /\ read \in GatewayDeployment /\ row \in GatewayDeployment
    BY <1>3 DEF FlushRequest, RequestState, Idle, TypeOK
  <2>2. SameRow(row, read) => read.desired = row.desired
    BY <1>3 DEF FlushRequest, PushInvariant, RequestsAgree
  <2>3. \/ /\ ~Exists(row) /\ Exists(new)
           /\ new.id = row.id + 1
           /\ new.desired = 1 /\ new.synced = 0 /\ new.attempted = 0
        \/ /\ SameRow(row, read) /\ ~Exists(new)
           /\ new.id = row.id
           /\ new.desired = 1 /\ new.synced = 0 /\ new.attempted = 0
        \/ /\ SameRow(row, read) /\ Exists(new)
           /\ new.id = row.id
           /\ new.desired \in {row.desired, read.desired + 1}
           /\ new.synced = row.synced /\ new.attempted = row.attempted
    BY <1>3, <2>1, WrittenFacts DEF FlushRequest
  <2>4. \A q \in Requests : req'[q].row = new /\ req'[q].pc = "flushed" /\ req'[q].op = op
    BY <1>0, <1>3 DEF FlushRequest, TypeOK
  <2>7. op.name = "deploy_api" => Exists(new)
    BY <1>3, <2>1, DeployLeavesRow DEF FlushRequest
  <2> HIDE DEF op, read, new
  <2>5. /\ new.attempted <= new.desired /\ new.synced <= new.desired
        /\ new.synced = 0 \/ <<new.id, new.synced>> \in pushed
        /\ new.id >= row.id
        /\ new.id = row.id /\ Exists(new) => Exists(row) /\ new.desired >= row.desired
    <3>1. GenerationsWithinDesired /\ SyncedWasPushed
      BY DEF PushInvariant
    <3> QED
      BY <2>2, <2>3, <3>1, RowTyped DEF GenerationsWithinDesired, SyncedWasPushed, SameRow
  <2>6. RequestsAgree'
    BY <1>3, <2>4, <2>5, <2>7 DEF FlushRequest, RequestsAgree
  <2> QED
    BY <1>1, <1>3, <2>6 DEF FlushRequest
<1>4. ASSUME NEW res \in InlineResults, InlineSync(r, res)
      PROVE  PushInvariant'
  <2> DEFINE old == req[r].row
             new == InlineSynced(old, res)
  <2>1. old \in GatewayDeployment
    BY <1>4 DEF InlineSync, RequestState, Idle, TypeOK
  <2>2. /\ new.id = old.id /\ new.desired = old.desired
        /\ new.attempted = old.attempted /\ new.synced = old.synced
    BY <2>1, InlineSyncedFacts
  <2>3. \A q \in Requests : /\ req'[q].row = new /\ req'[q].pc = "flushed"
                            /\ req'[q].op.name = "inline_synced"
    BY <1>0, <1>4 DEF InlineSync, TypeOK
  <2>4. Exists(old)
    BY <1>4 DEF InlineSync, PushInvariant, RequestsAgree
  <2> HIDE DEF new
  <2>5. RequestsAgree'
    BY <1>4, <2>2, <2>3, <2>4 DEF InlineSync, PushInvariant, RequestsAgree
  <2> QED
    BY <1>1, <1>4, <2>5 DEF InlineSync
<1>5. CASE CommitRequest(r)
  <2>1. UNCHANGED <<task, pushed>> /\ row' = req[r].row
    BY <1>5 DEF CommitRequest
  <2>2. RowAdvances /\ GenerationsWithinDesired' /\ SyncedWasPushed'
    BY <1>5, <2>1 DEF CommitRequest, PushInvariant, RequestsAgree, RowAdvances,
                      GenerationsWithinDesired, SyncedWasPushed
  <2>3. \A q \in Requests : req'[q] = Idle
    BY <1>0, <1>5 DEF CommitRequest, TypeOK
  <2>4. RequestsAgree'
    BY <2>3 DEF RequestsAgree, Idle
  <2>5. TasksAgree'
    BY <2>1, <2>2, TasksUnchanged, TasksStayInAgreement DEF PushInvariant
  <2> QED
    BY <2>2, <2>4, <2>5 DEF PushInvariant
<1>6. CASE RollbackRequest(r)
  <2>1. \A q \in Requests : req'[q] = Idle
    BY <1>0, <1>6 DEF RollbackRequest, TypeOK
  <2>2. RequestsAgree'
    BY <2>1 DEF RequestsAgree, Idle
  <2> QED
    BY <1>1, <1>6, <2>2 DEF RollbackRequest
<1> QED
  BY <1>2, <1>3, <1>4, <1>5, <1>6 DEF RequestStep

(* The steps of a reconcile task keep it, however late they come. *)
LEMMA TaskInvariant ==
    ASSUME TypeOK, TypeOK', PushInvariant, NEW t \in Tasks, TaskStep(t)
    PROVE  PushInvariant'
<1> DEFINE read == task[t].read
<1>0. task[t].pc # "idle" => read \in GatewayDeployment /\ task[t] # Idle
  BY TaskRead DEF Idle
(* A task ends after a write that leaves synced_generation alone. *)
<1>1. ASSUME NEW w \in SessionCopy, task[t].pc # "idle", KeepsSynced(w, read), TaskFlush(t, w),
             Finish(t), req' = req, pushed' = pushed
      PROVE  PushInvariant'
  BY <1>1, LateFlush, TaskFinishes, EngineKeepsInvariant
<1>2. CASE FailNoGateway(t)
  BY <1>0, <1>1, <1>2, TaskCopies, TaskGenerations DEF FailNoGateway
<1>3. CASE ConnectFails(t) \/ ConnectForDelete(t)
  BY <1>0, <1>3, TaskGoesOn, RowUntouched DEF ConnectFails, ConnectForDelete
<1>4. CASE ConnectForNothing(t)
  BY <1>4, TaskFinishes, RowUntouched DEF ConnectForNothing
<1>5. CASE MarkSyncing(t)
  <2> DEFINE w == [read EXCEPT !.status = "SYNCING", !.attemptAt = "now"]
  <2>1. w \in SessionCopy /\ KeepsSynced(w, read) /\ TaskFlush(t, w) /\ task[t].pc # "idle"
    BY <1>0, <1>5, TaskCopies, TaskGenerations DEF MarkSyncing
  <2>2. UNCHANGED <<req, pushed>>
    BY <1>5 DEF MarkSyncing
  <2> HIDE DEF w
  <2>3. /\ ~Locked /\ RowKept
        /\ GenerationsWithinDesired' /\ SyncedWasPushed'
    BY <2>1, <2>2, LateFlush
  <2>4. \A u \in Tasks : TaskMove(u)
    BY <1>5 DEF MarkSyncing, TaskMove, TypeOK
  <2> QED
    BY <2>2, <2>3, <2>4, EngineKeepsInvariant
<1>6. CASE CallSync(t)
  <2>1. task[t] # Idle /\ UNCHANGED <<row, req>> /\ pushed \subseteq pushed'
    BY <1>0, <1>6 DEF CallSync
  <2>2. CASE GoTo(t, "accepted") /\ pushed' = pushed \cup {<<read.id, read.desired>>}
    <3>1. <<read.id, read.desired>> \in pushed'
      BY <2>2
    <3> QED
      BY <2>1, <2>2, <3>1, TaskGoesOn, RowUntouched
  <2>3. CASE GoTo(t, "refused") \/ GoTo(t, "raised")
    BY <2>1, <2>3, TaskGoesOn, RowUntouched
  <2> QED
    BY <1>6, <2>2, <2>3 DEF CallSync
<1>7. CASE RecordSynced(t)
  <2>1. TaskFlush(t, Synced(read)) /\ Finish(t) /\ UNCHANGED <<req, pushed>> /\ ~Locked
    BY <1>7 DEF RecordSynced, TaskFlush
  <2>2. read \in GatewayDeployment /\ task[t] # Idle /\ task[t].pc = "accepted"
    BY <1>0, <1>7 DEF RecordSynced
  <2>3. /\ SameRow(row, read) => read.desired <= row.desired
        /\ <<read.id, read.desired>> \in pushed
    BY <2>2 DEF PushInvariant, TasksAgree
  <2>4. GenerationsWithinDesired /\ SyncedWasPushed
    BY DEF PushInvariant
  <2> HIDE DEF read
  <2>5. RowKept /\ GenerationsWithinDesired' /\ SyncedWasPushed'
    <3>1. CASE ~SameRow(row, read)
      <4>1. row' = row
        BY <2>1, <3>1 DEF TaskFlush, read
      <4> QED
        BY <2>1, <2>4, <4>1, SameRowKept DEF GenerationsWithinDesired, SyncedWasPushed
    <3>2. CASE SameRow(row, read)
      <4>1. row' = Flush(row, read, Synced(read)) /\ Synced(read) \in SessionCopy
        BY <2>1, <2>2, <3>2, TaskCopies DEF TaskFlush, read
      <4>2. /\ row'.id = row.id
            /\ row'.desired = Changed(row.desired, read.desired, Synced(read).desired)
            /\ row'.synced = Changed(row.synced, read.synced, Synced(read).synced)
            /\ row'.attempted = Changed(row.attempted, read.attempted, Synced(read).attempted)
        BY <2>2, <4>1, RowTyped, SessionFlushFacts
      <4>3. /\ row'.desired = row.desired
            /\ row'.synced \in {row.synced, read.desired}
            /\ row'.attempted \in {row.attempted, read.desired}
        BY <2>2, <4>2, SyncedFacts DEF Changed
      <4>4. RowKept
        BY <3>2, <4>2, <4>3 DEF RowKept, SameRow
      <4>5. GenerationsWithinDesired'
        BY <2>3, <2>4, <3>2, <4>3 DEF GenerationsWithinDesired
      <4>6. SyncedWasPushed'
        BY <2>1, <2>3, <2>4, <3>2, <4>2, <4>3 DEF SyncedWasPushed, SameRow
      <4> QED
        BY <4>4, <4>5, <4>6
    <3> QED
      BY <3>1, <3>2
  <2> QED
    BY <2>1, <2>5, TaskFinishes, EngineKeepsInvariant
<1>8. CASE RecordRefused(t)
  BY <1>0, <1>1, <1>8, TaskCopies, TaskGenerations DEF RecordRefused
<1>9. CASE RecordRaised(t)
  BY <1>0, <1>1, <1>9, TaskCopies, TaskGenerations DEF RecordRaised
<1>10. CASE CallDelete(t)
  BY <1>0, <1>10, TaskGoesOn, RowUntouched DEF CallDelete
<1>11. CASE RecordRemoved(t)
  <2>1. ~Locked /\ Finish(t) /\ UNCHANGED <<req, pushed>> /\ (row' = row \/ row' = Deleted(row))
    BY <1>11 DEF RecordRemoved
  <2>2. CASE row' = row
    BY <2>1, <2>2, TaskFinishes, RowUntouched
  <2>3. CASE row' = Deleted(row)
    <3>1. /\ row'.id = row.id /\ row'.desired = 1 /\ row'.synced = 0 /\ row'.attempted = 0
          /\ ~Exists(row')
      BY <2>3, RowTyped, DeletedFacts DEF Exists
    <3>2. RowKept /\ GenerationsWithinDesired' /\ SyncedWasPushed'
      BY <3>1 DEF RowKept, GenerationsWithinDesired, SyncedWasPushed
    <3> QED
      BY <2>1, <3>2, TaskFinishes, EngineKeepsInvariant
  <2> QED
    BY <2>1, <2>2, <2>3
<1>12. CASE RecordNotRemoved(t)
  BY <1>0, <1>1, <1>12, TaskCopies, TaskGenerations DEF RecordNotRemoved
<1> QED
  BY <1>2, <1>3, <1>4, <1>5, <1>6, <1>7, <1>8, <1>9, <1>10, <1>11, <1>12 DEF TaskStep

(* The steps of the periodic loop keep it. *)
LEMMA LoopInvariant ==
    ASSUME TypeOK, TypeOK', PushInvariant, LoopStep
    PROVE  PushInvariant'
(* A write of the loop changes no generation. *)
<1>1. ASSUME NEW read \in GatewayDeployment, NEW w \in SessionCopy,
             w.desired = read.desired, w.synced = read.synced, w.attempted = read.attempted,
             row' = IF SameRow(row, read) THEN Flush(row, read, w) ELSE row,
             ~Locked, UNCHANGED <<req, pushed, task>>
      PROVE  PushInvariant'
  <2>1. /\ row'.id = row.id /\ row'.desired = row.desired
        /\ row'.synced = row.synced /\ row'.attempted = row.attempted
    <3>1. CASE ~SameRow(row, read)
      BY <1>1, <3>1
    <3>2. CASE SameRow(row, read)
      <4>1. row' = Flush(row, read, w)
        BY <1>1, <3>2
      <4>2. /\ row'.id = row.id
            /\ row'.desired = Changed(row.desired, read.desired, w.desired)
            /\ row'.synced = Changed(row.synced, read.synced, w.synced)
            /\ row'.attempted = Changed(row.attempted, read.attempted, w.attempted)
        BY <4>1, RowTyped, SessionFlushFacts
      <4> QED
        BY <1>1, <4>2 DEF Changed
    <3> QED
      BY <3>1, <3>2
  <2>2. RowKept
    BY <1>1, <2>1 DEF RowKept, SameRow
  <2>3. GenerationsWithinDesired' /\ SyncedWasPushed'
    BY <1>1, <2>1 DEF PushInvariant, GenerationsWithinDesired, SyncedWasPushed
  <2> QED
    BY <1>1, <2>2, <2>3, TasksUnchanged, EngineKeepsInvariant
<1>2. CASE ListActionable \/ Gather \/ ListSynced \/ CompareWithGateway
  BY <1>2, TasksUnchanged, RowUntouched DEF ListActionable, Gather, ListSynced, CompareWithGateway
<1>3. CASE ExpirePending
  <2>1. loop.read \in GatewayDeployment
    BY <1>3 DEF ExpirePending, LoopState, TypeOK
  <2>2. /\ TimedOut(loop.read).desired = loop.read.desired
        /\ TimedOut(loop.read).synced = loop.read.synced
        /\ TimedOut(loop.read).attempted = loop.read.attempted
    BY <2>1 DEF TimedOut, GatewayDeployment
  <2> QED
    BY <1>1, <1>3, <2>1, <2>2, TaskCopies DEF ExpirePending
<1>4. CASE RecordDrift
  <2> DEFINE w == [loop.read EXCEPT !.status = "DRIFTED"]
  <2>1. loop.read \in GatewayDeployment
    BY <1>4 DEF RecordDrift, LoopState, TypeOK
  <2>2. /\ w.desired = loop.read.desired
        /\ w.synced = loop.read.synced
        /\ w.attempted = loop.read.attempted
    BY <2>1 DEF GatewayDeployment
  <2> QED
    BY <1>1, <1>4, <2>1, <2>2, TaskCopies DEF RecordDrift
<1>5. CASE Dispatch
  <2>1. UNCHANGED <<row, req, pushed>>
    BY <1>5 DEF Dispatch
  <2>2. \A u \in Tasks : TaskMove(u)
    BY <1>5 DEF Dispatch, Started, TaskMove, TypeOK
  <2> QED
    BY <2>1, <2>2, RowUntouched
<1> QED
  BY <1>2, <1>3, <1>4, <1>5 DEF LoopStep

(* Every step keeps it. *)
LEMMA NextInvariant ==
    ASSUME SingleRequest
    PROVE  TypeOK /\ TypeOK' /\ PushInvariant /\ [Next]_vars => PushInvariant'
<1> SUFFICES ASSUME TypeOK, TypeOK', PushInvariant, [Next]_vars
             PROVE  PushInvariant'
  OBVIOUS
<1>1. ASSUME NEW r \in Requests, RequestStep(r)
      PROVE  PushInvariant'
  BY <1>1, RequestInvariant
<1>2. ASSUME NEW t \in KafkaTasks, NEW i \in Ids, DeliverKafka(t, i)
      PROVE  PushInvariant'
  <2>1. UNCHANGED <<row, req, pushed>>
    BY <1>2 DEF DeliverKafka
  <2>2. \A u \in Tasks : TaskMove(u)
    BY <1>2 DEF DeliverKafka, Started, TaskMove, TypeOK, Tasks
  <2> QED
    BY <2>1, <2>2, RowUntouched
<1>3. ASSUME NEW t \in Tasks, TaskStep(t)
      PROVE  PushInvariant'
  BY <1>3, TaskInvariant
<1>4. CASE LoopStep
  BY <1>4, LoopInvariant
<1>5. CASE Elapse
  <2>1. ~Locked /\ UNCHANGED <<req, pushed, task>>
    BY <1>5 DEF Elapse
  <2>2. /\ row'.id = row.id /\ row'.desired = row.desired
        /\ row'.synced = row.synced /\ row'.attempted = row.attempted
        /\ Exists(row)
    BY <1>5, RowTyped, AgedFacts DEF Elapse
  <2>3. RowKept /\ GenerationsWithinDesired' /\ SyncedWasPushed'
    BY <2>1, <2>2 DEF RowKept, PushInvariant, GenerationsWithinDesired, SyncedWasPushed
  <2> QED
    BY <2>1, <2>3, TasksUnchanged, EngineKeepsInvariant
<1>6. CASE Crash
  <2>1. UNCHANGED <<row, req, pushed>>
    BY <1>6 DEF Crash
  <2>2. \A u \in Tasks : TaskMove(u)
    BY <1>6 DEF Crash, TaskMove
  <2> QED
    BY <2>1, <2>2, RowUntouched
<1>7. ASSUME NEW s, SetGateway(s) \/ Tamper(s)
      PROVE  PushInvariant'
  BY <1>7, TasksUnchanged, RowUntouched DEF SetGateway, Tamper
<1>8. CASE UNCHANGED vars
  BY <1>8, TasksUnchanged, RowUntouched DEF vars
<1> QED
  BY <1>1, <1>2, <1>3, <1>4, <1>5, <1>6, <1>7, <1>8 DEF Next

(* With one API request at a time, and any number of reconcile tasks that  *)
(* run late, crash or overtake each other, the generations in the row, in  *)
(* the open transaction and in the tasks fit together.                     *)
THEOREM PushGenerations ==
    ASSUME SingleRequest
    PROVE  Spec => []PushInvariant
<1>1. Init => TypeOK /\ PushInvariant
  BY InitType, InitInvariant
<1>2. TypeOK /\ PushInvariant /\ [Next]_vars => TypeOK' /\ PushInvariant'
  BY NextType, NextInvariant
<1> QED
  BY <1>1, <1>2, PTL DEF Spec

(* synced_generation is always a generation whose desired state sync_api   *)
(* accepted for this very row, in spite of the missing compare-and-set.    *)
THEOREM SyncedIsPushed ==
    ASSUME SingleRequest
    PROVE  Spec => []SyncedWasPushed
<1>1. PushInvariant => SyncedWasPushed
  BY DEF PushInvariant
<1> QED
  BY <1>1, PushGenerations, PTL

(* No reconcile task records a generation that the row has not reached.    *)
THEOREM GenerationsStayWithinDesired ==
    ASSUME SingleRequest
    PROVE  Spec => []GenerationsWithinDesired
<1>1. PushInvariant => GenerationsWithinDesired
  BY DEF PushInvariant
<1> QED
  BY <1>1, PushGenerations, PTL

------------------------------------------------------------------------------
(* What is on the gateway, for one API request and one reconcile task at a *)
(* time, in a mode with tombstones.  PushInvariant orders generations; the *)
(* parts below tie them to the desired state they stand for.  A row is cur *)
(* where only the row matters, so that steps which keep it keep them too.  *)

(* Whoever changes the desired state changes the generation with it, and a *)
(* tombstone is a generation that no push has reached.                     *)
RowIsSound(cur) ==
    cur.desired > 0 /\ (cur.status = "DELETING" => cur.synced < cur.desired)

(* A transaction that has flushed follows on the row: an insert, or an     *)
(* update that has a new generation if it has a new desired state.         *)
Follows(cur, copy) ==
    /\ Exists(copy) /\ RowIsSound(copy)
    /\ Exists(cur) => /\ copy.id = cur.id /\ copy.synced = cur.synced
                      /\ copy.desired = cur.desired => copy.spec = cur.spec
    /\ ~Exists(cur) => copy.synced = 0
RequestsFollow ==
    \A r \in Requests :
        /\ req[r].pc = "read" /\ SameRow(row, req[r].row) => req[r].row.spec = row.spec
        /\ req[r].pc = "flushed" => Follows(row, req[r].row)

(* The row a task read is there until the task itself removes it, and only *)
(* the task has written synced_generation since.                           *)
Tracks(cur, read) ==
    /\ SameRow(cur, read)
    /\ read.synced = cur.synced /\ read.synced <= read.desired
    /\ read.desired = cur.desired => read.spec = cur.spec
    /\ read.status = "DELETING" => read.synced < read.desired

(* ... and how far the task has got says what is on the gateway. *)
Progress(tsk) ==
    /\ tsk.pc \in {"sync", "accepted"} => tsk.read.status = "SYNCING"
    /\ tsk.pc = "delete" => tsk.read.status = "DELETING"
    /\ tsk.pc = "accepted" /\ tampering = 0 => gw = tsk.read.spec
TasksTrack ==
    \A t \in Tasks : task[t] # Idle => Tracks(row, task[t].read) /\ Progress(task[t])

LiveInvariant ==
    RowIsSound(row) /\ RequestsFollow /\ TasksTrack /\ SyncedGenerationIsLive

(* Nothing is deployed, requested or running at the start. *)
LEMMA InitLive == Init => LiveInvariant
<1> SUFFICES ASSUME Init PROVE LiveInvariant
  OBVIOUS
<1>1. PICK s \in Specs : row = Deleted(Created(0, s))
  BY DEF Init
<1>2. row.desired = 1 /\ row.status = "GONE"
  BY <1>1, CreatedFacts, DeletedFacts
<1>3. RowIsSound(row) /\ SyncedGenerationIsLive
  BY <1>2 DEF RowIsSound, SyncedGenerationIsLive, Exists
<1>4. RequestsFollow /\ TasksTrack
  BY DEF Init, RequestsFollow, TasksTrack, Idle
<1> QED
  BY <1>3, <1>4 DEF LiveInvariant

(* A write of the engine that claims no push: the row, its generations and *)
(* its desired state stay, and it becomes no tombstone.                    *)
RowQuiet ==
    /\ row'.id = row.id /\ row'.desired = row.desired
    /\ row'.synced = row.synced /\ row'.spec = row.spec
    /\ Exists(row') <=> Exists(row)
    /\ row'.status = "DELETING" => row.status = "DELETING"

(* The statuses the engine writes. *)
EngineStatus == {"SYNCING", "SYNCED", "DRIFTED", "ERROR"}

(* A flush of the engine keeps the key and the desired state. *)
LEMMA EngineFlush ==
    ASSUME TypeOK, NEW read \in GatewayDeployment, NEW w \in SessionCopy,
           w.spec = read.spec, w.desired = read.desired, w.status \in {read.status} \cup EngineStatus,
           row' = IF SameRow(row, read) THEN Flush(row, read, w) ELSE row
    PROVE  /\ row'.id = row.id /\ row'.desired = row.desired /\ row'.spec = row.spec
           /\ Exists(row') <=> Exists(row)
           /\ row'.status = "DELETING" => row.status = "DELETING"
           /\ SameRow(row, read) => /\ row'.synced = Changed(row.synced, read.synced, w.synced)
                                    /\ row'.status = Changed(row.status, read.status, w.status)
           /\ ~SameRow(row, read) => row' = row
<1>1. CASE ~SameRow(row, read)
  BY <1>1
<1>2. CASE SameRow(row, read)
  <2>1. row \in GatewayDeployment
    BY RowTyped
  <2>2. row' = Flush(row, read, w)
    BY <1>2
  <2>3. /\ row'.id = row.id
        /\ row'.desired = Changed(row.desired, read.desired, w.desired)
        /\ row'.spec = Changed(row.spec, read.spec, w.spec)
        /\ row'.synced = Changed(row.synced, read.synced, w.synced)
        /\ row'.status = Changed(row.status, read.status, w.status)
    BY <2>1, <2>2 DEF Flush, GatewayDeployment
  <2>4. Exists(row) /\ Exists(row')
    BY <1>2, <2>3 DEF SameRow, Exists, Changed, EngineStatus
  <2>5. row'.status = "DELETING" => row.status = "DELETING"
    BY <2>3 DEF Changed, EngineStatus
  <2> QED
    BY <1>2, <2>3, <2>4, <2>5 DEF Changed
<1> QED
  BY <1>1, <1>2

(* So a flush that leaves synced_generation alone is quiet. *)
LEMMA QuietFlush ==
    ASSUME TypeOK, NEW read \in GatewayDeployment, NEW w \in SessionCopy,
           w.spec = read.spec, w.desired = read.desired, w.synced = read.synced,
           w.status \in {read.status} \cup EngineStatus,
           row' = IF SameRow(row, read) THEN Flush(row, read, w) ELSE row
    PROVE  RowQuiet
<1>1. /\ row'.id = row.id /\ row'.desired = row.desired /\ row'.spec = row.spec
      /\ Exists(row') <=> Exists(row)
      /\ row'.status = "DELETING" => row.status = "DELETING"
      /\ SameRow(row, read) => row'.synced = Changed(row.synced, read.synced, w.synced)
      /\ ~SameRow(row, read) => row' = row
  BY EngineFlush
<1> QED
  BY <1>1 DEF Changed, RowQuiet

(* A session copy that claims no push and no new desired state. *)
Quiet(w, r) ==
    /\ w \in SessionCopy
    /\ w.spec = r.spec /\ w.desired = r.desired /\ w.synced = r.synced
    /\ w.status \in {r.status} \cup EngineStatus

(* The copies the engine writes, except on success, are such. *)
LEMMA TaskWritesQuietly ==
    ASSUME NEW r \in GatewayDeployment
    PROVE  /\ Quiet([r EXCEPT !.status = "ERROR"], r)
           /\ Quiet([r EXCEPT !.status = "DRIFTED"], r)
           /\ Quiet([r EXCEPT !.status = "SYNCING", !.attemptAt = "now"], r)
           /\ Quiet([r EXCEPT !.status = "ERROR", !.attempted = r.desired, !.attempts = @ + 1], r)
           /\ Quiet([r EXCEPT !.status = "ERROR", !.attempts = @ + 1, !.attemptAt = "now"], r)
           /\ Quiet([r EXCEPT !.attempts = @ + 1, !.attemptAt = "now"], r)
           /\ Quiet(TimedOut(r), r)
<1>1. /\ [r EXCEPT !.status = "ERROR"] \in SessionCopy
      /\ [r EXCEPT !.status = "DRIFTED"] \in SessionCopy
      /\ [r EXCEPT !.status = "SYNCING", !.attemptAt = "now"] \in SessionCopy
      /\ [r EXCEPT !.status = "ERROR", !.attempted = r.desired, !.attempts = @ + 1] \in SessionCopy
      /\ [r EXCEPT !.status = "ERROR", !.attempts = @ + 1, !.attemptAt = "now"] \in SessionCopy
      /\ [r EXCEPT !.attempts = @ + 1, !.attemptAt = "now"] \in SessionCopy
      /\ TimedOut(r) \in SessionCopy
  BY TaskCopies
<1> QED
  BY <1>1 DEF Quiet, EngineStatus, TimedOut, GatewayDeployment

(* What holds of the row and of a copy survives a quiet write. *)
LEMMA QuietKeeps ==
    ASSUME RowQuiet
    PROVE  /\ RowIsSound(row) => RowIsSound(row')
           /\ \A read : Tracks(row, read) => Tracks(row', read)
           /\ \A read : SameRow(row', read) <=> SameRow(row, read)
<1>1. RowIsSound(row) => RowIsSound(row')
  BY DEF RowQuiet, RowIsSound
<1>2. \A read : SameRow(row', read) <=> SameRow(row, read)
  BY DEF RowQuiet, SameRow
<1>3. \A read : Tracks(row, read) => Tracks(row', read)
  BY <1>2 DEF RowQuiet, Tracks
<1> QED
  BY <1>1, <1>2, <1>3

(* The invariant after a step of the engine that writes quietly and calls  *)
(* nobody, given the part about the tasks.                                 *)
LEMMA QuietStep ==
    ASSUME LiveInvariant, RowQuiet, row' = row \/ ~Locked, req' = req,
           tampering' = tampering, gw' = gw, TasksTrack'
    PROVE  LiveInvariant'
<1>1. RowIsSound(row)'
  BY QuietKeeps DEF LiveInvariant
<1>2. RequestsFollow'
  <2>1. CASE row' = row
    BY <2>1 DEF LiveInvariant, RequestsFollow
  <2>2. CASE ~Locked
    BY <2>2, QuietKeeps DEF LiveInvariant, RequestsFollow, Locked, RowQuiet
  <2> QED
    BY <2>1, <2>2
<1>3. SyncedGenerationIsLive'
  BY DEF LiveInvariant, SyncedGenerationIsLive, RowQuiet
<1> QED
  BY <1>1, <1>2, <1>3 DEF LiveInvariant

(* A row that stays as it is was written quietly. *)
LEMMA SameRowQuiet ==
    ASSUME row' = row
    PROVE  RowQuiet
BY DEF RowQuiet

(* Tasks that end or stay as they are keep track of the row. *)
LEMMA TrackingEnds ==
    ASSUME LiveInvariant, RowQuiet, tampering' = tampering, gw' = gw,
           \A u \in Tasks : task'[u] \in {Idle, task[u]}
    PROVE  TasksTrack'
<1>1. \A u \in Tasks : task'[u] # Idle => task'[u] = task[u]
  OBVIOUS
<1>2. \A u \in Tasks : task[u] # Idle => Tracks(row', task[u].read) /\ Progress(task[u])
  BY QuietKeeps DEF LiveInvariant, TasksTrack
<1> QED
  BY <1>1, <1>2 DEF TasksTrack, Progress

(* One request at a time, one task at a time, and tombstones. *)
OneWriter == SingleRequest /\ KafkaTasks = {} /\ ~is_inline_sync_enabled

(* There is one task, and undeploy leaves a tombstone. *)
LEMMA OneTask ==
    ASSUME OneWriter
    PROVE  Tasks = {Periodic} /\ is_sse_enabled
BY DeployModeAssumption DEF OneWriter, Tasks, is_inline_sync_enabled, is_sse_enabled

(* The steps of an API request keep the invariant. *)
LEMMA RequestLive ==
    ASSUME TypeOK, PushInvariant, LiveInvariant, OneWriter, NEW r \in Requests, RequestStep(r)
    PROVE  LiveInvariant'
<1>0. \A q \in Requests : q = r
  BY DEF OneWriter, SingleRequest
<1>1. ASSUME UNCHANGED <<row, task, gw, tampering>>, RequestsFollow'
      PROVE  LiveInvariant'
  <2>1. TasksTrack'
    BY <1>1 DEF LiveInvariant, TasksTrack, Progress
  <2>2. RowIsSound(row)' /\ SyncedGenerationIsLive'
    BY <1>1 DEF LiveInvariant, SyncedGenerationIsLive
  <2> QED
    BY <1>1, <2>1, <2>2 DEF LiveInvariant
<1>2. ASSUME NEW op \in Operations, BeginRequest(r, op)
      PROVE  LiveInvariant'
  <2>1. \A q \in Requests : req'[q].row = row /\ req'[q].pc = "read"
    BY <1>0, <1>2 DEF BeginRequest, TypeOK
  <2>2. RequestsFollow'
    BY <1>2, <2>1 DEF BeginRequest, RequestsFollow
  <2> QED
    BY <1>1, <1>2, <2>2 DEF BeginRequest
<1>3. CASE FlushRequest(r)
  <2> DEFINE op == req[r].op
             read == req[r].row
             new == Written(op, read, row)
  <2>1. op \in Operations /\ read \in GatewayDeployment /\ row \in GatewayDeployment
    BY <1>3 DEF FlushRequest, RequestState, Idle, TypeOK
  <2>2. CanWrite(op, read, row) /\ is_sse_enabled
    BY <1>3, OneTask DEF FlushRequest
  <2>3. SameRow(row, read) => read.desired = row.desired /\ read.spec = row.spec
    BY <1>3 DEF FlushRequest, PushInvariant, RequestsAgree, LiveInvariant, RequestsFollow
  <2>4. /\ Exists(new)
        /\ new.status = "DELETING" => new.id = row.id /\ SameRow(row, read)
        /\ new.status = "DELETING" /\ new.desired = row.desired => row.status = "DELETING"
    BY <2>1, <2>2, <2>3, WrittenStatus
  <2>5. SameRow(row, read) /\ new.desired = row.desired => new.spec = row.spec
    BY <2>1, <2>2, <2>3, WrittenSpec
  <2>6. \/ /\ ~Exists(row)
           /\ new.id = row.id + 1 /\ new.desired = 1 /\ new.synced = 0
        \/ /\ SameRow(row, read)
           /\ new.id = row.id /\ new.synced = row.synced
           /\ new.desired \in {row.desired, read.desired + 1}
    <3>1. /\ \/ /\ ~Exists(row) /\ Exists(new)
                /\ new.id = row.id + 1
                /\ new.desired = 1 /\ new.synced = 0 /\ new.attempted = 0
             \/ /\ SameRow(row, read) /\ ~Exists(new)
                /\ new.id = row.id
                /\ new.desired = 1 /\ new.synced = 0 /\ new.attempted = 0
             \/ /\ SameRow(row, read) /\ Exists(new)
                /\ new.id = row.id
                /\ new.desired \in {row.desired, read.desired + 1}
                /\ new.synced = row.synced /\ new.attempted = row.attempted
      BY <2>1, <2>2, WrittenFacts
    <3> QED
      BY <2>4, <3>1
  <2>7. \A q \in Requests : req'[q].row = new /\ req'[q].pc = "flushed"
    BY <1>0, <1>3 DEF FlushRequest, TypeOK
  <2> HIDE DEF op, read, new
  <2>8. RowIsSound(new)
    <3>1. RowIsSound(row) /\ row.synced <= row.desired
      BY DEF LiveInvariant, PushInvariant, GenerationsWithinDesired
    <3>2. new.desired > 0
      BY <2>3, <2>6, <3>1, RowTyped DEF RowIsSound
    <3>3. ASSUME new.status = "DELETING"
          PROVE  new.synced < new.desired
      <4>1. SameRow(row, read) /\ Exists(row)
        BY <2>4, <3>3 DEF SameRow
      <4>2. new.synced = row.synced /\ new.desired \in {row.desired, row.desired + 1}
        BY <2>3, <2>6, <4>1
      <4> QED
        BY <2>4, <3>1, <3>3, <4>2, RowTyped DEF RowIsSound
    <3> QED
      BY <3>2, <3>3 DEF RowIsSound
  <2>9. Follows(row, new)
    BY <2>4, <2>5, <2>6, <2>8 DEF Follows, SameRow
  <2>10. RequestsFollow'
    BY <1>3, <2>7, <2>9 DEF FlushRequest, RequestsFollow
  <2> QED
    BY <1>1, <1>3, <2>10 DEF FlushRequest
<1>4. CASE CommitRequest(r)
  <2> DEFINE copy == req[r].row
  <2>1. row' = copy /\ UNCHANGED <<task, gw, tampering>>
    BY <1>4 DEF CommitRequest
  <2>2. Follows(row, copy)
    BY <1>4 DEF CommitRequest, LiveInvariant, RequestsFollow
  <2>3. Exists(row) => copy.desired >= row.desired
    BY <1>4, <2>2 DEF CommitRequest, PushInvariant, RequestsAgree, Follows
  <2>4. copy \in GatewayDeployment /\ copy.desired \in Nat
    BY <1>4 DEF CommitRequest, TypeOK, RequestState, Idle, GatewayDeployment
  <2>5. \A q \in Requests : req'[q] = Idle
    BY <1>0, <1>4 DEF CommitRequest, TypeOK
  <2>6. RequestsFollow'
    BY <2>5 DEF RequestsFollow, Idle
  <2> HIDE DEF copy
  <2>7. TasksTrack'
    <3> SUFFICES ASSUME NEW u \in Tasks, task[u] # Idle
                 PROVE  Tracks(copy, task[u].read) /\ Progress(task[u])
      BY <2>1 DEF TasksTrack, Progress
    <3>1. Tracks(row, task[u].read) /\ Progress(task[u])
      BY DEF LiveInvariant, TasksTrack
    <3>2. SameRow(row, task[u].read) /\ Exists(row)
      BY <3>1 DEF Tracks, SameRow
    <3>3. task[u].read.desired <= row.desired /\ task[u].read.desired \in Nat
      <4>1. task[u].read \in GatewayDeployment
        BY DEF TypeOK, TaskState
      <4> QED
        BY <3>2, <4>1 DEF PushInvariant, TasksAgree, GatewayDeployment
    <3>4. SameRow(copy, task[u].read) /\ copy.synced = row.synced
      BY <2>2, <3>2 DEF Follows, SameRow
    <3>5. task[u].read.desired = copy.desired => task[u].read.spec = copy.spec
      <4> SUFFICES ASSUME task[u].read.desired = copy.desired
                   PROVE  task[u].read.spec = copy.spec
        OBVIOUS
      <4>1. copy.desired = row.desired
        BY <2>3, <3>2, <3>3, RowTyped
      <4> QED
        BY <2>2, <3>1, <3>2, <4>1 DEF Follows, Tracks
    <3> QED
      BY <3>1, <3>4, <3>5 DEF Tracks
  <2>8. RowIsSound(row)'
    BY <2>1, <2>2 DEF Follows
  <2>9. SyncedGenerationIsLive'
    <3> SUFFICES ASSUME copy.synced = copy.desired, tampering = 0
                 PROVE  gw = copy.spec
      BY <2>1 DEF SyncedGenerationIsLive
    <3>1. Exists(row)
      BY <2>2, <2>4 DEF Follows, RowIsSound
    <3>2. copy.synced = row.synced /\ row.synced <= row.desired
      BY <2>2, <3>1 DEF Follows, PushInvariant, GenerationsWithinDesired
    <3>3. copy.desired = row.desired
      BY <2>3, <2>4, <3>1, <3>2, RowTyped
    <3> QED
      BY <2>2, <3>1, <3>2, <3>3 DEF Follows, LiveInvariant, SyncedGenerationIsLive
  <2> QED
    BY <2>6, <2>7, <2>8, <2>9 DEF LiveInvariant
<1>5. CASE RollbackRequest(r)
  <2>1. \A q \in Requests : req'[q] = Idle
    BY <1>0, <1>5 DEF RollbackRequest, TypeOK
  <2>2. RequestsFollow'
    BY <2>1 DEF RequestsFollow, Idle
  <2> QED
    BY <1>1, <1>5, <2>2 DEF RollbackRequest
<1>6. ASSUME NEW res \in InlineResults, InlineSync(r, res)
      PROVE  FALSE
  BY <1>6 DEF InlineSync, OneWriter
<1> QED
  BY <1>2, <1>3, <1>4, <1>5, <1>6 DEF RequestStep

(* A task that ends after a quiet write. *)
LEMMA QuietEnd ==
    ASSUME TypeOK, LiveInvariant, NEW t \in Tasks, task[t].pc # "idle",
           NEW w, Quiet(w, task[t].read), TaskFlush(t, w), Finish(t),
           UNCHANGED <<req, gw, tampering>>
    PROVE  LiveInvariant'
<1> DEFINE read == task[t].read
<1>1. read \in GatewayDeployment
  BY TaskRead
<1>2. RowQuiet
  BY <1>1, QuietFlush DEF TaskFlush, Quiet
<1>3. TasksTrack'
  BY <1>2, TrackingEnds DEF Finish, TypeOK
<1> QED
  BY <1>2, <1>3, QuietStep DEF TaskFlush

(* A task that goes on after its adapter answered, the row untouched: what *)
(* it did to the gateway is no matter unless the row is recorded as synced. *)
LEMMA GoesOnLive ==
    ASSUME TypeOK, LiveInvariant, OneWriter, NEW t \in Tasks, task[t].pc # "idle",
           NEW pc, GoTo(t, pc), UNCHANGED <<row, req, tampering>>,
           pc \notin {"sync"}, SyncedGenerationIsLive',
           pc = "delete" => task[t].read.status = "DELETING",
           pc = "accepted" => task[t].read.status = "SYNCING" /\ gw' = task[t].read.spec
    PROVE  LiveInvariant'
<1>1. task[t] \in TaskState /\ task[t] # Idle
  BY TaskRead DEF Idle
<1>2. task' = [task EXCEPT ![t] = [task[t] EXCEPT !.pc = pc]]
  BY DEF GoTo
<1>3. task'[t] = [task[t] EXCEPT !.pc = pc]
  BY <1>2 DEF TypeOK
<1>4. task'[t].read = task[t].read /\ task'[t].pc = pc
  BY <1>1, <1>3 DEF TaskState
<1>5. Tracks(row, task[t].read)
  BY <1>1 DEF LiveInvariant, TasksTrack
<1>6. \A u \in Tasks : u = t
  BY OneTask
<1>7. TasksTrack'
  BY <1>4, <1>5, <1>6 DEF TasksTrack, Progress
<1>8. RowIsSound(row)' /\ RequestsFollow'
  BY DEF LiveInvariant, RequestsFollow
<1> QED
  BY <1>7, <1>8 DEF LiveInvariant

(* The steps of the reconcile task keep the invariant. *)
LEMMA TaskLive ==
    ASSUME TypeOK, PushInvariant, LiveInvariant, OneWriter, NEW t \in Tasks, TaskStep(t)
    PROVE  LiveInvariant'
<1> DEFINE read == task[t].read
<1>0. task[t].pc # "idle" => read \in GatewayDeployment /\ task[t] # Idle
  BY TaskRead DEF Idle
<1>t. task[t].pc # "idle" => /\ Tracks(row, read) /\ Progress(task[t])
                            /\ read.desired <= row.desired
                            /\ read.desired \in Nat /\ read.synced \in Nat
  <2> SUFFICES ASSUME task[t].pc # "idle"
               PROVE  /\ Tracks(row, read) /\ Progress(task[t])
                      /\ read.desired <= row.desired
                      /\ read.desired \in Nat /\ read.synced \in Nat
    OBVIOUS
  <2>1. Tracks(row, read) /\ Progress(task[t])
    BY <1>0 DEF LiveInvariant, TasksTrack
  <2>2. read.desired <= row.desired
    BY <1>0, <2>1 DEF Tracks, PushInvariant, TasksAgree
  <2> QED
    BY <1>0, <2>1, <2>2 DEF GatewayDeployment
<1>s. SyncedGenerationIsLive /\ row.synced <= row.desired
  BY DEF LiveInvariant, PushInvariant, GenerationsWithinDesired
<1>1. CASE FailNoGateway(t)
  BY <1>0, <1>1, TaskWritesQuietly, QuietEnd DEF FailNoGateway
<1>2. CASE ConnectFails(t)
  <2>1. SyncedGenerationIsLive'
    BY <1>2, <1>s DEF ConnectFails, SyncedGenerationIsLive
  <2> QED
    BY <1>2, <2>1, GoesOnLive DEF ConnectFails
<1>3. CASE ConnectForDelete(t)
  <2>1. SyncedGenerationIsLive'
    BY <1>3, <1>s DEF ConnectForDelete, SyncedGenerationIsLive
  <2> QED
    BY <1>3, <2>1, GoesOnLive DEF ConnectForDelete
<1>4. CASE ConnectForNothing(t)
  <2>1. UNCHANGED <<row, req, gw, tampering>> /\ Finish(t)
    BY <1>4 DEF ConnectForNothing
  <2>2. TasksTrack'
    BY <2>1, SameRowQuiet, TrackingEnds DEF Finish, TypeOK
  <2> QED
    BY <2>1, <2>2, SameRowQuiet, QuietStep
<1>5. CASE MarkSyncing(t)
  <2> DEFINE w == [read EXCEPT !.status = "SYNCING", !.attemptAt = "now"]
  <2>1. /\ read \in GatewayDeployment /\ Quiet(w, read) /\ SameRow(row, read)
        /\ read.status \in {"PENDING", "DRIFTED", "ERROR"} /\ w.status = "SYNCING"
        /\ ~Locked
    BY <1>0, <1>5, <1>t, TaskWritesQuietly DEF MarkSyncing, Tracks, TaskFlush, GatewayDeployment
  <2>2. row' = IF SameRow(row, read) THEN Flush(row, read, w) ELSE row
    BY <1>5 DEF MarkSyncing, TaskFlush
  <2>3. task'[t] = [pc |-> "sync", read |-> row'] /\ UNCHANGED <<req, gw, tampering>>
    BY <1>5, <2>1 DEF MarkSyncing, TypeOK
  <2> HIDE DEF w
  <2>4. RowQuiet
    BY <2>1, <2>2, QuietFlush DEF Quiet
  <2>5. row'.status = "SYNCING"
    BY <2>1, <2>2, EngineFlush DEF Quiet, Changed
  <2>6. Tracks(row', row')
    BY <1>s, <2>1, <2>4, <2>5 DEF Tracks, RowQuiet, SameRow
  <2>7. TasksTrack'
    <3>1. \A u \in Tasks : u = t
      BY OneTask
    <3> QED
      BY <2>3, <2>5, <2>6, <3>1 DEF TasksTrack, Progress
  <2> QED
    BY <2>1, <2>3, <2>4, <2>7, QuietStep
<1>6. CASE CallSync(t)
  <2>1. UNCHANGED <<row, req, tampering>> /\ task[t].pc = "sync" /\ gw' \in {gw, read.spec}
    BY <1>6 DEF CallSync
  <2>2. read.status = "SYNCING" /\ Tracks(row, read) /\ read.desired <= row.desired
    BY <1>t, <2>1 DEF Progress
  (* A row that is already recorded as synced is pushed again as it is. *)
  <2>3. row.synced = row.desired => read.spec = row.spec
    BY <1>t, <2>1, <2>2, RowTyped DEF Tracks
  <2>4. SyncedGenerationIsLive'
    BY <1>s, <2>1, <2>3 DEF SyncedGenerationIsLive
  <2>5. CASE GoTo(t, "accepted") /\ gw' = read.spec
    BY <2>1, <2>2, <2>4, <2>5, GoesOnLive
  <2>6. CASE GoTo(t, "refused")
    BY <2>1, <2>4, <2>6, GoesOnLive
  <2>7. CASE GoTo(t, "raised")
    BY <2>1, <2>4, <2>7, GoesOnLive
  <2> QED
    BY <1>6, <2>5, <2>6, <2>7 DEF CallSync
<1>7. CASE RecordSynced(t)
  <2> DEFINE w == Synced(read)
  <2>1. /\ read \in GatewayDeployment /\ task[t].pc = "accepted" /\ ~Locked /\ Finish(t)
        /\ UNCHANGED <<req, gw, tampering>>
        /\ row' = IF SameRow(row, read) THEN Flush(row, read, w) ELSE row
    BY <1>0, <1>7 DEF RecordSynced, TaskFlush
  <2>2. /\ w \in SessionCopy /\ w.spec = read.spec /\ w.desired = read.desired
        /\ w.synced = read.desired /\ w.status = "SYNCED"
    BY <2>1, TaskCopies DEF Synced, GatewayDeployment
  <2>3. /\ Tracks(row, read) /\ SameRow(row, read) /\ read.status = "SYNCING"
        /\ tampering = 0 => gw = read.spec
    BY <1>t, <2>1 DEF Tracks, Progress
  <2> HIDE DEF w
  <2>4. /\ row'.id = row.id /\ row'.desired = row.desired /\ row'.spec = row.spec
        /\ Exists(row') <=> Exists(row)
        /\ row'.synced = Changed(row.synced, read.synced, w.synced)
        /\ row'.status = Changed(row.status, read.status, w.status)
    BY <2>1, <2>2, <2>3, EngineFlush DEF EngineStatus
  <2>5. row'.synced \in {row.synced, read.desired} /\ row'.status = "SYNCED"
    BY <2>2, <2>3, <2>4 DEF Changed
  <2>6. RowIsSound(row)'
    BY <2>4, <2>5 DEF LiveInvariant, RowIsSound
  <2>7. SyncedGenerationIsLive'
    BY <1>s, <2>1, <2>3, <2>4, <2>5 DEF SyncedGenerationIsLive, Tracks
  <2>8. RequestsFollow'
    <3>1. \A copy : SameRow(row', copy) <=> SameRow(row, copy)
      BY <2>4 DEF SameRow
    <3> QED
      BY <2>1, <2>4, <3>1 DEF LiveInvariant, RequestsFollow, Locked
  <2>9. TasksTrack'
    <3>1. \A u \in Tasks : u = t
      BY OneTask
    <3> QED
      BY <2>1, <3>1 DEF Finish, TasksTrack, TypeOK
  <2> QED
    BY <2>6, <2>7, <2>8, <2>9 DEF LiveInvariant
<1>8. CASE RecordRefused(t)
  BY <1>0, <1>8, TaskWritesQuietly, QuietEnd DEF RecordRefused
<1>9. CASE RecordRaised(t)
  BY <1>0, <1>9, TaskWritesQuietly, QuietEnd DEF RecordRaised
<1>10. CASE CallDelete(t)
  <2>1. UNCHANGED <<row, req, tampering>> /\ task[t].pc = "delete"
    BY <1>10 DEF CallDelete
  (* A tombstone is not recorded as synced. *)
  <2>2. row.synced # row.desired
    BY <1>t, <2>1, RowTyped DEF Tracks, Progress
  <2>3. SyncedGenerationIsLive'
    BY <2>1, <2>2 DEF SyncedGenerationIsLive
  <2>4. GoTo(t, "removed") \/ GoTo(t, "notremoved") \/ GoTo(t, "raised")
    BY <1>10 DEF CallDelete
  <2>5. ASSUME NEW pc \in {"removed", "notremoved", "raised"}, GoTo(t, pc)
        PROVE  LiveInvariant'
    BY <2>1, <2>3, <2>5, GoesOnLive
  <2> QED
    BY <2>4, <2>5
<1>11. CASE RecordRemoved(t)
  <2>1. ~Locked /\ Finish(t) /\ UNCHANGED <<req, gw, tampering>> /\ row' = Deleted(row)
    BY <1>11, <1>t DEF RecordRemoved, Tracks
  <2>2. row'.desired = 1 /\ row'.status = "GONE"
    BY <2>1, DeletedFacts, RowTyped
  <2>3. RowIsSound(row)' /\ SyncedGenerationIsLive'
    BY <2>2 DEF RowIsSound, SyncedGenerationIsLive, Exists
  <2>4. RequestsFollow'
    BY <2>1, <2>2 DEF RequestsFollow, Locked, SameRow, Exists
  <2>5. TasksTrack'
    <3>1. \A u \in Tasks : u = t
      BY OneTask
    <3> QED
      BY <2>1, <3>1 DEF Finish, TasksTrack, TypeOK
  <2> QED
    BY <2>3, <2>4, <2>5 DEF LiveInvariant
<1>12. CASE RecordNotRemoved(t)
  BY <1>0, <1>12, TaskWritesQuietly, QuietEnd DEF RecordNotRemoved
<1> QED
  BY <1>1, <1>2, <1>3, <1>4, <1>5, <1>6, <1>7, <1>8, <1>9, <1>10, <1>11, <1>12 DEF TaskStep

(* The steps of the periodic loop keep it: the loop claims no push. *)
LEMMA LoopLive ==
    ASSUME TypeOK, PushInvariant, LiveInvariant, OneWriter, LoopStep
    PROVE  LiveInvariant'
<1>1. ASSUME NEW read \in GatewayDeployment, NEW w, Quiet(w, read), ~Locked,
             row' = IF SameRow(row, read) THEN Flush(row, read, w) ELSE row,
             UNCHANGED <<req, task, gw, tampering>>
      PROVE  LiveInvariant'
  <2>1. RowQuiet
    BY <1>1, QuietFlush DEF Quiet
  <2>2. TasksTrack'
    BY <1>1, <2>1, TrackingEnds
  <2> QED
    BY <1>1, <2>1, <2>2, QuietStep
<1>2. CASE ListActionable \/ Gather \/ ListSynced \/ CompareWithGateway
  <2>1. UNCHANGED <<row, req, task, gw, tampering>>
    BY <1>2 DEF ListActionable, Gather, ListSynced, CompareWithGateway
  <2>2. TasksTrack'
    BY <2>1, SameRowQuiet, TrackingEnds
  <2> QED
    BY <2>1, <2>2, SameRowQuiet, QuietStep
<1>3. CASE ExpirePending
  <2>1. loop.read \in GatewayDeployment
    BY <1>3 DEF ExpirePending, LoopState, TypeOK
  <2> QED
    BY <1>1, <1>3, <2>1, TaskWritesQuietly DEF ExpirePending
<1>4. CASE RecordDrift
  <2>1. loop.read \in GatewayDeployment
    BY <1>4 DEF RecordDrift, LoopState, TypeOK
  <2> QED
    BY <1>1, <1>4, <2>1, TaskWritesQuietly DEF RecordDrift
<1>5. CASE Dispatch
  <2>1. UNCHANGED <<row, req, gw, tampering>>
    BY <1>5 DEF Dispatch
  <2>2. /\ task'[Periodic] = Started(loop.id)
        /\ \A u \in Tasks : u = Periodic
    BY <1>5, OneTask DEF Dispatch, TypeOK
  <2>3. Started(loop.id) # Idle =>
            /\ Exists(row) /\ Started(loop.id).read = row
            /\ Started(loop.id).pc \in {"nogateway", "connect"}
    BY DEF Started
  <2>4. Exists(row) => Tracks(row, row)
    BY DEF LiveInvariant, RowIsSound, PushInvariant, GenerationsWithinDesired, Tracks, SameRow
  <2>5. TasksTrack'
    BY <2>1, <2>2, <2>3, <2>4 DEF TasksTrack, Progress
  <2> QED
    BY <2>1, <2>5, SameRowQuiet, QuietStep
<1> QED
  BY <1>2, <1>3, <1>4, <1>5 DEF LoopStep

(* Every step keeps it. *)
LEMMA NextLive ==
    ASSUME OneWriter
    PROVE  TypeOK /\ PushInvariant /\ LiveInvariant /\ [Next]_vars => LiveInvariant'
<1> SUFFICES ASSUME TypeOK, PushInvariant, LiveInvariant, [Next]_vars
             PROVE  LiveInvariant'
  OBVIOUS
<1>1. ASSUME NEW r \in Requests, RequestStep(r)
      PROVE  LiveInvariant'
  BY <1>1, RequestLive
<1>2. ASSUME NEW t \in KafkaTasks, NEW i \in Ids, DeliverKafka(t, i)
      PROVE  FALSE
  BY <1>2 DEF OneWriter
<1>3. ASSUME NEW t \in Tasks, TaskStep(t)
      PROVE  LiveInvariant'
  BY <1>3, TaskLive
<1>4. CASE LoopStep
  BY <1>4, LoopLive
<1>5. CASE Elapse
  <2>1. ~Locked /\ UNCHANGED <<req, task, gw, tampering>> /\ row' = Aged(row)
    BY <1>5 DEF Elapse
  <2>2. RowQuiet
    <3>1. row'.spec = row.spec
      BY <2>1, RowTyped DEF Aged, GatewayDeployment
    <3> QED
      BY <2>1, <3>1, RowTyped, AgedFacts DEF RowQuiet, Exists
  <2>3. TasksTrack'
    BY <2>1, <2>2, TrackingEnds
  <2> QED
    BY <2>1, <2>2, <2>3, QuietStep
<1>6. CASE Crash
  <2>1. UNCHANGED <<row, req, gw, tampering>> /\ \A u \in Tasks : task'[u] = Idle
    BY <1>6 DEF Crash
  <2>2. TasksTrack'
    BY <2>1 DEF TasksTrack
  <2> QED
    BY <2>1, <2>2, SameRowQuiet, QuietStep
<1>7. ASSUME NEW s, SetGateway(s)
      PROVE  LiveInvariant'
  <2>1. UNCHANGED <<row, req, task, gw, tampering>>
    BY <1>7 DEF SetGateway
  <2>2. TasksTrack'
    BY <2>1, SameRowQuiet, TrackingEnds
  <2> QED
    BY <2>1, <2>2, SameRowQuiet, QuietStep
<1>8. ASSUME NEW s, Tamper(s)
      PROVE  LiveInvariant'
  <2>1. UNCHANGED <<row, req, task>> /\ tampering' # 0
    BY <1>8 DEF Tamper, TypeOK
  <2>2. TasksTrack' /\ SyncedGenerationIsLive'
    BY <2>1 DEF LiveInvariant, TasksTrack, Progress, SyncedGenerationIsLive
  <2>3. RowIsSound(row)' /\ RequestsFollow'
    BY <2>1 DEF LiveInvariant, RequestsFollow
  <2> QED
    BY <2>2, <2>3 DEF LiveInvariant
<1>9. CASE UNCHANGED vars
  <2>1. UNCHANGED <<row, req, task, gw, tampering>>
    BY <1>9 DEF vars
  <2>2. TasksTrack'
    BY <2>1, SameRowQuiet, TrackingEnds
  <2> QED
    BY <2>1, <2>2, SameRowQuiet, QuietStep
<1> QED
  BY <1>1, <1>2, <1>3, <1>4, <1>5, <1>6, <1>7, <1>8, <1>9 DEF Next

(* With one API request and one reconcile task at a time, in a mode that   *)
(* undeploys with tombstones, a row whose desired generation is recorded   *)
(* as synced has that desired state on the gateway, through restarts,      *)
(* outages and failing adapter calls, unless someone changed it there.     *)
THEOREM SyncedIsLive ==
    ASSUME SingleRequest, KafkaTasks = {}, ~is_inline_sync_enabled
    PROVE  Spec => []SyncedGenerationIsLive
<1>0. OneWriter
  BY DEF OneWriter
<1>1. Init => TypeOK /\ PushInvariant /\ LiveInvariant
  BY InitType, InitInvariant, InitLive
<1>2. TypeOK /\ PushInvariant /\ LiveInvariant /\ [Next]_vars
          => TypeOK' /\ PushInvariant' /\ LiveInvariant'
  BY <1>0, NextType, NextInvariant, NextLive
<1>3. LiveInvariant => SyncedGenerationIsLive
  BY DEF LiveInvariant
<1> QED
  BY <1>1, <1>2, <1>3, PTL DEF Spec
==============================================================================
