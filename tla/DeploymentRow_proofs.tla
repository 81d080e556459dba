------------------------ MODULE DeploymentRow_proofs -------------------------
(***************************************************************************)
(* What the operations on a row of gateway_deployments do to its key and   *)
(* its generations: the lemmas that AgentSync_proofs and PushSync_proofs   *)
(* build on.                                                               *)
(***************************************************************************)
EXTENDS DeploymentRow, TLAPS

(* What the operations leave in a session copy of a row: generations and   *)
(* the key are those that were read, but for desired, which may be the     *)
(* next one; and no operation invents the status GONE.                     *)
LEMMA WantedFacts ==
    ASSUME NEW op \in Operations, NEW r \in GatewayDeployment
    PROVE  /\ Wanted(op, r).status \in {r.status, "PENDING", "DELETING"}
           /\ Wanted(op, r).spec \in Specs
           /\ Wanted(op, r).desired \in {r.desired, r.desired + 1}
           /\ Wanted(op, r).synced = r.synced
           /\ Wanted(op, r).attempted = r.attempted
           /\ Wanted(op, r).attempts \in Nat
           /\ Wanted(op, r).resource = r.resource
           /\ Wanted(op, r).success = r.success
<1>1. CASE op.name \in Upserts
  <2>1. op.spec \in Specs
    BY <1>1 DEF Operations, Upserts
  <2>2. Wanted(op, r) = Upserted(r, op.spec, op.force)
    BY <1>1 DEF Wanted, Upserts
  <2> QED
    BY <2>1, <2>2 DEF Upserted, GatewayDeployment
<1>2. CASE op.name = "undeploy"
  BY <1>2 DEF Wanted, Undeployed, Upserts, GatewayDeployment
<1>3. CASE op.name = "force_sync"
  BY <1>3 DEF Wanted, ForceSynced, Upserts, GatewayDeployment
<1>4. CASE op.name = "governance_reset"
  BY <1>4 DEF Wanted, GovernanceReset, Upserts, GatewayDeployment
<1> QED
  BY <1>1, <1>2, <1>3, <1>4 DEF Operations, Upserts

(* A flush of wanted values keeps the key and the observed generations.    *)
LEMMA FlushFacts ==
    ASSUME NEW cur \in GatewayDeployment, NEW read \in GatewayDeployment,
           NEW op \in Operations
    PROVE  LET new == Flush(cur, read, Wanted(op, read))
           IN /\ new \in GatewayDeployment
              /\ new.id = cur.id
              /\ new.synced = cur.synced
              /\ new.attempted = cur.attempted
              /\ new.status \in {cur.status, "PENDING", "DELETING"}
              /\ new.desired \in {cur.desired, read.desired + 1}
<1> DEFINE w == Wanted(op, read)
<1>1. /\ w.status \in {read.status, "PENDING", "DELETING"}
      /\ w.spec \in Specs
      /\ w.desired \in {read.desired, read.desired + 1}
      /\ w.synced = read.synced
      /\ w.attempted = read.attempted
      /\ w.attempts \in Nat
      /\ w.resource = read.resource
      /\ w.success = read.success
  BY WantedFacts
<1> HIDE DEF w
<1>2. /\ Changed(cur.status, read.status, w.status) \in {cur.status, "PENDING", "DELETING"}
      /\ Changed(cur.spec, read.spec, w.spec) \in Specs
      /\ Changed(cur.desired, read.desired, w.desired) \in {cur.desired, read.desired + 1}
      /\ Changed(cur.synced, read.synced, w.synced) = cur.synced
      /\ Changed(cur.attempted, read.attempted, w.attempted) = cur.attempted
      /\ Changed(cur.attempts, read.attempts, w.attempts) \in Nat
      /\ Changed(cur.resource, read.resource, w.resource) = cur.resource
      /\ Changed(cur.success, read.success, w.success) = cur.success
      /\ Stamped(cur.desiredAt, w.desiredAt) \in {"recent", "old"}
      /\ Stamped(cur.attemptAt, w.attemptAt) \in {"never", "recent", "old"}
  BY <1>1 DEF Changed, Stamped, GatewayDeployment
<1>3. Flush(cur, read, w) \in GatewayDeployment
  <2>1. /\ Changed(cur.status, read.status, w.status) \in DeploymentSyncStatus \cup {"GONE"}
        /\ Changed(cur.desired, read.desired, w.desired) \in Nat
        /\ cur.synced \in Nat /\ cur.attempted \in Nat
        /\ cur.resource \in BOOLEAN /\ cur.success \in BOOLEAN
    BY <1>2 DEF GatewayDeployment, DeploymentSyncStatus
  <2> QED
    BY <1>2, <2>1 DEF Flush, GatewayDeployment
<1>4. /\ Flush(cur, read, w).id = cur.id
      /\ Flush(cur, read, w).synced = cur.synced
      /\ Flush(cur, read, w).attempted = cur.attempted
      /\ Flush(cur, read, w).status \in {cur.status, "PENDING", "DELETING"}
      /\ Flush(cur, read, w).desired \in {cur.desired, read.desired + 1}
  BY <1>2 DEF Flush, GatewayDeployment
<1> QED
  BY <1>3, <1>4 DEF w

(* A row as the ORM inserts it: generation 1 desired, nothing attempted. *)
LEMMA CreatedFacts ==
    ASSUME NEW i \in Nat, NEW s \in Specs
    PROVE  /\ Created(i, s) \in GatewayDeployment
           /\ Created(i, s).id = i
           /\ Created(i, s).desired = 1
           /\ Created(i, s).synced = 0
           /\ Created(i, s).attempted = 0
           /\ Created(i, s).status = "PENDING"
BY DEF Created, GatewayDeployment, DeploymentSyncStatus

(* A deleted row keeps its id, so that the next insert takes a new one. *)
LEMMA DeletedFacts ==
    ASSUME NEW r \in GatewayDeployment
    PROVE  /\ Deleted(r) \in GatewayDeployment
           /\ Deleted(r).id = r.id
           /\ Deleted(r).desired = 1
           /\ Deleted(r).synced = 0
           /\ Deleted(r).attempted = 0
           /\ Deleted(r).status = "GONE"
<1>1. r.id \in Nat /\ r.spec \in Specs
  BY DEF GatewayDeployment
<1> QED
  BY <1>1, CreatedFacts DEF Deleted, GatewayDeployment, Exists

(* The pending timeout and the passing of time change no generation.       *)
LEMMA TimeoutFacts ==
    ASSUME NEW cur \in GatewayDeployment, NEW read \in GatewayDeployment
    PROVE  LET new == Flush(cur, read, TimedOut(read))
           IN /\ new \in GatewayDeployment
              /\ new.id = cur.id
              /\ new.desired = cur.desired
              /\ new.synced = cur.synced
              /\ new.attempted = cur.attempted
              /\ new.status \in {cur.status, "ERROR"}
<1> DEFINE w == TimedOut(read)
<1>1. /\ w.status = "ERROR"
      /\ w.spec = read.spec /\ w.desired = read.desired /\ w.synced = read.synced
      /\ w.attempted = read.attempted /\ w.attempts \in Nat
      /\ w.resource = read.resource /\ w.success = read.success
      /\ w.desiredAt = read.desiredAt /\ w.attemptAt = read.attemptAt
  BY RetryMaxAssumption DEF TimedOut, GatewayDeployment
<1> HIDE DEF w
<1>2. /\ Changed(cur.status, read.status, w.status) \in {cur.status, "ERROR"}
      /\ Changed(cur.spec, read.spec, w.spec) = cur.spec
      /\ Changed(cur.desired, read.desired, w.desired) = cur.desired
      /\ Changed(cur.synced, read.synced, w.synced) = cur.synced
      /\ Changed(cur.attempted, read.attempted, w.attempted) = cur.attempted
      /\ Changed(cur.attempts, read.attempts, w.attempts) \in Nat
      /\ Changed(cur.resource, read.resource, w.resource) = cur.resource
      /\ Changed(cur.success, read.success, w.success) = cur.success
      /\ Stamped(cur.desiredAt, w.desiredAt) \in {"recent", "old"}
      /\ Stamped(cur.attemptAt, w.attemptAt) \in {"never", "recent", "old"}
  BY <1>1 DEF Changed, Stamped, GatewayDeployment
<1>3. Changed(cur.status, read.status, w.status) \in DeploymentSyncStatus \cup {"GONE"}
  BY <1>2 DEF GatewayDeployment, DeploymentSyncStatus
<1>4. Flush(cur, read, w) \in GatewayDeployment
  BY <1>2, <1>3 DEF Flush, GatewayDeployment
<1>5. /\ Flush(cur, read, w).id = cur.id
      /\ Flush(cur, read, w).desired = cur.desired
      /\ Flush(cur, read, w).synced = cur.synced
      /\ Flush(cur, read, w).attempted = cur.attempted
      /\ Flush(cur, read, w).status \in {cur.status, "ERROR"}
  BY <1>2 DEF Flush, GatewayDeployment
<1> QED
  BY <1>4, <1>5 DEF w

(* The passing of time (the pending timeout) touches no generation. *)
LEMMA AgedFacts ==
    ASSUME NEW r \in GatewayDeployment
    PROVE  /\ Aged(r) \in GatewayDeployment
           /\ Aged(r).id = r.id
           /\ Aged(r).desired = r.desired
           /\ Aged(r).synced = r.synced
           /\ Aged(r).attempted = r.attempted
           /\ Aged(r).status = r.status
BY DEF Aged, GatewayDeployment

(* What a commit makes of the row: a new row, its deletion, or an update.  *)
LEMMA WrittenFacts ==
    ASSUME NEW op \in Operations, NEW read \in GatewayDeployment,
           NEW cur \in GatewayDeployment, CanWrite(op, read, cur)
    PROVE  LET new == Written(op, read, cur)
           IN /\ new \in GatewayDeployment
              /\ \/ /\ ~Exists(cur) /\ Exists(new)
                    /\ new.id = cur.id + 1
                    /\ new.desired = 1 /\ new.synced = 0 /\ new.attempted = 0
                 \/ /\ SameRow(cur, read) /\ ~Exists(new)
                    /\ new.id = cur.id
                    /\ new.desired = 1 /\ new.synced = 0 /\ new.attempted = 0
                 \/ /\ SameRow(cur, read) /\ Exists(new)
                    /\ new.id = cur.id
                    /\ new.desired \in {cur.desired, read.desired + 1}
                    /\ new.synced = cur.synced /\ new.attempted = cur.attempted
<1>1. CASE Inserts(op, read)
  <2>1. op.spec \in Specs
    BY <1>1 DEF Inserts, Operations, Upserts
  <2>2. cur.id + 1 \in Nat
    BY DEF GatewayDeployment
  <2>3. Written(op, read, cur) = Created(cur.id + 1, op.spec) /\ ~Exists(cur)
    BY <1>1 DEF Written, CanWrite
  <2>4. /\ Created(cur.id + 1, op.spec) \in GatewayDeployment
        /\ Created(cur.id + 1, op.spec).id = cur.id + 1
        /\ Created(cur.id + 1, op.spec).desired = 1
        /\ Created(cur.id + 1, op.spec).synced = 0
        /\ Created(cur.id + 1, op.spec).attempted = 0
        /\ Exists(Created(cur.id + 1, op.spec))
    BY <2>1, <2>2, CreatedFacts DEF Exists
  <2> QED
    BY <2>3, <2>4
<1>2. CASE ~Inserts(op, read) /\ DeletesRow(op, read)
  <2>1. Written(op, read, cur) = Deleted(cur) /\ SameRow(cur, read)
    BY <1>2 DEF Written, CanWrite
  <2> QED
    BY <2>1, DeletedFacts DEF Exists
<1>3. CASE ~Inserts(op, read) /\ ~DeletesRow(op, read)
  <2>1. Written(op, read, cur) = Flush(cur, read, Wanted(op, read)) /\ SameRow(cur, read)
    BY <1>3 DEF Written, CanWrite
  <2> DEFINE new == Flush(cur, read, Wanted(op, read))
  <2>2. /\ new \in GatewayDeployment
        /\ new.id = cur.id
        /\ new.synced = cur.synced
        /\ new.attempted = cur.attempted
        /\ new.status \in {cur.status, "PENDING", "DELETING"}
        /\ new.desired \in {cur.desired, read.desired + 1}
    BY FlushFacts
  <2> HIDE DEF new
  <2>3. Exists(new)
    BY <2>1, <2>2 DEF Exists, SameRow
  <2> QED
    BY <2>1, <2>2, <2>3 DEF new
<1> QED
  BY <1>1, <1>2, <1>3

(* A deploy_api request leaves a row behind, new or updated. *)
LEMMA DeployLeavesRow ==
    ASSUME NEW op \in Operations, NEW read \in GatewayDeployment,
           NEW cur \in GatewayDeployment, CanWrite(op, read, cur), op.name = "deploy_api"
    PROVE  Exists(Written(op, read, cur))
<1>1. CASE Inserts(op, read)
  <2>1. op.spec \in Specs
    BY <1>1 DEF Inserts, Operations, Upserts
  <2>3. cur.id + 1 \in Nat
    BY DEF GatewayDeployment
  <2>2. Written(op, read, cur) = Created(cur.id + 1, op.spec)
    BY <1>1 DEF Written
  <2> QED
    BY <2>1, <2>2, <2>3, CreatedFacts DEF Exists
<1>2. CASE ~Inserts(op, read)
  <2>1. Written(op, read, cur) = Flush(cur, read, Wanted(op, read)) /\ SameRow(cur, read)
    BY <1>2 DEF Written, CanWrite, DeletesRow
  <2>2. Flush(cur, read, Wanted(op, read)).status \in {cur.status, "PENDING", "DELETING"}
    BY FlushFacts
  <2> QED
    BY <2>1, <2>2 DEF Exists, SameRow
<1> QED
  BY <1>1, <1>2

(* An UPDATE that leaves desired_generation alone makes no tombstone, and  *)
(* with tombstones in use no request deletes the row.                      *)
LEMMA WrittenStatus ==
    ASSUME NEW op \in Operations, NEW read \in GatewayDeployment,
           NEW cur \in GatewayDeployment, CanWrite(op, read, cur),
           SameRow(cur, read) => read.desired = cur.desired, is_sse_enabled
    PROVE  LET new == Written(op, read, cur)
           IN /\ Exists(new)
              /\ new.status = "DELETING" => new.id = cur.id /\ SameRow(cur, read)
              /\ new.status = "DELETING" /\ new.desired = cur.desired => cur.status = "DELETING"
<1>1. CASE Inserts(op, read)
  <2>1. op.spec \in Specs
    BY <1>1 DEF Inserts, Operations, Upserts
  <2>0. cur.id + 1 \in Nat
    BY DEF GatewayDeployment
  <2>2. Written(op, read, cur) = Created(cur.id + 1, op.spec)
    BY <1>1 DEF Written
  <2>3. Written(op, read, cur).status = "PENDING"
    BY <2>0, <2>1, <2>2, CreatedFacts
  <2> QED
    BY <2>3 DEF Exists
<1>2. CASE ~Inserts(op, read)
  <2>1. ~DeletesRow(op, read)
    BY DEF DeletesRow, NeedsTombstone
  <2>2. Written(op, read, cur) = Flush(cur, read, Wanted(op, read)) /\ SameRow(cur, read)
    BY <1>2, <2>1 DEF Written, CanWrite
  <2> DEFINE w == Wanted(op, read)
             new == Flush(cur, read, w)
  <2>3. /\ new.id = cur.id
        /\ new.status \in {cur.status, "PENDING", "DELETING"}
    BY FlushFacts
  <2>4. /\ new.status = Changed(cur.status, read.status, w.status)
        /\ new.desired = Changed(cur.desired, read.desired, w.desired)
    BY DEF Flush, GatewayDeployment
  <2>5. w.status = "DELETING" => w = read \/ w.desired = read.desired + 1 \/ read.status = "DELETING"
    <3>1. CASE op.name \in Upserts
      BY <3>1 DEF Wanted, Upserts, Upserted, GatewayDeployment
    <3>2. CASE op.name = "undeploy"
      BY <3>2 DEF Wanted, Upserts, Undeployed, GatewayDeployment
    <3>3. CASE op.name = "force_sync"
      BY <3>3 DEF Wanted, Upserts, ForceSynced, GatewayDeployment
    <3>4. CASE op.name = "governance_reset"
      BY <3>4 DEF Wanted, Upserts, GovernanceReset, GatewayDeployment
    <3> QED
      BY <3>1, <3>2, <3>3, <3>4 DEF Operations, Upserts
  <2> HIDE DEF w, new
  <2>6. read.desired = cur.desired /\ read.desired \in Nat
    BY <2>2 DEF GatewayDeployment
  <2>7. ASSUME new.status = "DELETING", new.desired = cur.desired
        PROVE  cur.status = "DELETING"
    <3>1. CASE w.status = read.status
      BY <2>4, <2>7, <3>1 DEF Changed
    <3>2. CASE w.status # read.status
      <4>1. w.status = "DELETING"
        BY <2>4, <2>7, <3>2 DEF Changed
      <4>2. w.desired = read.desired + 1
        BY <2>5, <3>2, <4>1
      <4> QED
        BY <2>4, <2>6, <2>7, <4>2 DEF Changed
    <3> QED
      BY <3>1, <3>2
  <2>8. Exists(new)
    BY <2>2, <2>3 DEF Exists, SameRow
  <2> QED
    BY <2>2, <2>3, <2>7, <2>8 DEF new, w
<1> QED
  BY <1>1, <1>2

(* ... nor does it change the desired state: whoever writes a new spec     *)
(* writes the next generation with it.                                     *)
LEMMA WrittenSpec ==
    ASSUME NEW op \in Operations, NEW read \in GatewayDeployment,
           NEW cur \in GatewayDeployment, CanWrite(op, read, cur), is_sse_enabled,
           SameRow(cur, read), read.desired = cur.desired, read.spec = cur.spec,
           Written(op, read, cur).desired = cur.desired
    PROVE  Written(op, read, cur).spec = cur.spec
<1>1. ~Inserts(op, read) /\ ~DeletesRow(op, read)
  BY DEF CanWrite, SameRow, DeletesRow, NeedsTombstone
<1> DEFINE w == Wanted(op, read)
<1>2. Written(op, read, cur) = Flush(cur, read, w)
  BY <1>1 DEF Written
<1>3. /\ Flush(cur, read, w).spec = Changed(cur.spec, read.spec, w.spec)
      /\ Flush(cur, read, w).desired = Changed(cur.desired, read.desired, w.desired)
  BY DEF Flush, GatewayDeployment
<1>4. w.spec = read.spec \/ w.desired = read.desired + 1
  <2>1. CASE op.name \in Upserts
    BY <2>1 DEF Wanted, Upserts, Upserted, GatewayDeployment
  <2>2. CASE op.name = "undeploy"
    BY <2>2 DEF Wanted, Upserts, Undeployed, GatewayDeployment
  <2>3. CASE op.name = "force_sync"
    BY <2>3 DEF Wanted, Upserts, ForceSynced, GatewayDeployment
  <2>4. CASE op.name = "governance_reset"
    BY <2>4 DEF Wanted, Upserts, GovernanceReset, GatewayDeployment
  <2> QED
    BY <2>1, <2>2, <2>3, <2>4 DEF Operations, Upserts
<1>5. read.desired \in Nat
  BY DEF GatewayDeployment
<1> HIDE DEF w
<1> QED
  BY <1>2, <1>3, <1>4, <1>5 DEF Changed

(* A session copy of a row: a timestamp may also be "now". *)
SessionCopy ==
    [id : Nat, status : DeploymentSyncStatus \cup {"GONE"}, spec : Specs,
     desired : Nat, synced : Nat, attempted : Nat, attempts : Nat,
     resource : BOOLEAN, success : BOOLEAN,
     desiredAt : {"recent", "old", "now"}, attemptAt : {"never", "recent", "old", "now"}]

(* A row just read is a session copy. *)
LEMMA ReadIsSessionCopy == GatewayDeployment \subseteq SessionCopy
BY DEF GatewayDeployment, SessionCopy

(* A flush of any session copy keeps the key, and each generation is the   *)
(* one that was there or the one the session wrote.                        *)
LEMMA SessionFlushFacts ==
    ASSUME NEW cur \in GatewayDeployment, NEW read \in GatewayDeployment, NEW new \in SessionCopy
    PROVE  /\ Flush(cur, read, new) \in GatewayDeployment
           /\ Flush(cur, read, new).id = cur.id
           /\ Flush(cur, read, new).desired = Changed(cur.desired, read.desired, new.desired)
           /\ Flush(cur, read, new).synced = Changed(cur.synced, read.synced, new.synced)
           /\ Flush(cur, read, new).attempted = Changed(cur.attempted, read.attempted, new.attempted)
<1>1. /\ Changed(cur.status, read.status, new.status) \in DeploymentSyncStatus \cup {"GONE"}
      /\ Changed(cur.spec, read.spec, new.spec) \in Specs
      /\ Changed(cur.desired, read.desired, new.desired) \in Nat
      /\ Changed(cur.synced, read.synced, new.synced) \in Nat
      /\ Changed(cur.attempted, read.attempted, new.attempted) \in Nat
      /\ Changed(cur.attempts, read.attempts, new.attempts) \in Nat
      /\ Changed(cur.resource, read.resource, new.resource) \in BOOLEAN
      /\ Changed(cur.success, read.success, new.success) \in BOOLEAN
      /\ Stamped(cur.desiredAt, new.desiredAt) \in {"recent", "old"}
      /\ Stamped(cur.attemptAt, new.attemptAt) \in {"never", "recent", "old"}
  BY DEF Changed, Stamped, GatewayDeployment, SessionCopy
<1>2. Flush(cur, read, new) \in GatewayDeployment
  BY <1>1 DEF Flush, GatewayDeployment
<1> QED
  BY <1>1, <1>2 DEF Flush, GatewayDeployment
==============================================================================
