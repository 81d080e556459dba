------------------------ MODULE Subscriptions_proofs ------------------------
(***************************************************************************)
(* Proofs about Subscriptions for every value of its constants: any number *)
(* of subscriptions, requests and tasks at once, outages, failed commits   *)
(* and restarts.                                                           *)
(***************************************************************************)
EXTENDS Subscriptions, TLAPS

------------------------------------------------------------------------------
(* The inductive invariant.                                                *)

(* What the program counter says about a request or task: which row it is  *)
(* for, which endpoint it came from, what that one's checks established,   *)
(* that an attempt is left, and whose session it has.                      *)
SlotFacts(q) ==
    /\ q.pc # "idle" => q.sub \in Subs
    /\ q.pc = "write" => q.op \in DOMAIN Becomes \cup {"create", "extend"}
    /\ q.pc = "write" /\ q.op = "extend" =>
            /\ q.seen.expires # 0
            /\ q.seen.count + 1 <= MAX_TTL_EXTENSIONS
            /\ q.seen.total + q.arg <= MAX_TTL_TOTAL_DAYS
    /\ q.pc \in Task => q.op \in {"approve", "revoke"}
    /\ q.pc \in {"call", "record", "virtual", "policy"} => q.op = "approve"
    /\ q.pc \in {"delete", "gone"} => q.op = "revoke"
    /\ q.pc \in {"write", "start", "mark", "resolve", "call", "record", "delete", "gone"} =>
            q.tries < MAX_RETRIES
    /\ q.session # "own" => q.pc \in Task \ {"start", "mark"}

SlotsSound == \A i \in Slots : SlotFacts(req[i])

(* The application a task is about to record was made for its subscription. *)
HeldKnown ==
    \A i \in Slots : req[i].pc = "record" =>
        req[i].app \in DOMAIN owner /\ owner[req[i].app] = req[i].sub

Sound == TypeOK /\ SlotsSound /\ HeldKnown

(* The expiry e of a row with t extended days was granted.                 *)
Granted(s, e, t) == \E g \in granted[s] : e <= g + t

(* An extension under way has read an expiry that was granted.             *)
ExtensionsRead ==
    \A i \in Slots : req[i].pc = "write" /\ req[i].op = "extend" =>
                         Granted(req[i].sub, req[i].seen.expires, req[i].seen.total)

(* ExtensionsCounted speaks of rows, and a row is written from the copy an *)
(* overlapping request holds.                                              *)
TtlInvariant == ExtensionsCounted /\ ExtensionsRead

(* A row that is still to be inserted is nobody else's business, and every *)
(* other request or task has an inserted row.                              *)
RowsInserted ==
    /\ \A s \in Subs : row[s].status = "absent" => row[s] = Absent /\ s \notin approved
    /\ \A i \in Slots : req[i].pc # "idle" =>
            IF req[i].op = "create"
            THEN /\ row[req[i].sub] = Absent
                 /\ \A j \in Slots \ {i} : req[j].pc # "idle" => req[j].sub # req[i].sub
            ELSE row[req[i].sub].status # "absent"

OnTask(i, s) == req[i].pc \in Task /\ req[i].sub = s

(* Applications come from approvals: a subscription with a task, with an   *)
(* application or with one on record has been approved.                    *)
AppsApproved ==
    /\ \A i \in Slots : req[i].pc \in Task => req[i].sub \in approved
    /\ \A s \in Subs : row[s].app # 0 => s \in approved /\ row[s].app \in DOMAIN owner
    /\ \A a \in DOMAIN owner : owner[a] \in approved

(* An application whose id the task cannot store is given up at once.      *)
HeldLost == \A i \in Slots : req[i].pc = "record" /\ ~Writes(i) => req[i].app \in lost

(* Without a race a subscription has one task at a time.                   *)
OneTask ==
    \A i, j \in Slots, s \in Subs \ raced : OnTask(i, s) /\ OnTask(j, s) => i = j

(* Then the task of the only approval finds no application, as long as its *)
(* commits reach the row, ...                                              *)
FirstProvision ==
    \A i \in Slots, s \in Subs \ raced :
        OnTask(i, s) /\ Writes(i) /\ req[i].op = "approve" /\ req[i].pc # "policy" =>
            \A a \in apps \ lost : owner[a] = s => Holds(i, a)

(* ... and that of a revocation removes the one on record.                 *)
Deprovision ==
    \A i \in Slots, s \in Subs \ raced :
        OnTask(i, s) /\ Writes(i) /\ req[i].op = "revoke" =>
            /\ req[i].pc # "start" => req[i].seen.app = row[s].app
            /\ req[i].pc = "gone" => req[i].seen.app \notin apps

(* A deprovisioned subscription gets no further task that can write.       *)
DeprovisionedAtRest ==
    \A s \in Subs \ raced :
        row[s].prov = "DEPROVISIONED" =>
            s \in approved /\ row[s].app = 0 /\ \A i \in Slots : OnTask(i, s) => ~Writes(i)

AppInvariant ==
    /\ RowsInserted /\ AppsApproved /\ HeldLost
    /\ OneTask /\ FirstProvision /\ Deprovision /\ DeprovisionedAtRest
    /\ AppsOnRecord /\ DeprovisionedIsGone
------------------------------------------------------------------------------
USE SubscriptionValues, SubscriptionBounds

(* The missing subscription has the type of a row.                         *)
LEMMA AbsentIsRow == Absent \in Rows
BY DEF Absent, Rows, MAX_TTL_EXTENSIONS, MAX_TTL_TOTAL_DAYS

(* The free slot has the type of a request.                                *)
LEMMA IdleIsRequest == Idle \in Requests
BY AbsentIsRow DEF Idle, Requests, MAX_RETRIES

(* Each decision leads to a subscription status.                           *)
LEMMA BecomesStatus == \A o \in DOMAIN Becomes : Becomes[o] \in Statuses
BY DEF Becomes, Statuses

(* The decisions are the six endpoints that set a status.                  *)
LEMMA OpsOfBecomes == DOMAIN Becomes = {"approve", "reject", "cancel", "revoke", "suspend", "reactivate"}
BY DEF Becomes

(* update_status, set_expiration and the extension keep a row a row.       *)
LEMMA WrittenType ==
    ASSUME NEW q \in Requests, NEW r \in Rows, SlotFacts(q), q.pc = "write", q.op # "create"
    PROVE  Written(q, r) \in Rows
<1>1. CASE q.op = "extend"
  <2>1. q.seen \in Rows /\ q.arg \in Nat
    BY DEF Requests
  <2>2. /\ q.seen.expires + q.arg \in Nat
        /\ q.seen.count + 1 \in 0..MAX_TTL_EXTENSIONS
        /\ q.seen.total + q.arg \in 0..MAX_TTL_TOTAL_DAYS
    BY <1>1, <2>1 DEF Rows, SlotFacts, MAX_TTL_EXTENSIONS, MAX_TTL_TOTAL_DAYS
  <2>3. Written(q, r) = [r EXCEPT !.expires = q.seen.expires + q.arg, !.count = q.seen.count + 1,
                                  !.total = q.seen.total + q.arg]
    BY <1>1 DEF Written
  <2> QED BY <2>2, <2>3 DEF Rows
<1>2. CASE q.op = "approve"
  BY <1>2 DEF Written, Rows, Requests, Statuses
<1>3. CASE q.op \notin {"extend", "approve"}
  <2>1. q.op \in DOMAIN Becomes
    BY <1>3 DEF SlotFacts
  <2>2. Becomes[q.op] \in Statuses
    BY <2>1, BecomesStatus
  <2>3. Written(q, r) = [r EXCEPT !.status = Becomes[q.op]]
    BY <1>3 DEF Written
  <2> QED BY <2>2, <2>3 DEF Rows
<1> QED BY <1>1, <1>2, <1>3

------------------------------------------------------------------------------
(* Type correctness.                                                       *)

(* A step of slot i that leaves a sound request or task in it.             *)
LEMMA SlotReplaced ==
    ASSUME TypeOK, SlotsSound, NEW i \in Slots, NEW q \in Requests, SlotFacts(q),
           req' = [req EXCEPT ![i] = q]
    PROVE  req' \in [Slots -> Requests] /\ SlotsSound'
BY DEF TypeOK, SlotsSound

(* A slot in use holds a request about a subscription with a row.          *)
LEMMA SlotType ==
    ASSUME TypeOK, SlotsSound, NEW i \in Slots
    PROVE  /\ req[i] \in Requests /\ SlotFacts(req[i])
           /\ req[i].pc # "idle" => row[req[i].sub] \in Rows /\ req[i].sub \in Subs
BY DEF TypeOK, SlotsSound, SlotFacts

(* A free slot has nothing to keep.                                        *)
LEMMA IdleSound == SlotFacts(Idle)
BY DEF SlotFacts, Idle, Task

(* Ending a request or task keeps the slots sound.                         *)
LEMMA EndSound ==
    ASSUME TypeOK, SlotsSound, NEW i \in Slots, End(i)
    PROVE  req' \in [Slots -> Requests] /\ SlotsSound'
BY SlotReplaced, IdleIsRequest, IdleSound DEF End

(* The moves of a task keep its slot sound.                                *)
LEMMA GotoSound ==
    ASSUME TypeOK, SlotsSound, NEW i \in Slots, NEW c, Goto(i, c),
           \/ req[i].pc = "mark" /\ c = "resolve"
           \/ req[i].pc = "resolve" /\ req[i].op = "approve" /\ c \in {"call", "virtual", "fail"}
           \/ req[i].pc = "resolve" /\ req[i].op = "revoke" /\ c \in {"delete", "fail"}
           \/ req[i].pc = "record" /\ c = "policy"
           \/ req[i].pc = "delete" /\ c = "gone"
    PROVE  req' \in [Slots -> Requests] /\ SlotsSound'
<1> DEFINE q == [req[i] EXCEPT !.pc = c]
<1>1. req[i] \in Requests /\ SlotFacts(req[i])
  BY SlotType
<1>2. q \in Requests
  BY <1>1 DEF Requests, Task
<1>3. SlotFacts(q)
  BY <1>1 DEF SlotFacts, Requests, Task
<1>4. req' = [req EXCEPT ![i] = q]
  BY DEF Goto
<1> HIDE DEF q
<1> QED BY <1>2, <1>3, <1>4, SlotReplaced

(* Another attempt of a task keeps its slot sound, also on a broken        *)
(* session and with another copy of the row.                               *)
LEMMA RetrySound ==
    ASSUME TypeOK, SlotsSound, NEW i \in Slots, NEW q \in Requests, NEW c, Retry(i, q, c),
           q.op = req[i].op, q.sub = req[i].sub, q.tries = req[i].tries,
           \/ req[i].pc \in {"call", "record"} /\ c = "call"
           \/ req[i].pc \in {"delete", "gone"} /\ c = "delete"
    PROVE  req' \in [Slots -> Requests] /\ SlotsSound'
<1> DEFINE r == [q EXCEPT !.tries = q.tries + 1,
                          !.pc = IF q.tries + 1 < MAX_RETRIES THEN c ELSE "fail"]
<1>1. req[i] \in Requests /\ SlotFacts(req[i])
  BY SlotType
<1>2. q.tries + 1 \in 0..MAX_RETRIES
  BY <1>1 DEF SlotFacts, Requests, MAX_RETRIES
<1>3. r \in Requests
  BY <1>2 DEF Requests, Task
<1>4. SlotFacts(r)
  BY <1>1, <1>2 DEF SlotFacts, Requests, Task, MAX_RETRIES
<1>5. req' = [req EXCEPT ![i] = r]
  BY DEF Retry
<1> HIDE DEF r
<1> QED BY <1>3, <1>4, <1>5, SlotReplaced

(* A task on its request's session has the type of a request.              *)
LEMMA SharedType ==
    ASSUME NEW q \in Requests, NEW c \in Rows
    PROVE  [q EXCEPT !.pc = "resolve", !.session = "shared", !.spare = FALSE,
                     !.tries = 0, !.seen = c] \in Requests
<1>1. "resolve" \in Task /\ 0 \in 0..MAX_RETRIES
  BY DEF Task, MAX_RETRIES
<1> QED BY <1>1 DEF Requests

(* The second run of a task on its request's session has a sound slot.     *)
LEMMA FallbackSound ==
    ASSUME TypeOK, SlotsSound, NEW i \in Slots, req[i].pc \in Task, Fallback(i)
    PROVE  req' \in [Slots -> Requests] /\ SlotsSound'
<1> DEFINE copy == [Absent EXCEPT !.app = req[i].app]
           q == [req[i] EXCEPT !.pc = "resolve", !.session = "shared", !.spare = FALSE,
                               !.tries = 0, !.seen = copy]
<1>1. req[i] \in Requests /\ SlotFacts(req[i])
  BY SlotType
<1>2. copy \in Rows
  BY <1>1, AbsentIsRow DEF Requests, Rows
<1>3. q \in Requests /\ SlotFacts(q)
  <2> HIDE DEF copy
  <2>1. q \in Requests
    BY <1>1, <1>2, SharedType
  <2>2. SlotFacts(q)
    BY <1>1 DEF Requests, SlotFacts, Task, MAX_RETRIES
  <2> QED BY <2>1, <2>2
<1>4. CASE req[i].spare
  <2>1. req' = [req EXCEPT ![i] = q]
    BY <1>4 DEF Fallback
  <2> HIDE DEF q
  <2> QED BY <1>3, <2>1, SlotReplaced
<1>5. CASE ~req[i].spare
  BY <1>5, EndSound DEF Fallback
<1> QED BY <1>4, <1>5

(* Replacing one subscription keeps the type of the table.                 *)
LEMMA RowReplaced ==
    ASSUME TypeOK, NEW s \in Subs, NEW r \in Rows, row' = [row EXCEPT ![s] = r]
    PROVE  row' \in [Subs -> Rows]
BY DEF TypeOK

Provs == {"NONE", "PROVISIONING", "READY", "FAILED", "DEPROVISIONING", "DEPROVISIONING_FAILED", "DEPROVISIONED"}

(* Record writes the two provisioning columns.                             *)
LEMMA RecordType ==
    ASSUME TypeOK, SlotsSound, NEW i \in Slots, req[i].pc # "idle",
           NEW p \in Provs, NEW a \in Nat, Record(i, p, a)
    PROVE  row' \in [Subs -> Rows]
<1>1. [row[req[i].sub] EXCEPT !.prov = p, !.app = a] \in Rows
  BY SlotType DEF Rows, Provs
<1>2. row' = [row EXCEPT ![req[i].sub] = [row[req[i].sub] EXCEPT !.prov = p, !.app = a]]
  BY DEF Record
<1> QED BY <1>1, <1>2, SlotType, RowReplaced

(* A fault keeps its counter within the bound.                             *)
LEMMA FaultType == TypeOK /\ Fault => faults' \in 0..MaxFaults
BY DEF TypeOK, Fault

(* What a task's commit does to the row, whether it raises or not.         *)
LEMMA CommitEffect ==
    ASSUME NEW i, NEW p, NEW a, Saves(i, p, a) \/ Raises(i, p, a)
    PROVE  row' = row \/ (Writes(i) /\ Record(i, p, a))
BY DEF Saves, Raises, Fails, SavesUnheard

(* A task's commit keeps the types.                                        *)
LEMMA SaveType ==
    ASSUME TypeOK, SlotsSound, NEW i \in Slots, req[i].pc # "idle",
           NEW p \in Provs, NEW a \in Nat, Saves(i, p, a) \/ Raises(i, p, a)
    PROVE  row' \in [Subs -> Rows] /\ faults' \in 0..MaxFaults /\ unsaved' \subseteq Subs
<1>1. row' \in [Subs -> Rows]
  BY CommitEffect, RecordType DEF TypeOK
<1>2. faults' \in 0..MaxFaults
  BY FaultType DEF Saves, Raises, Fails, SavesUnheard, TypeOK
<1>3. unsaved' \subseteq Subs
  <2>1. req[i].sub \in Subs /\ unsaved \subseteq Subs
    BY SlotType DEF TypeOK
  <2>2. unsaved' = unsaved \/ unsaved' = unsaved \cup {req[i].sub}
    BY DEF Saves, Raises, Fails, SavesUnheard
  <2> QED BY <2>1, <2>2
<1> QED BY <1>1, <1>2, <1>3

(* What Arrive puts into a slot.                                           *)
Arriving(o, s, n) ==
    [Idle EXCEPT !.op = o, !.sub = s, !.pc = "write", !.arg = n,
                 !.seen = IF o = "extend" THEN row[s] ELSE Absent]

(* A request that has read its row has the type of a request.              *)
LEMMA FilledType ==
    ASSUME NEW q \in Requests, NEW o \in DOMAIN Becomes \cup {"create", "extend"}, NEW s \in Subs,
           NEW n \in Nat, NEW c \in Rows
    PROVE  [q EXCEPT !.op = o, !.sub = s, !.pc = "write", !.arg = n, !.seen = c] \in Requests
BY DEF Requests

(* An arriving request keeps types and slots sound.                        *)
LEMMA ArriveSound ==
    ASSUME TypeOK, SlotsSound, NEW s \in Subs, NEW n \in Nat,
           NEW o \in DOMAIN Becomes \cup {"create", "extend"}, Arrive(o, s, n),
           o = "extend" => /\ row[s].expires # 0
                           /\ row[s].count + 1 <= MAX_TTL_EXTENSIONS
                           /\ row[s].total + n <= MAX_TTL_TOTAL_DAYS
    PROVE  TypeOK' /\ SlotsSound'
<1>1. PICK i \in Slots : req' = [req EXCEPT ![i] = Arriving(o, s, n)]
  BY DEF Arrive, Arriving
<1>2. row[s] \in Rows
  BY DEF TypeOK
<1>3. Arriving(o, s, n) \in Requests
  <2>1. row[s] \in Rows /\ Absent \in Rows /\ Idle \in Requests
    BY <1>2, AbsentIsRow, IdleIsRequest
  <2> QED BY <2>1, FilledType DEF Arriving
<1>4. SlotFacts(Arriving(o, s, n))
  BY <1>2 DEF Arriving, Idle, SlotFacts, Task, MAX_RETRIES, Rows
<1>5. req' \in [Slots -> Requests] /\ SlotsSound'
  BY <1>1, <1>3, <1>4, SlotReplaced
<1> QED BY <1>5 DEF Arrive, TypeOK, gateway, history, approvals

(* The commit of an endpoint keeps types and slots sound.                  *)
LEMMA CommitsSound ==
    ASSUME TypeOK, SlotsSound, NEW i \in Slots, req[i].pc = "write", NEW new \in Rows, NEW ok \in BOOLEAN,
           Commits(i, new, ok), faults' \in 0..MaxFaults
    PROVE  TypeOK' /\ SlotsSound'
<1>1. req[i] \in Requests /\ SlotFacts(req[i]) /\ req[i].sub \in Subs /\ req[i].arg \in Nat
  BY SlotType DEF Requests
<1>2. req' \in [Slots -> Requests] /\ SlotsSound'
  <2>1. CASE StartsTask(req[i])
    <3> DEFINE q == [req[i] EXCEPT !.pc = "start", !.app = row[req[i].sub].app, !.spare = ok]
    <3>1. row[req[i].sub].app \in Nat
      BY <1>1 DEF TypeOK, Rows
    <3>2. q \in Requests
      BY <1>1, <3>1 DEF Requests, Task
    <3>3. SlotFacts(q)
      BY <1>1, <2>1 DEF SlotFacts, Requests, Task, StartsTask
    <3>4. req' = [req EXCEPT ![i] = q]
      BY <2>1 DEF Commits
    <3> HIDE DEF q
    <3> QED BY <3>2, <3>3, <3>4, SlotReplaced
  <2>2. CASE ~StartsTask(req[i])
    BY <2>2, EndSound DEF Commits
  <2> QED BY <2>1, <2>2
<1>3. row' \in [Subs -> Rows]
  BY <1>1, RowReplaced DEF Commits
<1>4. granted' \in [Subs -> SUBSET Nat]
  BY <1>1 DEF Commits, TypeOK
<1>5. approved' \subseteq Subs /\ raced' \subseteq Subs
  BY <1>1 DEF Commits, TypeOK
<1> QED BY <1>2, <1>3, <1>4, <1>5 DEF Commits, TypeOK, gateway

(* The types are right initially.                                          *)
LEMMA InitSound == Init => TypeOK /\ SlotsSound
<1> SUFFICES ASSUME Init PROVE TypeOK /\ SlotsSound
  OBVIOUS
<1>1. row \in [Subs -> Rows] /\ req \in [Slots -> Requests]
  BY AbsentIsRow, IdleIsRequest DEF Init
<1>2. owner \in Seq(Subs) /\ apps \subseteq DOMAIN owner /\ lost \subseteq DOMAIN owner
  BY DEF Init
<1>3. SlotsSound
  BY IdleSound DEF Init, SlotsSound
<1>4. requests \in 0..MaxRequests /\ faults \in 0..MaxFaults /\ granted \in [Subs -> SUBSET Nat]
  BY DEF Init
<1> QED BY <1>1, <1>2, <1>3, <1>4 DEF Init, TypeOK

(* The steps of slot i.                                                    *)
Acts(i) == Step(i) \/ CommitFails(i) \/ CreateProvisions(i) \/ TimeOut(i)

(* The steps of a request or task keep them.                               *)
LEMMA StepSound ==
    ASSUME TypeOK, SlotsSound, HeldKnown, NEW i \in Slots, Acts(i)
    PROVE  TypeOK' /\ SlotsSound'
<1>0. /\ req[i] \in Requests /\ SlotFacts(req[i])
      /\ req[i].pc # "idle" => row[req[i].sub] \in Rows /\ req[i].sub \in Subs
  BY SlotType
<1>0a. req[i].pc # "idle" => row[req[i].sub].app \in Nat /\ row[req[i].sub].prov \in Provs
  BY <1>0 DEF Rows, Provs
<1>1. CASE Write(i)
  BY <1>0, <1>1, WrittenType, CommitsSound DEF Write, TypeOK
<1>2. CASE WriteCreate(i)
  <2>1. /\ [Absent EXCEPT !.status = "PENDING"] \in Rows
        /\ \A p \in {"NONE", "FAILED"} : [Absent EXCEPT !.status = "ACTIVE", !.prov = p] \in Rows
    BY AbsentIsRow DEF Rows, Statuses
  <2> QED BY <1>2, <2>1, CommitsSound DEF WriteCreate, TypeOK
<1>3. CASE CommitFails(i)
  BY <1>0, <1>3, FaultType, CommitsSound DEF CommitFails
<1>3a. CASE CreateProvisions(i)
  <2> DEFINE q == [req[i] EXCEPT !.op = "approve", !.pc = "resolve", !.session = "inline"]
             new == [Absent EXCEPT !.status = "ACTIVE", !.prov = "PROVISIONING"]
  <2>1. new \in Rows
    BY AbsentIsRow DEF Rows, Statuses
  <2>2. q \in Requests /\ SlotFacts(q)
    <3>1. q \in Requests
      BY <1>0 DEF Requests, Task, Becomes
    <3>2. SlotFacts(q)
      BY <1>0, <1>3a DEF CreateProvisions, SlotFacts, Requests, Task
    <3> QED BY <3>1, <3>2
  <2>3. req' = [req EXCEPT ![i] = q] /\ row' = [row EXCEPT ![req[i].sub] = new] /\ req[i].sub \in Subs
    BY <1>0, <1>3a DEF CreateProvisions
  <2> HIDE DEF q, new
  <2>4. req' \in [Slots -> Requests] /\ SlotsSound' /\ row' \in [Subs -> Rows]
    BY <2>1, <2>2, <2>3, SlotReplaced, RowReplaced
  <2> QED BY <1>3a, <2>3, <2>4, FaultType DEF CreateProvisions, TypeOK, gateway
<1>4. CASE StartTask(i)
  <2> DEFINE r == row[req[i].sub]
             copy == [Absent EXCEPT !.prov = r.prov, !.app = r.app]
             q == [req[i] EXCEPT !.pc = "mark", !.arg = 0, !.seen = copy]
  <2>1. copy \in Rows
    BY <1>0, <1>4, AbsentIsRow DEF StartTask, Rows
  <2>2. req' = [req EXCEPT ![i] = q] \/ Fallback(i)
    BY <1>4 DEF StartTask
  <2> HIDE DEF copy
  <2>3. q \in Requests /\ SlotFacts(q)
    BY <1>0, <1>4, <2>1 DEF StartTask, Requests, SlotFacts, Task
  <2> HIDE DEF q
  <2>4. req' \in [Slots -> Requests] /\ SlotsSound'
    BY <1>4, <2>2, <2>3, SlotReplaced, FallbackSound DEF StartTask, Task
  <2>5. faults' \in 0..MaxFaults
    BY <1>4, FaultType DEF StartTask, TypeOK
  <2> QED BY <1>4, <2>4, <2>5 DEF StartTask, TypeOK, gateway, history, approvals
<1>5. CASE MarkTask(i)
  <2>1. row' \in [Subs -> Rows] /\ faults' \in 0..MaxFaults /\ unsaved' \subseteq Subs
    BY <1>0a, <1>5, SaveType DEF MarkTask, Provs
  <2>2. req' \in [Slots -> Requests] /\ SlotsSound'
    BY <1>5, GotoSound, FallbackSound DEF MarkTask, Task
  <2> QED BY <1>5, <2>1, <2>2 DEF MarkTask, TypeOK, gateway, approvals
<1>6. CASE Resolve(i)
  <2>1. req' \in [Slots -> Requests] /\ SlotsSound'
    BY <1>0, <1>6, GotoSound DEF Resolve, Provisions, SlotFacts, Task
  <2>2. faults' \in 0..MaxFaults
    BY <1>6, FaultType DEF Resolve, TypeOK
  <2> QED BY <1>6, <2>1, <2>2 DEF Resolve, TypeOK, gateway, history, approvals
<1>7. CASE CallProvision(i)
  <2> DEFINE a == Len(owner) + 1
             q == [req[i] EXCEPT !.pc = "record", !.app = a]
  <2>0. /\ Len(owner) \in Nat /\ DOMAIN owner = 1..Len(owner) /\ a \in Nat
        /\ owner \in Seq(Subs) /\ req[i].sub \in Subs
    BY <1>0, <1>7 DEF TypeOK, CallProvision
  <2>1. q \in Requests /\ SlotFacts(q)
    <3> HIDE DEF a
    <3>1. q \in Requests
      BY <1>0, <2>0 DEF Requests, Task
    <3>2. SlotFacts(q)
      BY <1>0, <1>7 DEF CallProvision, Requests, SlotFacts, Task
    <3> QED BY <3>1, <3>2
  <2>2. req' = [req EXCEPT ![i] = q] \/ Retry(i, req[i], "call")
    BY <1>7 DEF CallProvision
  <2> HIDE DEF q
  <2>3. req' \in [Slots -> Requests] /\ SlotsSound'
    BY <1>0, <1>7, <2>1, <2>2, SlotReplaced, RetrySound DEF CallProvision
  <2>4. /\ owner' \in Seq(Subs)
        /\ apps' \subseteq DOMAIN owner' /\ lost' \subseteq DOMAIN owner'
    <3>1. CASE owner' = Append(owner, req[i].sub) /\ apps' \subseteq apps \cup {a} /\ lost' \subseteq lost \cup {a}
      <4>1. owner' \in Seq(Subs) /\ DOMAIN owner' = 1..a
        BY <2>0, <3>1
      <4> QED BY <2>0, <3>1, <4>1 DEF TypeOK
    <3>2. CASE UNCHANGED <<owner, apps, lost>>
      BY <3>2 DEF TypeOK
    <3> QED BY <1>7, <3>1, <3>2 DEF CallProvision
  <2>5. faults' \in 0..MaxFaults
    BY <1>7, FaultType DEF CallProvision, Outage, TypeOK
  <2> QED BY <1>7, <2>3, <2>4, <2>5 DEF CallProvision, TypeOK, approvals
<1>8. CASE RecordReady(i)
  <2>0. req[i].app \in Nat /\ req[i].app \in DOMAIN owner
    BY <1>0, <1>8 DEF RecordReady, HeldKnown, Requests
  <2>1. row' \in [Subs -> Rows] /\ faults' \in 0..MaxFaults /\ unsaved' \subseteq Subs
    BY <1>8, <2>0, SaveType DEF RecordReady, Provs, Raises
  <2>2. Broken(req[i]) \in Requests /\ Broken(req[i]).op = req[i].op /\ Broken(req[i]).sub = req[i].sub
        /\ Broken(req[i]).tries = req[i].tries
    BY <1>0 DEF Broken, Requests
  <2>3. req' \in [Slots -> Requests] /\ SlotsSound'
    BY <1>8, <2>2, GotoSound, FallbackSound, RetrySound DEF RecordReady, Task
  <2>4. lost' \subseteq DOMAIN owner
    BY <1>8, <2>0 DEF RecordReady, TypeOK
  <2> QED BY <1>8, <2>1, <2>3, <2>4 DEF RecordReady, TypeOK, gateway, approvals
<1>9. CASE PushPolicy(i)
  BY <1>9, EndSound DEF PushPolicy, TypeOK, gateway, history, approvals
<1>10. CASE TimeOut(i)
  <2>1. req[i].pc \in Task /\ req[i].pc # "idle"
    BY <1>0, <1>10 DEF TimeOut, SlotFacts, Task
  <2>2. row' \in [Subs -> Rows] /\ faults' \in 0..MaxFaults /\ unsaved' \subseteq Subs
    BY <1>0, <1>0a, <1>10, <2>1, SaveType DEF TimeOut, Provs, TypeOK
  <2>3. lost' \subseteq DOMAIN owner
    BY <1>10 DEF TimeOut, TypeOK, HeldKnown
  <2> QED BY <1>10, <2>2, <2>3, EndSound DEF TimeOut, TypeOK, gateway, approvals
<1>11. CASE CallDeprovision(i)
  <2>1. faults' \in 0..MaxFaults /\ apps' \subseteq DOMAIN owner
    BY <1>11, FaultType DEF CallDeprovision, Outage, TypeOK
  <2>2. req' \in [Slots -> Requests] /\ SlotsSound'
    BY <1>0, <1>11, GotoSound, RetrySound DEF CallDeprovision
  <2> QED BY <1>11, <2>1, <2>2 DEF CallDeprovision, TypeOK, history, approvals
<1>12. CASE RecordGone(i)
  <2> DEFINE q == [Broken(req[i]) EXCEPT !.seen.app = 0]
  <2>1. row' \in [Subs -> Rows] /\ faults' \in 0..MaxFaults /\ unsaved' \subseteq Subs
    BY <1>12, SaveType DEF RecordGone, Provs, Raises
  <2>2. q \in Requests /\ q.op = req[i].op /\ q.sub = req[i].sub /\ q.tries = req[i].tries
    <3>1. [req[i].seen EXCEPT !.app = 0] \in Rows
      BY <1>0 DEF Requests, Rows
    <3>2. q = [req[i] EXCEPT !.session = "broken", !.seen = [req[i].seen EXCEPT !.app = 0]]
      BY <1>0 DEF Broken, Requests
    <3> QED BY <1>0, <3>1, <3>2 DEF Requests
  <2>3. \/ End(i) \/ Fallback(i) \/ Retry(i, q, "delete")
    BY <1>12 DEF RecordGone
  <2> HIDE DEF q
  <2>4. req' \in [Slots -> Requests] /\ SlotsSound'
    BY <1>12, <2>2, <2>3, EndSound, FallbackSound, RetrySound DEF RecordGone, Task
  <2> QED BY <1>12, <2>1, <2>4 DEF RecordGone, TypeOK, gateway, approvals
<1>13. CASE GiveUp(i)
  <2>1. row' \in [Subs -> Rows] /\ faults' \in 0..MaxFaults /\ unsaved' \subseteq Subs
    BY <1>0a, <1>13, SaveType DEF GiveUp, Provs
  <2>2. req' \in [Slots -> Requests] /\ SlotsSound'
    BY <1>13, EndSound, FallbackSound DEF GiveUp, Task
  <2> QED BY <1>13, <2>1, <2>2 DEF GiveUp, TypeOK, gateway, approvals
<1> QED
  BY <1>1, <1>2, <1>3, <1>3a, <1>4, <1>5, <1>6, <1>7, <1>8, <1>9, <1>10, <1>11, <1>12, <1>13 DEF Acts, Step

(* A restart leaves every slot empty.                                      *)
LEMMA RestartSound ==
    ASSUME TypeOK, SlotsSound, HeldKnown, Restart
    PROVE  TypeOK' /\ SlotsSound'
<1>1. req' \in [Slots -> Requests] /\ SlotsSound'
  BY IdleIsRequest, IdleSound DEF Restart, SlotsSound
<1>2. lost' \subseteq DOMAIN owner
  BY DEF Restart, TypeOK, HeldKnown
<1> QED BY <1>1, <1>2, FaultType DEF Restart, TypeOK, gateway, approvals

(* What a step of slot i leaves alone: the other slots, the other rows,    *)
(* and which row its task is for.                                          *)
LEMMA StepFrame ==
    ASSUME TypeOK, SlotsSound, NEW i \in Slots, Acts(i)
    PROVE  /\ req[i].pc # "idle" /\ req[i].sub \in Subs
           /\ \A j \in Slots \ {i} : req'[j] = req[j]
           /\ \/ req'[i] = Idle
              \/ /\ req'[i].pc \in Task /\ req'[i].sub = req[i].sub
                 /\ req[i].pc \in Task => req'[i].op = req[i].op
           /\ \A s \in Subs \ {req[i].sub} : row'[s] = row[s]
<1>0. req[i] \in Requests /\ SlotFacts(req[i])
  BY SlotType
<1>1. req[i].pc # "idle"
  BY <1>0 DEF Acts, Step, Write, WriteCreate, CommitFails, CreateProvisions, TimeOut, StartTask, MarkTask, Resolve,
         CallProvision, RecordReady, PushPolicy, CallDeprovision, RecordGone, GiveUp, SlotFacts, Task
<1>2. req[i].sub \in Subs
  BY <1>0, <1>1 DEF SlotFacts
<1>3. \A s \in Subs \ {req[i].sub} : row'[s] = row[s]
  <2>1. row' = row \/ (\E p, a : Record(i, p, a)) \/ \E new : row' = [row EXCEPT ![req[i].sub] = new]
    BY CommitEffect, Zenon DEF Acts, Step, Write, WriteCreate, CommitFails, Commits, CreateProvisions, TimeOut,
         StartTask, MarkTask, Resolve, CallProvision, RecordReady, PushPolicy, CallDeprovision, RecordGone, GiveUp,
         Raises
  <2> QED BY <1>2, <2>1 DEF Record, TypeOK
<1>4. \/ End(i)
      \/ \E c \in Task : Goto(i, c)
      \/ Fallback(i)
      \/ \E q, c : Retry(i, q, c) /\ q.op = req[i].op /\ q.sub = req[i].sub /\ q \in Requests /\ c \in Task
      \/ \E q \in Requests : req' = [req EXCEPT ![i] = q] /\ q.pc \in Task /\ q.sub = req[i].sub
                               /\ (req[i].pc \in Task => q.op = req[i].op)
  <2>1. CASE Write(i) \/ WriteCreate(i) \/ CommitFails(i)
    <3>1. \E new : Commits(i, new, TRUE) \/ Commits(i, new, FALSE)
      BY <2>1, Zenon DEF Write, WriteCreate, CommitFails
    <3>1a. PICK new, ok : Commits(i, new, ok) /\ ok \in BOOLEAN
      BY <3>1
    <3>2. CASE StartsTask(req[i])
      <4> DEFINE q == [req[i] EXCEPT !.pc = "start", !.app = row[req[i].sub].app, !.spare = ok]
      <4>1. row[req[i].sub].app \in Nat
        BY <1>2 DEF TypeOK, Rows
      <4>2. q \in Requests /\ q.pc \in Task /\ q.sub = req[i].sub /\ q.op = req[i].op
        BY <1>0, <3>1a, <4>1 DEF Requests, Task
      <4>3. req' = [req EXCEPT ![i] = q]
        BY <3>1a, <3>2 DEF Commits
      <4> QED BY <4>2, <4>3
    <3> QED BY <3>1a, <3>2 DEF Commits
  <2>2. CASE CreateProvisions(i)
    <3> DEFINE q == [req[i] EXCEPT !.op = "approve", !.pc = "resolve", !.session = "inline"]
    <3>1. q \in Requests /\ q.pc \in Task /\ q.sub = req[i].sub /\ req[i].pc \notin Task
      BY <1>0, <2>2 DEF CreateProvisions, Requests, Task, Becomes
    <3>2. req' = [req EXCEPT ![i] = q]
      BY <2>2 DEF CreateProvisions
    <3> QED BY <3>1, <3>2
  <2>3. CASE StartTask(i)
    <3> DEFINE r == row[req[i].sub]
               copy == [Absent EXCEPT !.prov = r.prov, !.app = r.app]
               q == [req[i] EXCEPT !.pc = "mark", !.arg = 0, !.seen = copy]
    <3>1. copy \in Rows
      BY <1>2, AbsentIsRow DEF TypeOK, Rows
    <3>2. req' = [req EXCEPT ![i] = q] \/ Fallback(i)
      BY <2>3 DEF StartTask
    <3> HIDE DEF copy
    <3>3. q \in Requests /\ q.pc \in Task /\ q.sub = req[i].sub /\ q.op = req[i].op
      BY <1>0, <3>1 DEF Requests, Task
    <3> QED BY <3>2, <3>3
  <2>4. CASE CallProvision(i)
    <3> DEFINE q == [req[i] EXCEPT !.pc = "record", !.app = Len(owner) + 1]
    <3>1. Len(owner) + 1 \in Nat
      BY DEF TypeOK
    <3>2. q \in Requests /\ q.pc \in Task /\ q.sub = req[i].sub /\ q.op = req[i].op
      BY <1>0, <3>1 DEF Requests, Task
    <3>3. req' = [req EXCEPT ![i] = q] \/ Retry(i, req[i], "call")
      BY <2>4 DEF CallProvision
    <3> QED BY <1>0, <3>2, <3>3 DEF Task
  <2>5. CASE RecordReady(i)
    <3>1. Broken(req[i]) \in Requests /\ Broken(req[i]).op = req[i].op /\ Broken(req[i]).sub = req[i].sub
      BY <1>0 DEF Broken, Requests
    <3> QED BY <2>5, <3>1 DEF RecordReady, Task
  <2>6. CASE RecordGone(i)
    <3> DEFINE q == [Broken(req[i]) EXCEPT !.seen.app = 0]
    <3>1. [req[i].seen EXCEPT !.app = 0] \in Rows
      BY <1>0 DEF Requests, Rows
    <3>2. q = [req[i] EXCEPT !.session = "broken", !.seen = [req[i].seen EXCEPT !.app = 0]]
      BY <1>0 DEF Broken, Requests
    <3>3. q \in Requests /\ q.op = req[i].op /\ q.sub = req[i].sub
      BY <1>0, <3>1, <3>2 DEF Requests
    <3>4. End(i) \/ Fallback(i) \/ Retry(i, q, "delete")
      BY <2>6 DEF RecordGone
    <3> QED BY <3>3, <3>4 DEF Task
  <2>7. CASE CallDeprovision(i)
    BY <1>0, <2>7 DEF CallDeprovision, Task
  <2>8. CASE MarkTask(i) \/ Resolve(i) \/ PushPolicy(i) \/ GiveUp(i) \/ TimeOut(i)
    BY <2>8, Zenon DEF MarkTask, Resolve, PushPolicy, GiveUp, TimeOut, Task
  <2> QED BY <2>1, <2>2, <2>3, <2>4, <2>5, <2>6, <2>7, <2>8 DEF Acts, Step
<1>5. CASE End(i)
  BY <1>1, <1>2, <1>3, <1>5 DEF End, TypeOK
<1>6. ASSUME NEW c \in Task, Goto(i, c)
      PROVE  /\ \A j \in Slots \ {i} : req'[j] = req[j]
             /\ req'[i].pc \in Task /\ req'[i].op = req[i].op /\ req'[i].sub = req[i].sub
  BY <1>0, <1>6 DEF Goto, TypeOK, Requests
<1>7. ASSUME NEW q \in Requests, NEW c \in Task, Retry(i, q, c), q.op = req[i].op, q.sub = req[i].sub
      PROVE  /\ \A j \in Slots \ {i} : req'[j] = req[j]
             /\ req'[i].pc \in Task /\ req'[i].op = req[i].op /\ req'[i].sub = req[i].sub
  BY <1>0, <1>7 DEF Retry, TypeOK, Requests, Task
<1>8. ASSUME Fallback(i), req[i].spare
      PROVE  /\ \A j \in Slots \ {i} : req'[j] = req[j]
             /\ req'[i].pc \in Task /\ req'[i].op = req[i].op /\ req'[i].sub = req[i].sub
  BY <1>0, <1>8 DEF Fallback, TypeOK, Requests, Task
<1>9. CASE Fallback(i) /\ ~req[i].spare
  BY <1>5, <1>9 DEF Fallback
<1>10. ASSUME NEW q \in Requests, req' = [req EXCEPT ![i] = q]
       PROVE  req'[i] = q /\ \A j \in Slots \ {i} : req'[j] = req[j]
  BY <1>10 DEF TypeOK
<1> QED BY <1>1, <1>2, <1>3, <1>4, <1>5, <1>6, <1>7, <1>8, <1>9, <1>10

(* Only provision_application leads to a task that holds one.              *)
LEMMA NotRecord ==
    ASSUME TypeOK, SlotsSound, NEW i \in Slots, Acts(i), ~CallProvision(i)
    PROVE  req'[i].pc # "record"
<1>0. req[i] \in Requests
  BY SlotType
<1>1. \/ End(i) \/ Fallback(i)
      \/ \E c : Goto(i, c) /\ c # "record"
      \/ \E q, c : Retry(i, q, c) /\ c # "record" /\ DOMAIN q = DOMAIN req[i]
      \/ \E q : req' = [req EXCEPT ![i] = q] /\ q.pc # "record"
  <2>1. CASE Write(i) \/ WriteCreate(i) \/ CommitFails(i)
    <3>0. \E new : Commits(i, new, TRUE) \/ Commits(i, new, FALSE)
      BY <2>1, Zenon DEF Write, WriteCreate, CommitFails
    <3>1. PICK new, ok : Commits(i, new, ok)
      BY <3>0
    <3>2. [req[i] EXCEPT !.pc = "start", !.app = row[req[i].sub].app, !.spare = ok].pc # "record"
      BY <1>0 DEF Requests
    <3>3. \/ End(i)
          \/ req' = [req EXCEPT ![i] = [req[i] EXCEPT !.pc = "start", !.app = row[req[i].sub].app, !.spare = ok]]
      BY <3>1 DEF Commits
    <3> QED BY <3>2, <3>3, Zenon
  <2>2. CASE CreateProvisions(i)
    <3>1. [req[i] EXCEPT !.op = "approve", !.pc = "resolve", !.session = "inline"].pc # "record"
      BY <1>0 DEF Requests
    <3>2. req' = [req EXCEPT ![i] = [req[i] EXCEPT !.op = "approve", !.pc = "resolve", !.session = "inline"]]
      BY <2>2 DEF CreateProvisions
    <3> QED BY <3>1, <3>2, Zenon
  <2>2a. CASE StartTask(i)
    <3>1. \A c : [req[i] EXCEPT !.pc = "mark", !.arg = 0, !.seen = c].pc # "record"
      BY <1>0 DEF Requests
    <3>2. (\E c : req' = [req EXCEPT ![i] = [req[i] EXCEPT !.pc = "mark", !.arg = 0, !.seen = c]]) \/ Fallback(i)
      BY <2>2a, Zenon DEF StartTask
    <3> QED BY <3>1, <3>2, Zenon
  <2>3. CASE RecordReady(i)
    <3>1. DOMAIN Broken(req[i]) = DOMAIN req[i]
      BY DEF Broken
    <3> QED BY <2>3, <3>1 DEF RecordReady
  <2>4. CASE RecordGone(i)
    <3>1. DOMAIN [Broken(req[i]) EXCEPT !.seen.app = 0] = DOMAIN req[i]
      BY DEF Broken
    <3> QED BY <2>4, <3>1 DEF RecordGone
  <2>5. CASE PushPolicy(i) \/ GiveUp(i) \/ TimeOut(i)
    BY <2>5, Zenon DEF PushPolicy, GiveUp, TimeOut
  <2>5a. CASE MarkTask(i)
    <3>1. Goto(i, "resolve") \/ Fallback(i)
      BY <2>5a DEF MarkTask
    <3> QED BY <3>1
  <2>6. CASE Resolve(i)
    <3>1. \E c \in {"call", "delete", "virtual", "fail"} : Goto(i, c)
      BY <2>6, Zenon DEF Resolve
    <3> QED BY <3>1
  <2>7. CASE CallDeprovision(i)
    BY <2>7 DEF CallDeprovision
  <2> QED BY <2>1, <2>2, <2>2a, <2>3, <2>4, <2>5, <2>5a, <2>6, <2>7 DEF Acts, Step
<1>2. CASE End(i)
  BY <1>2 DEF End, Idle, TypeOK
<1>3. CASE Fallback(i)
  BY <1>0, <1>2, <1>3 DEF Fallback, TypeOK, Requests
<1>4. ASSUME NEW c, Goto(i, c), c # "record" PROVE req'[i].pc # "record"
  BY <1>0, <1>4 DEF Goto, TypeOK, Requests
<1>5. ASSUME NEW q, NEW c, Retry(i, q, c), c # "record", DOMAIN q = DOMAIN req[i] PROVE req'[i].pc # "record"
  BY <1>0, <1>5 DEF Retry, TypeOK, Requests
<1>6. ASSUME NEW q, req' = [req EXCEPT ![i] = q], q.pc # "record" PROVE req'[i].pc # "record"
  BY <1>6 DEF TypeOK
<1> QED BY <1>1, <1>2, <1>3, <1>4, <1>5, <1>6

(* A task holds the application it has just made.                          *)
LEMMA StepHeld ==
    ASSUME Sound, NEW i \in Slots, Acts(i)
    PROVE  HeldKnown'
<1> USE DEF Sound
<1>0. req[i] \in Requests /\ SlotFacts(req[i])
  BY SlotType
<1>1. CASE CallProvision(i)
  <2>1. /\ Len(owner) \in Nat /\ DOMAIN owner = 1..Len(owner)
        /\ owner \in Seq(Subs) /\ req[i].sub \in Subs
    BY StepFrame DEF TypeOK
  <2>2. /\ DOMAIN owner \subseteq DOMAIN owner'
        /\ \A a \in DOMAIN owner : owner'[a] = owner[a]
    BY <1>1, <2>1 DEF CallProvision
  <2>3. ASSUME req'[i].pc = "record"
        PROVE  req'[i].app \in DOMAIN owner' /\ owner'[req'[i].app] = req'[i].sub
    <3>1. ~Retry(i, req[i], "call")
      <4>1. Retry(i, req[i], "call") => req'[i].pc # "record"
        BY <1>0 DEF Retry, TypeOK, Requests
      <4> QED BY <2>3, <4>1
    <3>2. /\ owner' = Append(owner, req[i].sub)
          /\ req' = [req EXCEPT ![i].pc = "record", ![i].app = Len(owner) + 1]
      BY <1>1, <3>1 DEF CallProvision
    <3>3. req'[i].app = Len(owner) + 1 /\ req'[i].sub = req[i].sub
      BY <1>0, <3>2 DEF TypeOK, Requests
    <3> QED BY <2>1, <3>2, <3>3
  <2> QED BY <2>2, <2>3, StepFrame DEF HeldKnown
<1>2. CASE ~CallProvision(i)
  <2>1. owner' = owner
    BY <1>2 DEF Acts, Step, Write, WriteCreate, CommitFails, Commits, CreateProvisions, TimeOut, StartTask, MarkTask,
         Resolve, RecordReady, PushPolicy, CallDeprovision, RecordGone, GiveUp, gateway
  <2>2. req'[i].pc # "record"
    BY <1>2, NotRecord
  <2> QED BY <2>1, <2>2, StepFrame DEF HeldKnown
<1> QED BY <1>1, <1>2

(* Every request that arrives passes the checks of its endpoint.           *)
LEMMA BeginSound ==
    ASSUME Sound, NEW s \in Subs,
           \/ BeginCreate(s)
           \/ \E o \in DOMAIN Becomes, e \in Expiries \cup {0} : BeginStatus(o, s, e)
           \/ \E d \in ExtendDays : BeginExtend(s, d)
    PROVE  Sound'
<1> USE DEF Sound
<1>1. row[s] \in Rows
  BY DEF TypeOK
<1>2. TypeOK' /\ SlotsSound'
  <2>1. CASE BeginCreate(s)
    BY <2>1, ArriveSound DEF BeginCreate
  <2>2. ASSUME NEW o \in DOMAIN Becomes, NEW e \in Expiries \cup {0}, BeginStatus(o, s, e)
        PROVE  TypeOK' /\ SlotsSound'
    <3>1. o # "extend" /\ e \in Nat
      BY OpsOfBecomes
    <3> QED BY <2>2, <3>1, ArriveSound DEF BeginStatus
  <2>3. ASSUME NEW d \in ExtendDays, BeginExtend(s, d)
        PROVE  TypeOK' /\ SlotsSound'
    <3>1. d \in Nat
      BY DEF ExtendDays
    <3>2. row[s].count + 1 <= MAX_TTL_EXTENSIONS
      BY <1>1, <2>3 DEF BeginExtend, Rows, MAX_TTL_EXTENSIONS
    <3> QED BY <2>3, <3>1, <3>2, ArriveSound DEF BeginExtend
  <2> QED BY <2>1, <2>2, <2>3
<1>3. HeldKnown'
  <2>1. PICK o, n : Arrive(o, s, n)
    BY DEF BeginCreate, BeginStatus, BeginExtend
  <2>2. PICK i \in Slots : req' = [req EXCEPT ![i] = Arriving(o, s, n)]
    BY <2>1 DEF Arrive, Arriving
  <2>3. req'[i].pc = "write" /\ \A j \in Slots \ {i} : req'[j] = req[j]
    BY <2>2 DEF TypeOK, Arriving, Idle
  <2>4. owner' = owner
    BY <2>1 DEF Arrive, gateway
  <2> QED BY <2>3, <2>4 DEF HeldKnown
<1> QED BY <1>2, <1>3

(* Every step keeps types, slots and the rows that are held.               *)
LEMMA NextSound == Sound /\ [Next]_vars => Sound'
<1> SUFFICES ASSUME Sound, [Next]_vars PROVE Sound'
  OBVIOUS
<1>1. ASSUME NEW i \in Slots, Acts(i) PROVE Sound'
  BY <1>1, StepSound, StepHeld DEF Sound
<1>2. CASE Restart
  <2>1. HeldKnown'
    BY <1>2 DEF Restart, HeldKnown, Idle
  <2> QED BY <1>2, <2>1, RestartSound DEF Sound
<1>3. CASE UNCHANGED vars
  BY <1>3 DEF vars, gateway, history, approvals, Sound, TypeOK, SlotsSound, HeldKnown
<1> QED BY <1>1, <1>2, <1>3, BeginSound DEF Next, Acts

(* Every variable keeps its type, and the TTL columns stay within          *)
(* MAX_TTL_EXTENSIONS and MAX_TTL_TOTAL_DAYS however many extensions of    *)
(* extend_subscription_ttl overlap.                                        *)
THEOREM TypeCorrect == Spec => []TypeOK
<1>1. Init => Sound
  BY InitSound DEF Sound, HeldKnown, Init, Idle
<1>2. Sound => TypeOK
  BY DEF Sound
<1> QED BY <1>1, <1>2, NextSound, PTL DEF Spec

------------------------------------------------------------------------------
(* Extensions.                                                             *)

(* An extension adds to the total what it adds to the expiry.              *)
LEMMA GrantedMonotone ==
    ASSUME TypeOK, NEW s \in Subs, NEW e \in Nat, NEW t \in Nat, NEW d \in Nat, Granted(s, e, t),
           granted[s] \subseteq granted'[s]
    PROVE  \E g \in granted'[s] : e + d <= g + (t + d)
BY DEF Granted, TypeOK

(* A commit writes an expiry that was granted.                             *)
LEMMA WriteCounted ==
    ASSUME Sound, TtlInvariant, NEW i \in Slots, req[i].pc = "write", NEW new \in Rows,
           NEW ok \in BOOLEAN, Commits(i, new, ok),
           \/ req[i].op # "create" /\ new = Written(req[i], row[req[i].sub])
           \/ new = row[req[i].sub]
           \/ new.expires = 0
    PROVE  /\ \A s \in Subs : granted[s] \subseteq granted'[s]
           /\ row'[req[i].sub] = new
           /\ new.expires # 0 => \E g \in granted'[req[i].sub] : new.expires <= g + new.total
<1> USE DEF Sound
<1> DEFINE s == req[i].sub
           q == req[i]
<1>0. q \in Requests /\ SlotFacts(q) /\ s \in Subs /\ row[s] \in Rows /\ q.arg \in Nat /\ q.seen \in Rows
  BY SlotType DEF Requests
<1>1. \A t \in Subs : granted[t] \subseteq granted'[t]
  BY <1>0 DEF Commits, TypeOK
<1>2. row'[s] = new
  BY <1>0 DEF Commits, TypeOK
<1>3. /\ row[s].expires \in Nat /\ row[s].total \in Nat /\ q.seen.expires \in Nat /\ q.seen.total \in Nat
      /\ new.total \in Nat
  BY <1>0 DEF Rows, MAX_TTL_TOTAL_DAYS
<1>4. CASE row[s].expires # 0 /\ new.expires = row[s].expires /\ new.total = row[s].total
  <2>1. Granted(s, row[s].expires, row[s].total)
    BY <1>0, <1>4 DEF TtlInvariant, ExtensionsCounted, Granted
  <2> QED BY <1>0, <1>1, <1>2, <1>3, <1>4, <2>1, GrantedMonotone DEF Granted
<1>5. CASE q.op = "extend" /\ new = Written(q, row[s])
  <2>1. Granted(s, q.seen.expires, q.seen.total)
    BY <1>5 DEF TtlInvariant, ExtensionsRead
  <2>2. new.expires = q.seen.expires + q.arg /\ new.total = q.seen.total + q.arg
    BY <1>0, <1>5 DEF Written, Rows
  <2>3. \E g \in granted'[s] : q.seen.expires + q.arg <= g + (q.seen.total + q.arg)
    <3> HIDE DEF q, s
    <3> QED BY <1>0, <1>1, <1>3, <2>1, GrantedMonotone
  <2> QED BY <1>1, <1>2, <2>2, <2>3
<1>6. CASE q.op = "approve" /\ new = Written(q, row[s]) /\ q.arg # 0
  <2>1. new.expires = q.arg
    BY <1>0, <1>6 DEF Written, Rows
  <2>2. q.arg \in granted'[s]
    BY <1>0, <1>6, <2>1 DEF Commits, TypeOK
  <2> QED BY <1>0, <1>1, <1>2, <1>3, <2>1, <2>2
<1>7. CASE new.expires = 0
  BY <1>1, <1>2, <1>7
<1>8. CASE new = Written(q, row[s]) /\ q.op # "create" /\ q.op # "extend" /\ ~(q.op = "approve" /\ q.arg # 0)
  <2>1. new.expires = row[s].expires /\ new.total = row[s].total
    BY <1>0, <1>8 DEF Written, Rows
  <2> QED BY <1>4, <1>7, <2>1
<1> QED BY <1>4, <1>5, <1>6, <1>7, <1>8

(* Every step keeps the extensions counted.                                *)
LEMMA NextCounted == Sound /\ TtlInvariant /\ [Next]_vars => TtlInvariant'
<1> SUFFICES ASSUME Sound, TtlInvariant, [Next]_vars PROVE TtlInvariant'
  OBVIOUS
<1> USE DEF Sound
<1>1. ASSUME NEW i \in Slots, Write(i) \/ WriteCreate(i) \/ CommitFails(i)
      PROVE  TtlInvariant'
  <2>0. /\ Acts(i) /\ req[i].pc = "write"
        /\ req[i] \in Requests /\ SlotFacts(req[i]) /\ req[i].sub \in Subs /\ row[req[i].sub] \in Rows
    BY <1>1, SlotType DEF Acts, Step, Write, WriteCreate, CommitFails
  <2>1. PICK new \in Rows :
                /\ Commits(i, new, TRUE) \/ Commits(i, new, FALSE)
                /\ \/ req[i].op # "create" /\ new = Written(req[i], row[req[i].sub])
                   \/ new = row[req[i].sub]
                   \/ new.expires = 0
    <3>1. CASE Write(i)
      BY <1>1, <2>0, <3>1, WrittenType DEF Write
    <3>2. CASE WriteCreate(i)
      <4>1. [Absent EXCEPT !.status = "PENDING"] \in Rows /\ [Absent EXCEPT !.status = "PENDING"].expires = 0
        BY AbsentIsRow DEF Absent, Rows, Statuses
      <4>2. \A p \in {"NONE", "FAILED"} :
              /\ [Absent EXCEPT !.status = "ACTIVE", !.prov = p] \in Rows
              /\ [Absent EXCEPT !.status = "ACTIVE", !.prov = p].expires = 0
        BY AbsentIsRow DEF Absent, Rows, Statuses
      <4> QED BY <3>2, <4>1, <4>2 DEF WriteCreate
    <3>3. CASE CommitFails(i)
      BY <2>0, <3>3 DEF CommitFails
    <3> QED BY <1>1, <3>1, <3>2, <3>3
  <2>2. /\ \A s \in Subs : granted[s] \subseteq granted'[s]
        /\ row'[req[i].sub] = new
        /\ new.expires # 0 => \E g \in granted'[req[i].sub] : new.expires <= g + new.total
    BY <2>0, <2>1, WriteCounted
  <2>3. ExtensionsCounted'
    BY <2>0, <2>2, StepFrame DEF TtlInvariant, ExtensionsCounted
  <2>4. ExtensionsRead'
    <3>1. ~(req'[i].pc = "write")
      BY <2>0, StepFrame DEF Task, Idle
    <3> SUFFICES ASSUME NEW j \in Slots, req'[j].pc = "write", req'[j].op = "extend"
                 PROVE  Granted(req[j].sub, req[j].seen.expires, req[j].seen.total)'
      BY DEF ExtensionsRead
    <3>2. j # i /\ req'[j] = req[j]
      BY <2>0, <3>1, StepFrame
    <3>3. req[j].sub \in Subs /\ Granted(req[j].sub, req[j].seen.expires, req[j].seen.total)
      BY <3>2, SlotType DEF TtlInvariant, ExtensionsRead
    <3> QED BY <2>2, <3>2, <3>3 DEF Granted
  <2> QED BY <2>3, <2>4 DEF TtlInvariant
<1>2. ASSUME NEW i \in Slots, Acts(i), ~(Write(i) \/ WriteCreate(i) \/ CommitFails(i))
      PROVE  TtlInvariant'
  <2>1. granted' = granted
    BY <1>2 DEF Acts, Step, CreateProvisions, TimeOut, StartTask, MarkTask, Resolve, CallProvision, RecordReady,
         PushPolicy, CallDeprovision, RecordGone, GiveUp, history, approvals
  <2>2. row[req[i].sub] \in Rows
    BY <1>2, StepFrame DEF TypeOK
  <2>3. \/ row'[req[i].sub].expires = row[req[i].sub].expires /\ row'[req[i].sub].total = row[req[i].sub].total
        \/ row'[req[i].sub].expires = 0
    <3>1. CreateProvisions(i) \/ row' = row \/ \E prov, a : Record(i, prov, a)
      BY <1>2, CommitEffect, Zenon DEF Acts, Step, TimeOut, StartTask, MarkTask, Resolve, CallProvision,
         RecordReady, PushPolicy, CallDeprovision, RecordGone, GiveUp, Raises
    <3>2. ASSUME NEW prov, NEW a, Record(i, prov, a)
          PROVE  row'[req[i].sub].expires = row[req[i].sub].expires /\ row'[req[i].sub].total = row[req[i].sub].total
      BY <1>2, <2>2, <3>2, StepFrame DEF TypeOK, Rows, Record
    <3>3. CASE CreateProvisions(i)
      <4>1. row'[req[i].sub] = [Absent EXCEPT !.status = "ACTIVE", !.prov = "PROVISIONING"]
        BY <1>2, <3>3, StepFrame DEF CreateProvisions, TypeOK
      <4> QED BY <4>1 DEF Absent
    <3> QED BY <3>1, <3>2, <3>3
  <2>4. ~(req'[i].pc = "write")
    BY <1>2, StepFrame DEF Task, Idle
  <2>5. ExtensionsCounted'
    BY <1>2, <2>1, <2>3, StepFrame DEF TtlInvariant, ExtensionsCounted
  <2>6. ExtensionsRead'
    BY <1>2, <2>1, <2>4, StepFrame DEF TtlInvariant, ExtensionsRead, Granted
  <2> QED BY <2>5, <2>6 DEF TtlInvariant
<1>3. ASSUME NEW s \in Subs, NEW o, NEW n, Arrive(o, s, n), o = "extend" => row[s].expires # 0
      PROVE  TtlInvariant'
  <2>1. PICK i \in Slots : req' = [req EXCEPT ![i] = Arriving(o, s, n)]
    BY <1>3 DEF Arrive, Arriving
  <2>2. row' = row /\ granted' = granted
    BY <1>3 DEF Arrive, history, approvals
  <2>3. req'[i] = Arriving(o, s, n) /\ \A j \in Slots \ {i} : req'[j] = req[j]
    BY <2>1 DEF TypeOK
  <2>4. Arriving(o, s, n).op = o /\ Arriving(o, s, n).sub = s /\ (o = "extend" => Arriving(o, s, n).seen = row[s])
    BY DEF Arriving, Idle
  <2>5. ExtensionsRead'
    BY <1>3, <2>2, <2>3, <2>4 DEF TtlInvariant, ExtensionsRead, ExtensionsCounted, Granted
  <2> QED BY <2>2, <2>5 DEF TtlInvariant, ExtensionsCounted
<1>4. CASE Restart
  BY <1>4 DEF Restart, TtlInvariant, ExtensionsCounted, ExtensionsRead, Granted, Idle, approvals
<1>5. CASE UNCHANGED vars
  BY <1>5 DEF vars, history, approvals, TtlInvariant, ExtensionsCounted, ExtensionsRead, Granted
<1>6. \A o \in DOMAIN Becomes : o # "extend"
  BY OpsOfBecomes
<1>7. CASE \E i \in Slots : Acts(i)
  BY <1>1, <1>2, <1>7
<1> QED BY <1>3, <1>4, <1>5, <1>6, <1>7 DEF Next, BeginCreate, BeginStatus, BeginExtend, Acts

(* At the start there are no subscriptions, hence no extensions.           *)
LEMMA InitCounted == Init => Sound /\ TtlInvariant
<1>1. Init => Sound
  BY InitSound DEF Sound, HeldKnown, Init, Idle
<1>2. Init => TtlInvariant
  BY DEF Init, TtlInvariant, ExtensionsCounted, ExtensionsRead, Absent, Idle
<1> QED BY <1>1, <1>2

(* No subscription outlives what approvals granted plus the extended days  *)
(* on record, whatever approvals and extensions overlap                    *)
(* (extend_subscription_ttl, approve_subscription).                        *)
THEOREM ExtensionsAreCounted == Spec => []ExtensionsCounted
<1>1. Sound /\ TtlInvariant => ExtensionsCounted
  BY DEF TtlInvariant
<1> QED BY <1>1, InitCounted, NextSound, NextCounted, PTL DEF Spec

------------------------------------------------------------------------------
(* Applications.                                                           *)

(* A step of a task starts no other one and inserts no row.                *)
LEMMA TaskFrame ==
    ASSUME Sound, NEW i \in Slots, Acts(i), req[i].pc \in Task
    PROVE  /\ UNCHANGED <<approved, raced>>
           /\ req[i].sub \in Subs /\ req[i].op \in {"approve", "revoke"}
           /\ \A j \in Slots \ {i} : req'[j] = req[j]
           /\ req'[i] # Idle => /\ req'[i].pc \in Task
                                /\ req'[i].op = req[i].op /\ req'[i].sub = req[i].sub
           /\ \A s \in Subs \ {req[i].sub} : row'[s] = row[s]
           /\ \A s \in Subs : row'[s].status = row[s].status
           /\ \A j \in Slots, s \in Subs : OnTask(j, s)' => OnTask(j, s) /\ req'[j].op = req[j].op
<1> USE DEF Sound
<1>0. ~(Write(i) \/ WriteCreate(i) \/ CommitFails(i) \/ CreateProvisions(i))
  BY DEF Write, WriteCreate, CommitFails, CreateProvisions, Task
<1>1. UNCHANGED <<approved, raced>>
  BY <1>0 DEF Acts, Step, TimeOut, StartTask, MarkTask, Resolve, CallProvision, RecordReady,
         PushPolicy, CallDeprovision, RecordGone, GiveUp, history, approvals
<1>2. row' = row \/ \E prov, a : Record(i, prov, a)
  BY <1>0, CommitEffect, Zenon DEF Acts, Step, TimeOut, StartTask, MarkTask, Resolve, CallProvision,
         RecordReady, PushPolicy, CallDeprovision, RecordGone, GiveUp, Raises
<1>3. \A s \in Subs : row[s] \in Rows
  BY DEF TypeOK
<1>4. ASSUME NEW prov, NEW a, Record(i, prov, a) PROVE \A s \in Subs : row'[s].status = row[s].status
  <2>1. row'[req[i].sub].status = row[req[i].sub].status
    BY <1>3, <1>4, StepFrame DEF TypeOK, Rows, Record
  <2> QED BY <2>1, StepFrame
<1>5. \A s \in Subs : row'[s].status = row[s].status
  BY <1>2, <1>4
<1>6. req[i].op \in {"approve", "revoke"}
  BY SlotType DEF SlotFacts
<1>7. ASSUME NEW j \in Slots, NEW s \in Subs, OnTask(j, s)' PROVE OnTask(j, s) /\ req'[j].op = req[j].op
  <2>1. CASE j = i
    BY <1>7, <2>1, StepFrame DEF OnTask, Idle, Task
  <2>2. CASE j # i
    BY <1>7, <2>2, StepFrame DEF OnTask
  <2> QED BY <2>1, <2>2
<1> QED BY <1>1, <1>5, <1>6, <1>7, StepFrame

(* The parts of the invariant that no step of a task can disturb.          *)
LEMMA TaskKeeps ==
    ASSUME Sound, AppInvariant, NEW i \in Slots, Acts(i), req[i].pc \in Task
    PROVE  RowsInserted' /\ OneTask' /\ \A j \in Slots : req'[j].pc \in Task => req'[j].sub \in approved'
<1> USE DEF AppInvariant
<1>0. \A j \in Slots : req'[j].pc # "idle" =>
         req[j].pc # "idle" /\ req'[j].sub = req[j].sub /\ req'[j].op = req[j].op
  <2>1. req[i].pc # "idle" /\ Idle.pc = "idle"
    BY DEF Task, Idle
  <2> QED BY <2>1, TaskFrame
<1>1. RowsInserted'
  <2>1. \A s \in Subs : row'[s].status = "absent" => row'[s] = Absent /\ s \notin approved'
    <3> SUFFICES ASSUME NEW s \in Subs, row'[s].status = "absent" PROVE row'[s] = Absent /\ s \notin approved'
      OBVIOUS
    <3>1. row[s] = Absent /\ s \notin approved
      BY TaskFrame DEF RowsInserted
    <3>2. s # req[i].sub
      BY <3>1 DEF AppsApproved
    <3> QED BY <3>1, <3>2, TaskFrame
  <2>2. ASSUME NEW j \in Slots, req'[j].pc # "idle", req'[j].op = "create"
        PROVE  /\ row'[req'[j].sub] = Absent
               /\ \A k \in Slots \ {j} : req'[k].pc # "idle" => req'[k].sub # req'[j].sub
    <3>1. req[j].pc # "idle" /\ req[j].op = "create" /\ req'[j].sub = req[j].sub /\ req[i].pc # "idle"
      BY <1>0, <2>2 DEF Task
    <3>2. j # i
      BY <3>1, TaskFrame
    <3>3. req[j].sub # req[i].sub /\ row[req[j].sub] = Absent /\ req[j].sub \in Subs
      BY <3>1, <3>2, SlotType DEF RowsInserted, Sound
    <3>4. row'[req'[j].sub] = Absent
      BY <3>1, <3>3, TaskFrame
    <3> QED BY <1>0, <3>1, <3>4 DEF RowsInserted
  <2>3. ASSUME NEW j \in Slots, req'[j].pc # "idle", req'[j].op # "create"
        PROVE  row'[req'[j].sub].status # "absent"
    <3>1. req[j].pc # "idle" /\ req[j].op # "create" /\ req'[j].sub = req[j].sub
      BY <1>0, <2>3
    <3> QED BY <3>1, TaskFrame, SlotType DEF RowsInserted, Sound
  <2> QED BY <2>1, <2>2, <2>3 DEF RowsInserted
<1>2. OneTask'
  BY TaskFrame DEF OneTask
<1>3. \A j \in Slots : req'[j].pc \in Task => req'[j].sub \in approved'
  <2> SUFFICES ASSUME NEW j \in Slots, req'[j].pc \in Task PROVE req'[j].sub \in approved'
    OBVIOUS
  <2>0. Idle.pc \notin Task
    BY DEF Task, Idle
  <2>1. req[j].pc \in Task /\ req'[j].sub = req[j].sub
    <3>1. CASE j = i
      BY <2>0, <3>1, TaskFrame
    <3>2. CASE j # i
      BY <3>2, TaskFrame
    <3> QED BY <3>1, <3>2
  <2> QED BY <2>1, TaskFrame DEF AppsApproved
<1> QED BY <1>1, <1>2, <1>3

(* Steps that write no gateway_app_id and make no application: they mark   *)
(* the row, ask the gateway to remove one, or end in an error or without a *)
(* session that writes.                                                    *)
LEMMA QuietStep ==
    ASSUME Sound, AppInvariant, NEW i \in Slots, Acts(i), req[i].pc \in Task,
           owner' = owner, apps' \subseteq apps, lost \subseteq lost',
           row'[req[i].sub].app = row[req[i].sub].app,
           row'[req[i].sub].prov = "DEPROVISIONED" => row[req[i].sub].prov = "DEPROVISIONED",
           req[i].pc = "record" => req[i].app \in lost',
           req'[i].pc # "record",
           \/ req'[i] = Idle \/ ~Writes(i)'
           \/ /\ req'[i].session = req[i].session
              /\ req[i].pc # "policy"
              /\ \/ req[i].pc # "start" /\ req'[i].seen.app = req[i].seen.app
                 \/ req'[i].seen.app = row[req[i].sub].app
              /\ req'[i].pc = "gone" => req'[i].seen.app \notin apps'
    PROVE  AppInvariant'
<1> DEFINE t == req[i].sub
<1>a. /\ RowsInserted /\ AppsApproved /\ HeldLost /\ OneTask /\ FirstProvision /\ Deprovision
      /\ DeprovisionedAtRest /\ AppsOnRecord /\ DeprovisionedIsGone
  BY DEF AppInvariant
<1>b. \A j \in Slots \ {i} : req'[j] = req[j] /\ (Writes(j)' <=> Writes(j))
  BY TaskFrame DEF Writes
<1>c. approved' = approved /\ raced' = raced /\ t \in Subs /\ OnTask(i, t)
  BY TaskFrame DEF OnTask
<1>d. \A j \in Slots, s \in Subs : OnTask(j, s)' => OnTask(j, s) /\ req'[j].op = req[j].op
  BY TaskFrame
<1>e. RowsInserted' /\ OneTask' /\ \A j \in Slots : req'[j].pc \in Task => req'[j].sub \in approved'
  BY TaskKeeps
<1>f. \A s \in Subs : row'[s].app = row[s].app /\ (row'[s].prov = "DEPROVISIONED" => row[s].prov = "DEPROVISIONED")
  BY TaskFrame
<1>g. \A s \in Subs : OnTask(i, s)' /\ Writes(i)' =>
         /\ Writes(i) /\ req[i].pc # "policy"
         /\ \/ req[i].pc # "start" /\ req'[i].seen.app = req[i].seen.app
            \/ req'[i].seen.app = row[t].app
         /\ req'[i].pc = "gone" => req'[i].seen.app \notin apps'
  BY DEF OnTask, Idle, Task, Writes
<1>h. \A b \in apps' \ lost' : b \in apps \ lost /\ ~Holds(i, b)
  BY DEF Holds
<1>k. \A j \in Slots : \A b : Holds(j, b) /\ b \notin lost' => Holds(j, b)'
  BY <1>b DEF Holds
<1>1. AppsApproved'
  BY <1>a, <1>c, <1>e, <1>f DEF AppsApproved
<1>2. HeldLost'
  BY <1>a, <1>b DEF HeldLost
<1>3. FirstProvision'
  <2> SUFFICES ASSUME NEW j \in Slots, NEW s \in Subs \ raced, OnTask(j, s)', Writes(j)', req'[j].op = "approve",
                      req'[j].pc # "policy", NEW b \in apps' \ lost', owner[b] = s
               PROVE  Holds(j, b)'
    BY <1>c DEF FirstProvision
  <2>1. OnTask(j, s) /\ req[j].op = "approve" /\ Writes(j) /\ req[j].pc # "policy"
    BY <1>b, <1>d, <1>g
  <2>2. b \in apps \ lost /\ b \notin lost'
    BY <1>h
  <2>3. Holds(j, b)
    BY <1>a, <2>1, <2>2 DEF FirstProvision
  <2> QED BY <1>k, <2>2, <2>3
<1>4. Deprovision'
  <2> SUFFICES ASSUME NEW j \in Slots, NEW s \in Subs \ raced, OnTask(j, s)', Writes(j)', req'[j].op = "revoke"
               PROVE  /\ req'[j].pc # "start" => req'[j].seen.app = row'[s].app
                      /\ req'[j].pc = "gone" => req'[j].seen.app \notin apps'
    BY <1>c DEF Deprovision
  <2>1. OnTask(j, s) /\ req[j].op = "revoke" /\ Writes(j)
    BY <1>b, <1>d, <1>g
  <2>1a. /\ req[j].pc # "start" => req[j].seen.app = row[s].app
         /\ req[j].pc = "gone" => req[j].seen.app \notin apps
    BY <1>a, <2>1 DEF Deprovision
  <2>1b. row'[s].app = row[s].app /\ \A b : b \in apps' => b \in apps
    BY <1>f
  <2>2. CASE j # i
    <3>1. req'[j] = req[j]
      BY <1>b, <2>2
    <3> QED BY <2>1a, <2>1b, <3>1
  <2>3. CASE j = i
    <3>1. s = t
      BY <2>1, <2>3 DEF OnTask
    <3>2. req[i].pc # "start" => req[i].seen.app = row[t].app
      BY <2>1a, <2>3, <3>1
    <3>3. /\ (req'[i].seen.app = req[i].seen.app /\ req[i].pc # "start") \/ req'[i].seen.app = row[t].app
          /\ req'[i].pc = "gone" => req'[i].seen.app \notin apps'
      BY <1>g, <2>3
    <3> QED BY <2>1b, <2>3, <3>1, <3>2, <3>3
  <2> QED BY <2>2, <2>3
<1>5. DeprovisionedAtRest'
  <2> SUFFICES ASSUME NEW s \in Subs \ raced, row[s].prov = "DEPROVISIONED", NEW j \in Slots, OnTask(j, s)', Writes(j)'
               PROVE  FALSE
    BY <1>a, <1>c, <1>f DEF DeprovisionedAtRest
  <2>1. OnTask(j, s) /\ Writes(j)
    BY <1>b, <1>d, <1>g
  <2> QED BY <1>a, <2>1 DEF DeprovisionedAtRest
<1>6. AppsOnRecord'
  <2>1. \A b \in apps : owner[b] \in Subs
    BY DEF Sound, TypeOK
  <2> QED BY <1>a, <1>c, <1>f, <1>h, <1>k, <2>1 DEF AppsOnRecord
<1>7. DeprovisionedIsGone'
  BY <1>a, <1>c, <1>f DEF DeprovisionedIsGone
<1> QED BY <1>1, <1>2, <1>3, <1>4, <1>5, <1>6, <1>7, <1>e DEF AppInvariant

(* What the ways to go on leave in the slot of a task.                     *)
LEMMA GoesOn ==
    ASSUME Sound, NEW i \in Slots
    PROVE  /\ End(i) => req'[i] = Idle
           /\ Fallback(i) => /\ req'[i] = Idle \/ ~Writes(i)'
                             /\ req'[i].pc # "record"
           /\ \A c : Goto(i, c) => req'[i] = [req[i] EXCEPT !.pc = c] /\ req'[i].pc = c
                                   /\ req'[i].session = req[i].session /\ req'[i].seen = req[i].seen
           /\ \A c : Retry(i, req[i], c) => /\ req'[i].pc \in {c, "fail"}
                                            /\ req'[i].session = req[i].session
                                            /\ req'[i].seen = req[i].seen
           /\ \A c : Retry(i, Broken(req[i]), c) => req'[i].pc \in {c, "fail"} /\ ~Writes(i)'
           /\ \A c : Retry(i, [Broken(req[i]) EXCEPT !.seen.app = 0], c) =>
                         req'[i].pc \in {c, "fail"} /\ ~Writes(i)'
<1>1. req[i] \in Requests /\ DOMAIN req = Slots
  BY SlotType DEF Sound, TypeOK
<1>2. End(i) => req'[i] = Idle
  BY <1>1 DEF End
<1>3. Idle.pc # "record"
  BY DEF Idle
<1>4. Fallback(i) => /\ req'[i] = Idle \/ ~Writes(i)'
                     /\ req'[i].pc # "record"
  <2>1. CASE req[i].spare
    BY <1>1, <2>1 DEF Fallback, Writes, Requests
  <2>2. CASE ~req[i].spare
    BY <1>2, <1>3, <2>2 DEF Fallback
  <2> QED BY <2>1, <2>2
<1>5. \A c : Goto(i, c) => req'[i] = [req[i] EXCEPT !.pc = c] /\ req'[i].pc = c
                          /\ req'[i].session = req[i].session /\ req'[i].seen = req[i].seen
  BY <1>1 DEF Goto, Requests
<1>6. \A c : Retry(i, req[i], c) => /\ req'[i].pc \in {c, "fail"}
                                   /\ req'[i].session = req[i].session
                                   /\ req'[i].seen = req[i].seen
  BY <1>1 DEF Retry, Requests
<1>7. \A c : Retry(i, Broken(req[i]), c) => req'[i].pc \in {c, "fail"} /\ ~Writes(i)'
  BY <1>1 DEF Retry, Broken, Writes, Requests
<1>8. \A c : Retry(i, [Broken(req[i]) EXCEPT !.seen.app = 0], c) => req'[i].pc \in {c, "fail"} /\ ~Writes(i)'
  BY <1>1 DEF Retry, Broken, Writes, Requests
<1> QED BY <1>2, <1>4, <1>5, <1>6, <1>7, <1>8

(* What a commit that leaves gateway_app_id alone does to the row.         *)
LEMMA QuietCommit ==
    ASSUME Sound, NEW i \in Slots, req[i].pc # "idle", NEW p,
           row' = row \/ Record(i, p, row[req[i].sub].app)
    PROVE  /\ row'[req[i].sub].app = row[req[i].sub].app
           /\ row'[req[i].sub].prov \in {p, row[req[i].sub].prov}
<1>1. row[req[i].sub] \in Rows /\ req[i].sub \in Subs /\ DOMAIN row = Subs
  BY SlotType DEF Sound, TypeOK
<1> QED BY <1>1 DEF Record, Rows

(* The first step of a task reads the row.                                 *)
LEMMA StartTaskKeeps ==
    ASSUME Sound, AppInvariant, NEW i \in Slots, StartTask(i)
    PROVE  AppInvariant'
<1>1. /\ Acts(i) /\ req[i].pc \in Task /\ req[i].pc \notin {"record", "policy"}
      /\ UNCHANGED <<row, owner, apps, lost>>
  BY DEF Acts, Step, StartTask, Task, gateway, history
<1>2. CASE Fallback(i)
  BY <1>1, <1>2, GoesOn, QuietStep
<1>3. CASE ~Fallback(i)
  <2>1. req[i] \in Requests /\ DOMAIN req = Slots
    BY SlotType DEF Sound, TypeOK
  <2>2. /\ req'[i].pc = "mark" /\ req'[i].session = req[i].session
        /\ req'[i].seen.app = row[req[i].sub].app
    <3> DEFINE copy == [Absent EXCEPT !.prov = row[req[i].sub].prov, !.app = row[req[i].sub].app]
    <3>1. copy.app = row[req[i].sub].app
      BY DEF Absent
    <3>2. req' = [req EXCEPT ![i].pc = "mark", ![i].arg = 0, ![i].seen = copy]
      BY <1>3 DEF StartTask
    <3> HIDE DEF copy
    <3> QED BY <2>1, <3>1, <3>2 DEF Requests
  <2> QED BY <1>1, <2>2, QuietStep
<1> QED BY <1>2, <1>3

(* So do the steps that only mark the row, and the last ones.              *)
LEMMA MarksKeep ==
    ASSUME Sound, AppInvariant, NEW i \in Slots,
           MarkTask(i) \/ Resolve(i) \/ PushPolicy(i) \/ GiveUp(i) \/ TimeOut(i)
    PROVE  AppInvariant'
<1>1. /\ Acts(i) /\ req[i].pc \in Task /\ req[i].pc # "idle"
      /\ owner' = owner /\ apps' = apps /\ lost \subseteq lost'
      /\ req[i].pc = "record" => req[i].app \in lost'
  <2>1. CASE TimeOut(i)
    <3>1. req[i].pc \in Task
      BY <2>1, SlotType DEF TimeOut, SlotFacts, Sound
    <3> QED BY <2>1, <3>1 DEF TimeOut, Acts, Task, gateway
  <2>2. CASE MarkTask(i) \/ Resolve(i) \/ PushPolicy(i) \/ GiveUp(i)
    BY <2>2 DEF Acts, Step, MarkTask, Resolve, PushPolicy, GiveUp, Task, gateway, history
  <2> QED BY <2>1, <2>2
<1>2. row' = row \/ \E p : Record(i, p, row[req[i].sub].app) /\ (p # "DEPROVISIONED" \/ p = row[req[i].sub].prov)
  <2>1. CASE MarkTask(i)
    BY <2>1, CommitEffect DEF MarkTask
  <2>2. CASE GiveUp(i)
    BY <2>2, CommitEffect DEF GiveUp
  <2>3. CASE TimeOut(i)
    BY <2>3, CommitEffect DEF TimeOut
  <2>4. CASE Resolve(i) \/ PushPolicy(i)
    BY <2>4 DEF Resolve, PushPolicy
  <2> QED BY <2>1, <2>2, <2>3, <2>4
<1>3. /\ row'[req[i].sub].app = row[req[i].sub].app
      /\ row'[req[i].sub].prov = "DEPROVISIONED" => row[req[i].sub].prov = "DEPROVISIONED"
  BY <1>1, <1>2, QuietCommit
<1>4. CASE End(i) \/ Fallback(i)
  <2>1. req'[i].pc # "record" /\ (req'[i] = Idle \/ ~Writes(i)')
    <3>1. Idle.pc # "record"
      BY DEF Idle
    <3>2. CASE End(i)
      BY <3>1, <3>2, GoesOn
    <3>3. CASE Fallback(i)
      BY <3>3, GoesOn
    <3> QED BY <1>4, <3>2, <3>3
  <2> QED BY <1>1, <1>3, <2>1, QuietStep
<1>5. CASE ~(End(i) \/ Fallback(i))
  <2>1. /\ req[i].pc \notin {"start", "policy"}
        /\ \E c \in {"resolve", "call", "delete", "virtual", "fail"} : Goto(i, c)
    <3>1. CASE MarkTask(i)
      BY <1>5, <3>1 DEF MarkTask
    <3>2. CASE Resolve(i)
      BY <3>2, Zenon DEF Resolve
    <3> QED BY <1>5, <3>1, <3>2 DEF PushPolicy, GiveUp, TimeOut
  <2>2. req'[i].pc \notin {"record", "gone"} /\ req'[i].session = req[i].session /\ req'[i].seen = req[i].seen
    BY <2>1, GoesOn
  <2> QED BY <1>1, <1>3, <2>1, <2>2, QuietStep
<1> QED BY <1>4, <1>5

(* The gateway removes an application, or does not.                        *)
LEMMA CallDeprovisionKeeps ==
    ASSUME Sound, AppInvariant, NEW i \in Slots, CallDeprovision(i)
    PROVE  AppInvariant'
<1>1. /\ Acts(i) /\ req[i].pc \in Task /\ req[i].pc \notin {"start", "record", "policy"}
      /\ UNCHANGED <<row, owner, lost>> /\ apps' \subseteq apps
  BY DEF Acts, Step, CallDeprovision, Task, history
<1>2. CASE Goto(i, "gone") /\ req[i].seen.app \notin apps'
  <2>1. req'[i].pc = "gone" /\ req'[i].session = req[i].session /\ req'[i].seen = req[i].seen
    BY <1>2, GoesOn
  <2> QED BY <1>1, <1>2, <2>1, QuietStep
<1>3. CASE Retry(i, req[i], "delete")
  <2>1. req'[i].pc \in {"delete", "fail"} /\ req'[i].session = req[i].session /\ req'[i].seen = req[i].seen
    BY <1>3, GoesOn, Zenon
  <2> QED BY <1>1, <2>1, QuietStep
<1> QED BY <1>2, <1>3 DEF CallDeprovision

(* A task makes an application (provision_application).                    *)
LEMMA CallProvisionKeeps ==
    ASSUME Sound, AppInvariant, NEW i \in Slots, CallProvision(i)
    PROVE  AppInvariant'
<1> DEFINE t == req[i].sub
           a == Len(owner) + 1
<1>0. Acts(i) /\ req[i].pc = "call" /\ req[i].pc \in Task /\ row' = row
  BY DEF Acts, Step, CallProvision, Task
<1>a. \A j \in Slots \ {i} : req'[j] = req[j] /\ (Writes(j)' <=> Writes(j))
  BY <1>0, TaskFrame DEF Writes
<1>b. approved' = approved /\ raced' = raced
  BY <1>0, TaskFrame
<1>c. \A j \in Slots, s \in Subs : OnTask(j, s)' => OnTask(j, s) /\ req'[j].op = req[j].op
  BY <1>0, TaskFrame
<1>e. RowsInserted' /\ OneTask' /\ \A j \in Slots : req'[j].pc \in Task => req'[j].sub \in approved'
  BY <1>0, TaskKeeps
<1>f. /\ RowsInserted /\ AppsApproved /\ HeldLost /\ OneTask /\ FirstProvision /\ Deprovision
      /\ DeprovisionedAtRest /\ AppsOnRecord /\ DeprovisionedIsGone /\ HeldKnown
  BY DEF AppInvariant, Sound
<1>g. req[i] \in Requests /\ t \in Subs /\ row[t] \in Rows /\ OnTask(i, t) /\ t \in approved
  BY <1>0, <1>f, SlotType DEF Task, OnTask, AppsApproved, Sound
<1>h. \A j \in Slots : t \notin raced /\ OnTask(j, t) => j = i
  BY <1>f, <1>g DEF OneTask
<1>k. t \notin raced /\ Writes(i) => row[t].prov # "DEPROVISIONED"
  BY <1>f, <1>g DEF DeprovisionedAtRest
<1>1. req[i].op = "approve"
  BY <1>0, SlotType DEF SlotFacts, Sound
<1>2. /\ Len(owner) \in Nat /\ DOMAIN owner = 1..Len(owner) /\ owner \in Seq(Subs)
      /\ apps \subseteq DOMAIN owner /\ lost \subseteq DOMAIN owner /\ a \in Nat /\ a # 0
      /\ \A b \in DOMAIN owner : owner[b] \in Subs /\ b # a
  BY DEF Sound, TypeOK
<1>2b. Retry(i, req[i], "call") => req'[i].pc \in {"call", "fail"} /\ req'[i].session = req[i].session
  BY GoesOn, Zenon
<1>2c. req' = [req EXCEPT ![i].pc = "record", ![i].app = a] =>
          req'[i].pc = "record" /\ req'[i].app = a /\ req'[i].session = req[i].session
  <2>1. DOMAIN req = Slots
    BY DEF Sound, TypeOK
  <2> HIDE DEF a
  <2> QED BY <1>g, <2>1 DEF Requests
<1>3. \/ /\ owner' = Append(owner, t) /\ apps' = apps \cup {a}
         /\ lost' = IF Writes(i) THEN lost ELSE lost \cup {a}
         /\ req'[i].pc = "record" /\ req'[i].app = a
      \/ /\ owner' = Append(owner, t) /\ apps' = apps \cup {a} /\ lost' = lost \cup {a}
         /\ req'[i].pc \in {"call", "fail"}
      \/ /\ UNCHANGED <<owner, apps, lost>>
         /\ req'[i].pc \in {"call", "fail"}
  BY <1>2b, <1>2c DEF CallProvision
<1>3a. req'[i].session = req[i].session
  BY <1>2b, <1>2c DEF CallProvision
<1>3b. \A j \in Slots : Writes(j)' <=> Writes(j)
  BY <1>a, <1>3a DEF Writes
<1>4. /\ DOMAIN owner \subseteq DOMAIN owner' /\ DOMAIN owner' \subseteq DOMAIN owner \cup {a}
      /\ \A b \in DOMAIN owner : owner'[b] = owner[b]
      /\ a \in DOMAIN owner' => owner'[a] = t
  BY <1>2, <1>3, <1>g
<1>5. apps' \subseteq apps \cup {a} /\ lost \subseteq lost' /\ apps' \subseteq DOMAIN owner'
  BY <1>2, <1>3, <1>4, <1>g
<1>6. \A b \in apps' \ lost' : b \in apps \ lost \/ (b = a /\ req'[i].pc = "record" /\ req'[i].app = a /\ Writes(i))
  BY <1>2, <1>3
<1>7. ~Writes(i) /\ req'[i].pc = "record" => req'[i].app \in lost'
  BY <1>3
<1> HIDE DEF a
<1>20. AppsApproved'
  BY <1>0, <1>4, <1>b, <1>e, <1>f, <1>g DEF AppsApproved
<1>21. HeldLost'
  BY <1>5, <1>7, <1>a, <1>3b, <1>f DEF HeldLost
<1>22. FirstProvision'
  <2> SUFFICES ASSUME NEW j \in Slots, NEW s \in Subs \ raced, OnTask(j, s)', Writes(j), req'[j].op = "approve",
                      req'[j].pc # "policy", NEW b \in apps' \ lost', owner'[b] = s
               PROVE  Holds(j, b)'
    BY <1>b, <1>3b DEF FirstProvision
  <2>1. OnTask(j, s) /\ req[j].op = "approve"
    BY <1>c
  <2>2. CASE b \in apps \ lost
    <3>1. owner[b] = s
      BY <1>2, <1>4, <2>2
    <3>2. req[j].pc # "policy"
      BY <1>0, <1>a
    <3>3. Holds(j, b)
      BY <1>f, <2>1, <2>2, <3>1, <3>2 DEF FirstProvision
    <3>4. j # i
      BY <1>0, <3>3 DEF Holds
    <3> QED BY <1>a, <3>3, <3>4 DEF Holds
  <2>3. CASE b = a /\ req'[i].pc = "record" /\ req'[i].app = a
    <3>1. s = t
      BY <1>4, <1>5, <2>3
    <3>2. j = i
      BY <1>h, <2>1, <3>1
    <3> QED BY <2>3, <3>2 DEF Holds
  <2> QED BY <1>6, <2>2, <2>3
<1>23. Deprovision'
  <2> SUFFICES ASSUME NEW j \in Slots, NEW s \in Subs \ raced, OnTask(j, s)', Writes(j), req'[j].op = "revoke"
               PROVE  /\ req'[j].pc # "start" => req'[j].seen.app = row'[s].app
                      /\ req'[j].pc = "gone" => req'[j].seen.app \notin apps'
    BY <1>b, <1>3b DEF Deprovision
  <2>1. OnTask(j, s) /\ req[j].op = "revoke"
    BY <1>c
  <2>2. j # i /\ req'[j] = req[j]
    BY <1>1, <1>a, <2>1
  <2>3. row[s].app # a
    BY <1>2, <1>f DEF AppsApproved
  <2>4. /\ req[j].pc # "start" => req[j].seen.app = row[s].app
        /\ req[j].pc = "gone" => req[j].seen.app \notin apps
    BY <1>f, <2>1 DEF Deprovision
  <2> QED BY <1>0, <1>5, <2>2, <2>3, <2>4
<1>24. DeprovisionedAtRest'
  <2> SUFFICES ASSUME NEW s \in Subs \ raced, row[s].prov = "DEPROVISIONED"
               PROVE  s \in approved /\ row[s].app = 0 /\ \A j \in Slots : OnTask(j, s)' => ~Writes(j)
    BY <1>0, <1>b, <1>3b DEF DeprovisionedAtRest
  <2> QED BY <1>c, <1>f DEF DeprovisionedAtRest
<1>25. AppsOnRecord'
  <2> SUFFICES ASSUME NEW b \in apps' \ lost', owner'[b] \notin raced
               PROVE  row'[owner'[b]].app = b \/ \E j \in Slots : Holds(j, b)'
    BY <1>b DEF AppsOnRecord
  <2>1. CASE b \in apps \ lost
    <3>1. owner[b] = owner'[b] /\ owner[b] \notin raced
      BY <1>2, <1>4, <2>1
    <3>2. row[owner[b]].app = b \/ \E j \in Slots : Holds(j, b)
      BY <1>f, <2>1, <3>1 DEF AppsOnRecord
    <3>3. ASSUME NEW j \in Slots, Holds(j, b) PROVE Holds(j, b)'
      BY <1>0, <1>a, <3>3 DEF Holds
    <3> QED BY <1>0, <3>1, <3>2, <3>3
  <2>2. CASE b = a /\ req'[i].pc = "record" /\ req'[i].app = a
    BY <2>2 DEF Holds
  <2> QED BY <1>6, <2>1, <2>2
<1>26. DeprovisionedIsGone'
  <2> SUFFICES ASSUME NEW s \in Subs \ raced, row[s].prov = "DEPROVISIONED", NEW b \in apps', owner'[b] = s,
                      b \notin lost'
               PROVE  FALSE
    BY <1>0, <1>b DEF DeprovisionedIsGone
  <2>1. CASE b \in apps \ lost
    <3>1. owner[b] = s
      BY <1>2, <1>4, <2>1
    <3> QED BY <1>f, <2>1, <3>1 DEF DeprovisionedIsGone
  <2>2. CASE b = a /\ Writes(i)
    <3>1. s = t
      BY <1>4, <1>5, <2>2
    <3> QED BY <1>k, <2>2, <3>1
  <2> QED BY <1>6, <2>1, <2>2
<1> QED BY <1>e, <1>20, <1>21, <1>22, <1>23, <1>24, <1>25, <1>26 DEF AppInvariant

(* What the two commits that write gateway_app_id have in common: the task *)
(* of a subscription without a race is alone, and afterwards it holds no   *)
(* application.                                                            *)
LEMMA RecordFrame ==
    ASSUME Sound, AppInvariant, NEW i \in Slots, Acts(i), req[i].pc \in Task, Writes(i),
           NEW p, NEW a, Record(i, p, a), UNCHANGED <<owner, apps, lost>>,
           req'[i].pc # "record", req'[i] = Idle \/ req'[i].pc = "policy" \/ ~Writes(i)'
    PROVE  /\ RowsInserted' /\ OneTask' /\ HeldLost'
           /\ raced' = raced /\ approved' = approved
           /\ req[i].sub \in Subs /\ req[i].sub \in approved
           /\ row'[req[i].sub].app = a /\ row'[req[i].sub].prov = p
           /\ \A s \in Subs \ {req[i].sub} : row'[s] = row[s]
           /\ \A j \in Slots \ {i} : req'[j] = req[j] /\ (Writes(j)' <=> Writes(j))
           /\ \A j \in Slots, s \in Subs : OnTask(j, s)' => OnTask(j, s) /\ req'[j].op = req[j].op
           /\ \A j \in Slots : req[i].sub \notin raced /\ OnTask(j, req[i].sub) => j = i
           /\ \A s \in Subs : OnTask(i, s)' => req'[i].pc = "policy" \/ ~Writes(i)'
           /\ \A j \in Slots : req'[j].pc \in Task => req'[j].sub \in approved
<1> DEFINE t == req[i].sub
<1>1. /\ RowsInserted' /\ OneTask' /\ \A j \in Slots : req'[j].pc \in Task => req'[j].sub \in approved'
      /\ raced' = raced /\ approved' = approved /\ t \in Subs /\ OnTask(i, t)
  BY TaskKeeps, TaskFrame DEF OnTask
<1>2. \A j \in Slots \ {i} : req'[j] = req[j] /\ (Writes(j)' <=> Writes(j))
  BY TaskFrame DEF Writes
<1>3. row'[t].app = a /\ row'[t].prov = p
  <2>1. row[t] \in Rows /\ DOMAIN row = Subs
    BY <1>1 DEF Sound, TypeOK
  <2> QED BY <1>1, <2>1 DEF Record, Rows
<1>4. HeldLost'
  BY <1>2 DEF AppInvariant, HeldLost
<1>5. t \in approved /\ \A j \in Slots : t \notin raced /\ OnTask(j, t) => j = i
  BY <1>1 DEF AppInvariant, AppsApproved, OneTask
<1>6. \A s \in Subs : OnTask(i, s)' => req'[i].pc = "policy" \/ ~Writes(i)'
  BY DEF OnTask, Idle, Task
<1> QED BY <1>1, <1>2, <1>3, <1>4, <1>5, <1>6, TaskFrame

(* READY and gateway_app_id reach the row.                                 *)
LEMMA ReadyWritten ==
    ASSUME Sound, AppInvariant, NEW i \in Slots, Acts(i), req[i].pc = "record", Writes(i),
           Record(i, "READY", req[i].app), UNCHANGED <<owner, apps, lost>>,
           req'[i].pc # "record", req'[i].pc = "policy" \/ ~Writes(i)'
    PROVE  AppInvariant'
<1> DEFINE t == req[i].sub
           a == req[i].app
<1>0. req[i].pc \in Task
  BY DEF Task
<1>1. /\ RowsInserted' /\ OneTask' /\ HeldLost'
      /\ raced' = raced /\ approved' = approved /\ t \in Subs /\ t \in approved
      /\ row'[t].app = a /\ row'[t].prov = "READY"
      /\ \A s \in Subs \ {t} : row'[s] = row[s]
  BY <1>0, RecordFrame
<1>2. /\ \A j \in Slots \ {i} : req'[j] = req[j] /\ (Writes(j)' <=> Writes(j))
      /\ \A j \in Slots, s \in Subs : OnTask(j, s)' => OnTask(j, s) /\ req'[j].op = req[j].op
      /\ \A j \in Slots : t \notin raced /\ OnTask(j, t) => j = i
      /\ \A s \in Subs : OnTask(i, s)' => req'[i].pc = "policy" \/ ~Writes(i)'
      /\ \A j \in Slots : req'[j].pc \in Task => req'[j].sub \in approved
  BY <1>0, RecordFrame
<1>3. /\ AppsApproved /\ FirstProvision /\ Deprovision /\ DeprovisionedAtRest
      /\ AppsOnRecord /\ DeprovisionedIsGone /\ HeldKnown
  BY DEF AppInvariant, Sound
<1>4. req[i].op = "approve" /\ a \in DOMAIN owner /\ owner[a] = t
  BY <1>3, SlotType DEF SlotFacts, Sound, HeldKnown
<1>5. \A b \in apps : owner[b] \in Subs
  BY DEF Sound, TypeOK
<1>6. \A b \in apps \ lost : owner[b] = t /\ t \notin raced => b = a
  <2> SUFFICES ASSUME NEW b \in apps \ lost, owner[b] = t, t \notin raced PROVE b = a
    OBVIOUS
  <2>1. OnTask(i, t)
    BY <1>0 DEF OnTask
  <2>2. Holds(i, b)
    BY <1>1, <1>3, <1>4, <2>1 DEF FirstProvision
  <2> QED BY <2>2 DEF Holds
<1> HIDE DEF a
<1>11. AppsApproved'
  BY <1>1, <1>2, <1>3, <1>4 DEF AppsApproved
<1>12. FirstProvision'
  <2> SUFFICES ASSUME NEW j \in Slots, NEW s \in Subs \ raced, OnTask(j, s)', Writes(j)', req'[j].op = "approve",
                      req'[j].pc # "policy", NEW b \in apps \ lost, owner[b] = s
               PROVE  Holds(j, b)'
    BY <1>1 DEF FirstProvision
  <2>1. j # i /\ OnTask(j, s) /\ req'[j] = req[j] /\ Writes(j)
    BY <1>2
  <2>2. Holds(j, b)
    BY <1>3, <2>1 DEF FirstProvision
  <2> QED BY <2>1, <2>2 DEF Holds
<1>13. Deprovision'
  <2> SUFFICES ASSUME NEW j \in Slots, NEW s \in Subs \ raced, OnTask(j, s)', Writes(j)', req'[j].op = "revoke"
               PROVE  /\ req'[j].pc # "start" => req'[j].seen.app = row'[s].app
                      /\ req'[j].pc = "gone" => req'[j].seen.app \notin apps
    BY <1>1 DEF Deprovision
  <2>1. OnTask(j, s) /\ req[j].op = "revoke"
    BY <1>2
  <2>2. j # i /\ req'[j] = req[j] /\ Writes(j)
    BY <1>2, <1>4, <2>1
  <2>3. s # t
    BY <1>2, <2>1, <2>2
  <2>4. row'[s] = row[s]
    BY <1>1, <2>3
  <2>5. /\ req[j].pc # "start" => req[j].seen.app = row[s].app
        /\ req[j].pc = "gone" => req[j].seen.app \notin apps
    BY <1>3, <2>1, <2>2 DEF Deprovision
  <2> QED BY <2>2, <2>4, <2>5
<1>14. DeprovisionedAtRest'
  <2> SUFFICES ASSUME NEW s \in Subs \ raced, row'[s].prov = "DEPROVISIONED"
               PROVE  s \in approved /\ row'[s].app = 0 /\ \A j \in Slots : OnTask(j, s)' => ~Writes(j)'
    BY <1>1 DEF DeprovisionedAtRest
  <2>1. s # t /\ row'[s] = row[s]
    BY <1>1
  <2>2. s \in approved /\ row[s].app = 0 /\ \A j \in Slots : OnTask(j, s) => ~Writes(j)
    BY <1>3, <2>1 DEF DeprovisionedAtRest
  <2>3. ~OnTask(i, s)
    BY <2>1 DEF OnTask
  <2> QED BY <1>2, <2>1, <2>2, <2>3
<1>15. AppsOnRecord'
  <2> SUFFICES ASSUME NEW b \in apps \ lost, owner[b] \notin raced
               PROVE  row'[owner[b]].app = b \/ \E j \in Slots : Holds(j, b)'
    BY <1>1 DEF AppsOnRecord
  <2>1. CASE owner[b] = t
    BY <1>1, <1>6, <2>1
  <2>2. CASE owner[b] # t
    <3>1. row[owner[b]].app = b \/ \E j \in Slots : Holds(j, b)
      BY <1>3 DEF AppsOnRecord
    <3>2. ASSUME NEW j \in Slots, Holds(j, b) PROVE Holds(j, b)'
      <4>1. j # i
        BY <1>4, <2>2, <3>2 DEF Holds, a
      <4> QED BY <1>2, <3>2, <4>1 DEF Holds
    <3> QED BY <1>1, <1>5, <2>2, <3>1, <3>2
  <2> QED BY <2>1, <2>2
<1>16. DeprovisionedIsGone'
  BY <1>1, <1>3 DEF DeprovisionedIsGone
<1> QED BY <1>1, <1>11, <1>12, <1>13, <1>14, <1>15, <1>16 DEF AppInvariant

(* A commit of _provision_with_session with the id of the application      *)
(* succeeds, raises or does both.                                          *)
LEMMA RecordReadyKeeps ==
    ASSUME Sound, AppInvariant, NEW i \in Slots, RecordReady(i)
    PROVE  AppInvariant'
<1>1. /\ Acts(i) /\ req[i].pc = "record" /\ req[i].pc \in Task
      /\ UNCHANGED <<owner, apps>> /\ lost \subseteq lost'
  BY DEF Acts, Step, RecordReady, Task, gateway
<1>2. CASE Saves(i, "READY", req[i].app) /\ Goto(i, "policy") /\ UNCHANGED lost
  <2>1. req'[i].pc = "policy" /\ req'[i].session = req[i].session
    BY <1>2, GoesOn
  <2>2. CASE Writes(i)
    <3>1. Record(i, "READY", req[i].app)
      BY <1>2, <2>2 DEF Saves
    <3> QED BY <1>1, <1>2, <2>1, <2>2, <3>1, ReadyWritten
  <2>3. CASE ~Writes(i)
    <3>1. row' = row /\ ~Writes(i)'
      BY <1>2, <2>1, <2>3 DEF Saves, Writes
    <3>2. req[i].app \in lost
      BY <1>1, <2>3 DEF AppInvariant, HeldLost
    <3> QED BY <1>1, <1>2, <2>1, <3>1, <3>2, QuietStep
  <2> QED BY <2>2, <2>3
<1>3. CASE Fails(i) /\ lost' = lost \cup {req[i].app} /\ Fallback(i)
  <2>1. req'[i].pc # "record" /\ (req'[i] = Idle \/ ~Writes(i)') /\ row' = row
    BY <1>3, GoesOn DEF Fails
  <2> QED BY <1>1, <1>3, <2>1, QuietStep
<1>4. CASE Fails(i) /\ lost' = lost \cup {req[i].app} /\ Retry(i, Broken(req[i]), "call")
  <2>1. req'[i].pc \in {"call", "fail"} /\ ~Writes(i)'
    BY <1>4, GoesOn, Zenon
  <2>2. row' = row
    BY <1>4 DEF Fails
  <2> QED BY <1>1, <1>4, <2>1, <2>2, QuietStep
<1>5. CASE SavesUnheard(i, "READY", req[i].app) /\ Retry(i, Broken(req[i]), "call") /\ UNCHANGED lost
  <2>1. req'[i].pc \in {"call", "fail"} /\ ~Writes(i)'
    BY <1>5, GoesOn, Zenon
  <2>2. Writes(i) /\ Record(i, "READY", req[i].app)
    BY <1>5 DEF SavesUnheard
  <2> QED BY <1>1, <1>5, <2>1, <2>2, ReadyWritten
<1> QED BY <1>2, <1>3, <1>4, <1>5 DEF RecordReady

(* DEPROVISIONED reaches the row.                                          *)
LEMMA GoneWritten ==
    ASSUME Sound, AppInvariant, NEW i \in Slots, Acts(i), req[i].pc = "gone", Writes(i),
           Record(i, "DEPROVISIONED", 0), UNCHANGED <<owner, apps, lost>>,
           req'[i].pc \notin {"record", "policy"}, req'[i] = Idle \/ ~Writes(i)'
    PROVE  AppInvariant'
<1> DEFINE t == req[i].sub
<1>0. req[i].pc \in Task
  BY DEF Task
<1>1. /\ RowsInserted' /\ OneTask' /\ HeldLost'
      /\ raced' = raced /\ approved' = approved /\ t \in Subs /\ t \in approved
      /\ row'[t].app = 0
      /\ \A s \in Subs \ {t} : row'[s] = row[s]
  BY <1>0, RecordFrame
<1>2. /\ \A j \in Slots \ {i} : req'[j] = req[j] /\ (Writes(j)' <=> Writes(j))
      /\ \A j \in Slots, s \in Subs : OnTask(j, s)' => OnTask(j, s) /\ req'[j].op = req[j].op
      /\ \A j \in Slots : t \notin raced /\ OnTask(j, t) => j = i
      /\ \A s \in Subs : OnTask(i, s)' => ~Writes(i)'
      /\ \A j \in Slots : req'[j].pc \in Task => req'[j].sub \in approved
  BY <1>0, RecordFrame
<1>3. /\ AppsApproved /\ FirstProvision /\ Deprovision /\ DeprovisionedAtRest
      /\ AppsOnRecord /\ DeprovisionedIsGone
  BY DEF AppInvariant
<1>4. req[i].op = "revoke"
  BY SlotType DEF SlotFacts, Sound
<1>5. \A b \in apps : owner[b] \in Subs
  BY DEF Sound, TypeOK
<1>6. \A b \in apps \ lost : owner[b] = t => t \in raced
  <2> SUFFICES ASSUME NEW b \in apps \ lost, owner[b] = t, t \notin raced PROVE FALSE
    OBVIOUS
  <2>1. OnTask(i, t)
    BY <1>0 DEF OnTask
  <2>2. row[t].app \notin apps
    BY <1>1, <1>3, <1>4, <2>1 DEF Deprovision
  <2>3. PICK j \in Slots : Holds(j, b)
    BY <1>3, <2>2 DEF AppsOnRecord
  <2>4. OnTask(j, t)
    <3>1. req[j].pc = "record" /\ owner[req[j].app] = req[j].sub
      BY <2>3 DEF Holds, Sound, HeldKnown
    <3> QED BY <2>3, <3>1 DEF OnTask, Task, Holds
  <2>5. j = i
    BY <1>2, <2>4
  <2> QED BY <2>3, <2>5 DEF Holds
<1>7. \A j \in Slots : \A b : Holds(j, b) => Holds(j, b)'
  BY <1>2 DEF Holds
<1>11. AppsApproved'
  BY <1>1, <1>2, <1>3 DEF AppsApproved
<1>12. FirstProvision'
  <2> SUFFICES ASSUME NEW j \in Slots, NEW s \in Subs \ raced, OnTask(j, s)', Writes(j)', req'[j].op = "approve",
                      req'[j].pc # "policy", NEW b \in apps \ lost, owner[b] = s
               PROVE  Holds(j, b)'
    BY <1>1 DEF FirstProvision
  <2>1. j # i /\ OnTask(j, s) /\ req'[j] = req[j] /\ Writes(j)
    BY <1>2
  <2>2. Holds(j, b)
    BY <1>3, <2>1 DEF FirstProvision
  <2> QED BY <1>7, <2>2
<1>13. Deprovision'
  <2> SUFFICES ASSUME NEW j \in Slots, NEW s \in Subs \ raced, OnTask(j, s)', Writes(j)', req'[j].op = "revoke"
               PROVE  /\ req'[j].pc # "start" => req'[j].seen.app = row'[s].app
                      /\ req'[j].pc = "gone" => req'[j].seen.app \notin apps
    BY <1>1 DEF Deprovision
  <2>1. OnTask(j, s) /\ j # i /\ req'[j] = req[j] /\ Writes(j) /\ req[j].op = "revoke"
    BY <1>2
  <2>2. s # t
    BY <1>2, <2>1
  <2>3. row'[s] = row[s]
    BY <1>1, <2>2
  <2>4. /\ req[j].pc # "start" => req[j].seen.app = row[s].app
        /\ req[j].pc = "gone" => req[j].seen.app \notin apps
    BY <1>3, <2>1 DEF Deprovision
  <2> QED BY <2>1, <2>3, <2>4
<1>14. DeprovisionedAtRest'
  <2> SUFFICES ASSUME NEW s \in Subs \ raced, row'[s].prov = "DEPROVISIONED"
               PROVE  s \in approved /\ row'[s].app = 0 /\ \A j \in Slots : OnTask(j, s)' => ~Writes(j)'
    BY <1>1 DEF DeprovisionedAtRest
  <2>1. CASE s = t
    <3>1. ASSUME NEW j \in Slots, OnTask(j, s)' PROVE j = i
      <4>1. OnTask(j, s)
        BY <1>2, <3>1
      <4> QED BY <1>2, <2>1, <4>1
    <3>2. \A j \in Slots : OnTask(j, s)' => ~Writes(j)'
      BY <1>2, <2>1, <3>1
    <3> QED BY <1>1, <2>1, <3>2
  <2>2. CASE s # t
    <3>1. s \in approved /\ row[s].app = 0 /\ \A j \in Slots : OnTask(j, s) => ~Writes(j)
      BY <1>1, <1>3, <2>2 DEF DeprovisionedAtRest
    <3> QED BY <1>1, <1>2, <2>2, <3>1
  <2> QED BY <2>1, <2>2
<1>15. AppsOnRecord'
  <2> SUFFICES ASSUME NEW b \in apps \ lost, owner[b] \notin raced
               PROVE  row'[owner[b]].app = b \/ \E j \in Slots : Holds(j, b)'
    BY <1>1 DEF AppsOnRecord
  <2>1. owner[b] # t /\ row'[owner[b]] = row[owner[b]]
    BY <1>1, <1>5, <1>6
  <2>2. row[owner[b]].app = b \/ \E j \in Slots : Holds(j, b)
    BY <1>3 DEF AppsOnRecord
  <2> QED BY <1>7, <2>1, <2>2
<1>16. DeprovisionedIsGone'
  <2> SUFFICES ASSUME NEW s \in Subs \ raced, row'[s].prov = "DEPROVISIONED", NEW b \in apps, owner[b] = s
               PROVE  b \in lost
    BY <1>1 DEF DeprovisionedIsGone
  <2>1. CASE s = t
    BY <1>6, <2>1
  <2>2. CASE s # t
    BY <1>1, <1>3, <2>2 DEF DeprovisionedIsGone
  <2> QED BY <2>1, <2>2
<1> QED BY <1>1, <1>11, <1>12, <1>13, <1>14, <1>15, <1>16 DEF AppInvariant

(* The last commit of _deprovision_with_session succeeds, raises or does   *)
(* both.                                                                   *)
LEMMA RecordGoneKeeps ==
    ASSUME Sound, AppInvariant, NEW i \in Slots, RecordGone(i)
    PROVE  AppInvariant'
<1> DEFINE again == Retry(i, [Broken(req[i]) EXCEPT !.seen.app = 0], "delete")
<1>1. /\ Acts(i) /\ req[i].pc = "gone" /\ req[i].pc \in Task
      /\ UNCHANGED <<owner, apps, lost>>
  BY DEF Acts, Step, RecordGone, Task, gateway
<1>2. again => req'[i].pc \in {"delete", "fail"} /\ ~Writes(i)'
  BY GoesOn, Zenon
<1>3. \/ Saves(i, "DEPROVISIONED", 0) /\ End(i)
      \/ Fails(i) /\ (Fallback(i) \/ again)
      \/ SavesUnheard(i, "DEPROVISIONED", 0) /\ again
  BY DEF RecordGone, Raises
<1> HIDE DEF again
<1>4. Idle.pc \notin {"record", "policy"}
  BY DEF Idle
<1>5. CASE Saves(i, "DEPROVISIONED", 0) /\ End(i) /\ Writes(i)
  <2>1. req'[i] = Idle /\ Record(i, "DEPROVISIONED", 0)
    BY <1>5, GoesOn DEF Saves
  <2> QED BY <1>1, <1>4, <1>5, <2>1, GoneWritten
<1>6. CASE Saves(i, "DEPROVISIONED", 0) /\ End(i) /\ ~Writes(i)
  <2>1. req'[i] = Idle /\ row' = row
    BY <1>6, GoesOn DEF Saves
  <2> QED BY <1>1, <1>4, <2>1, QuietStep
<1>7. CASE Fails(i) /\ Fallback(i)
  <2>1. req'[i].pc # "record" /\ (req'[i] = Idle \/ ~Writes(i)') /\ row' = row
    BY <1>7, GoesOn DEF Fails
  <2> QED BY <1>1, <2>1, QuietStep
<1>8. CASE Fails(i) /\ again
  <2>1. row' = row
    BY <1>8 DEF Fails
  <2> QED BY <1>1, <1>2, <1>8, <2>1, QuietStep
<1>9. CASE SavesUnheard(i, "DEPROVISIONED", 0) /\ again
  <2>1. Writes(i) /\ Record(i, "DEPROVISIONED", 0)
    BY <1>9 DEF SavesUnheard
  <2> QED BY <1>1, <1>2, <1>9, <2>1, GoneWritten
<1> QED BY <1>3, <1>5, <1>6, <1>7, <1>8, <1>9

(* A request commits, or fails to and starts its task all the same.        *)
LEMMA CommitsKeeps ==
    ASSUME Sound, AppInvariant, NEW i \in Slots, req[i].pc = "write", NEW new, NEW ok, Commits(i, new, ok),
           new.app = row[req[i].sub].app,
           new.prov = row[req[i].sub].prov \/ new.prov \in {"NONE", "FAILED"},
           new.status # "absent" \/ (req[i].op = "create" /\ new = row[req[i].sub])
    PROVE  AppInvariant'
<1> DEFINE t == req[i].sub
           starts == StartsTask(req[i])
<1>a. /\ RowsInserted /\ AppsApproved /\ HeldLost /\ OneTask /\ FirstProvision /\ Deprovision
      /\ DeprovisionedAtRest /\ AppsOnRecord /\ DeprovisionedIsGone /\ HeldKnown
  BY DEF AppInvariant, Sound
<1>b. req[i] \in Requests /\ t \in Subs
  BY SlotType DEF Sound
<1>c. /\ row'[t] = new /\ (\A s \in Subs \ {t} : row'[s] = row[s])
      /\ \A j \in Slots \ {i} : req'[j] = req[j]
  BY <1>b DEF Commits, Goto, End, Sound, TypeOK
<1>d. UNCHANGED <<owner, apps, lost>>
  BY DEF Commits, gateway
<1>e. /\ ~starts => req'[i] = Idle
      /\ starts => req'[i].pc = "start" /\ req'[i].op = req[i].op /\ req'[i].sub = t
      /\ starts => req[i].op = "approve" \/ (req[i].op = "revoke" /\ row[t].app # 0)
  BY <1>b DEF Commits, Goto, End, Sound, TypeOK, Requests, StartsTask
<1>f. /\ raced \subseteq raced' /\ raced' \subseteq raced \cup {t}
      /\ approved \subseteq approved' /\ approved' \subseteq approved \cup {t}
      /\ req[i].op = "approve" => t \in approved'
      /\ req[i].op # "approve" => approved' = approved
  BY DEF Commits
<1>g. starts /\ t \notin raced' =>
         /\ req[i].op = "approve" => t \notin approved
         /\ \A j \in Slots \ {i} : ~OnTask(j, t)
  BY DEF Commits, Races, OnTask
<1>h. \A s \in Subs : row'[s].app = row[s].app
  BY <1>c
<1>k. \A s \in Subs : row'[s].prov = "DEPROVISIONED" => row[s].prov = "DEPROVISIONED"
  BY <1>c
<1>m. \A j \in Slots : \A b : Holds(j, b)' <=> Holds(j, b)
  <2>1. req'[i].pc # "record"
    BY <1>e DEF Idle
  <2> QED BY <1>c, <2>1 DEF Holds
<1>n. \A j \in Slots, s \in Subs : OnTask(j, s)' => (j # i /\ OnTask(j, s)) \/ (j = i /\ s = t /\ starts)
  <2>1. ~starts => req'[i].pc \notin Task
    BY <1>e DEF Idle, Task
  <2> QED BY <1>c, <1>e, <2>1 DEF OnTask
<1> HIDE DEF starts
<1>1. RowsInserted'
  <2>1. ASSUME NEW s \in Subs, row'[s].status = "absent" PROVE row'[s] = Absent /\ s \notin approved'
    <3>1. CASE s = t
      <4>1. req[i].op = "create" /\ new = row[t]
        BY <1>c, <2>1, <3>1
      <4> QED BY <1>a, <1>c, <1>f, <2>1, <3>1, <4>1 DEF RowsInserted
    <3>2. CASE s # t
      BY <1>a, <1>c, <1>f, <2>1, <3>2 DEF RowsInserted
    <3> QED BY <3>1, <3>2
  <2>2. ASSUME NEW j \in Slots, req'[j].pc # "idle", req'[j].op = "create"
        PROVE  /\ row'[req'[j].sub] = Absent
               /\ \A k \in Slots \ {j} : req'[k].pc # "idle" => req'[k].sub # req'[j].sub
    <3>1. j # i
      BY <1>e, <2>2 DEF Idle
    <3>2. req'[j] = req[j] /\ req[j].sub \in Subs
      BY <1>c, <2>2, <3>1, SlotType DEF Sound
    <3>3. req[j].sub # t /\ row[req[j].sub] = Absent
      BY <1>a, <2>2, <3>1, <3>2 DEF RowsInserted
    <3>4. ASSUME NEW k \in Slots \ {j}, req'[k].pc # "idle" PROVE req'[k].sub # req'[j].sub
      <4>1. CASE k = i
        BY <1>e, <3>2, <3>3, <3>4, <4>1 DEF Idle
      <4>2. CASE k # i
        BY <1>a, <1>c, <2>2, <3>2, <3>4, <4>2 DEF RowsInserted
      <4> QED BY <4>1, <4>2
    <3> QED BY <1>c, <3>2, <3>3, <3>4
  <2>3. ASSUME NEW j \in Slots, req'[j].pc # "idle", req'[j].op # "create"
        PROVE  row'[req'[j].sub].status # "absent"
    <3>1. CASE j = i
      BY <1>c, <1>e, <2>3, <3>1 DEF Idle
    <3>2. CASE j # i
      <4>1. req'[j] = req[j] /\ req[j].sub \in Subs /\ row[req[j].sub].status # "absent"
        BY <1>a, <1>c, <2>3, <3>2, SlotType DEF RowsInserted, Sound
      <4>2. req[j].sub = t => req[i].op # "create"
        BY <1>a, <2>3, <3>2, <4>1 DEF RowsInserted
      <4> QED BY <1>c, <4>1, <4>2
    <3> QED BY <3>1, <3>2
  <2> QED BY <2>1, <2>2, <2>3 DEF RowsInserted
<1>2. AppsApproved'
  <2>1. ASSUME NEW j \in Slots, req'[j].pc \in Task PROVE req'[j].sub \in approved'
    <3>1. CASE j = i
      <4>1. starts /\ req'[j].sub = t
        BY <1>e, <2>1, <3>1 DEF Idle, Task
      <4> QED BY <1>a, <1>b, <1>e, <1>f, <4>1 DEF AppsApproved
    <3>2. CASE j # i
      BY <1>a, <1>c, <1>f, <2>1, <3>2 DEF AppsApproved
    <3> QED BY <3>1, <3>2
  <2> QED BY <1>a, <1>d, <1>f, <1>h, <2>1 DEF AppsApproved
<1>3. HeldLost'
  <2>1. req'[i].pc # "record"
    BY <1>e DEF Idle
  <2> QED BY <1>a, <1>c, <1>d, <2>1 DEF HeldLost, Writes
<1>3a. \A j \in Slots \ {i} : Writes(j)' <=> Writes(j)
  BY <1>c DEF Writes
<1>4. OneTask'
  <2> SUFFICES ASSUME NEW j \in Slots, NEW k \in Slots, NEW s \in Subs \ raced', OnTask(j, s)', OnTask(k, s)'
               PROVE  j = k
    BY DEF OneTask
  <2> QED BY <1>a, <1>f, <1>g, <1>n DEF OneTask
<1>5. FirstProvision'
  <2> SUFFICES ASSUME NEW j \in Slots, NEW s \in Subs \ raced', OnTask(j, s)', Writes(j)', req'[j].op = "approve",
                      req'[j].pc # "policy", NEW b \in apps \ lost, owner[b] = s
               PROVE  Holds(j, b)
    BY <1>d, <1>m DEF FirstProvision
  <2>1. CASE j = i
    <3>1. s = t /\ starts /\ req[i].op = "approve"
      BY <1>e, <1>n, <2>1
    <3>2. t \notin approved /\ b \in DOMAIN owner
      BY <1>g, <3>1 DEF Sound, TypeOK
    <3> QED BY <1>a, <3>1, <3>2 DEF AppsApproved
  <2>2. CASE j # i
    <3>1. OnTask(j, s) /\ Writes(j) /\ req'[j] = req[j] /\ s \in Subs \ raced
      BY <1>c, <1>f, <1>n, <1>3a, <2>2
    <3> QED BY <1>a, <3>1 DEF FirstProvision
  <2> QED BY <2>1, <2>2
<1>6. Deprovision'
  <2> SUFFICES ASSUME NEW j \in Slots, NEW s \in Subs \ raced', OnTask(j, s)', Writes(j)', req'[j].op = "revoke"
               PROVE  /\ req'[j].pc # "start" => req'[j].seen.app = row'[s].app
                      /\ req'[j].pc = "gone" => req'[j].seen.app \notin apps
    BY <1>d DEF Deprovision
  <2>1. CASE j = i
    BY <1>e, <1>n, <2>1
  <2>2. CASE j # i
    <3>1. OnTask(j, s) /\ Writes(j) /\ req'[j] = req[j] /\ s \in Subs \ raced
      BY <1>c, <1>f, <1>n, <1>3a, <2>2
    <3>2. /\ req[j].pc # "start" => req[j].seen.app = row[s].app
          /\ req[j].pc = "gone" => req[j].seen.app \notin apps
      BY <1>a, <3>1 DEF Deprovision
    <3> QED BY <1>h, <3>1, <3>2
  <2> QED BY <2>1, <2>2
<1>7. DeprovisionedAtRest'
  <2> SUFFICES ASSUME NEW s \in Subs \ raced', row'[s].prov = "DEPROVISIONED"
               PROVE  s \in approved' /\ row'[s].app = 0 /\ \A j \in Slots : OnTask(j, s)' => ~Writes(j)'
    BY DEF DeprovisionedAtRest
  <2>1. s \in approved /\ row[s].app = 0 /\ \A j \in Slots : OnTask(j, s) => ~Writes(j)
    BY <1>a, <1>f, <1>k DEF DeprovisionedAtRest
  <2>2. ~(s = t /\ starts)
    BY <1>e, <1>g, <2>1
  <2>3. \A j \in Slots : OnTask(j, s)' => ~Writes(j)'
    BY <1>n, <1>3a, <2>1, <2>2
  <2> QED BY <1>f, <1>h, <2>1, <2>3
<1>8. AppsOnRecord'
  <2>1. \A b \in apps : owner[b] \in Subs
    BY DEF Sound, TypeOK
  <2> QED BY <1>a, <1>d, <1>f, <1>h, <1>m, <2>1 DEF AppsOnRecord
<1>9. DeprovisionedIsGone'
  BY <1>a, <1>d, <1>f, <1>k DEF DeprovisionedIsGone
<1> QED BY <1>1, <1>2, <1>3, <1>4, <1>5, <1>6, <1>7, <1>8, <1>9 DEF AppInvariant

(* A creation that its plan approves provisions on its own session.        *)
LEMMA CreateProvisionsKeeps ==
    ASSUME Sound, AppInvariant, NEW i \in Slots, CreateProvisions(i)
    PROVE  AppInvariant'
<1> DEFINE t == req[i].sub
<1>0. Acts(i) /\ req[i].pc = "write" /\ req[i].op = "create"
  BY DEF Acts, CreateProvisions
<1>a. /\ RowsInserted /\ AppsApproved /\ HeldLost /\ OneTask /\ FirstProvision /\ Deprovision
      /\ DeprovisionedAtRest /\ AppsOnRecord /\ DeprovisionedIsGone
  BY DEF AppInvariant
<1>b. req[i] \in Requests /\ t \in Subs /\ DOMAIN req = Slots /\ DOMAIN row = Subs
  BY <1>0, SlotType DEF Sound, TypeOK
<1>c. \A j \in Slots \ {i} : req'[j] = req[j] /\ (Writes(j)' <=> Writes(j))
  BY <1>0, StepFrame DEF Sound, Writes
<1>d. UNCHANGED <<owner, apps, lost, raced>> /\ approved' = approved \cup {t}
  BY DEF CreateProvisions, gateway
<1>e. req'[i].pc = "resolve" /\ req'[i].op = "approve" /\ req'[i].sub = t
  BY <1>b DEF CreateProvisions, Requests
<1>f. /\ row'[t].status = "ACTIVE" /\ row'[t].app = 0 /\ row'[t].prov = "PROVISIONING"
      /\ \A s \in Subs \ {t} : row'[s] = row[s]
  <2>1. row'[t] = [Absent EXCEPT !.status = "ACTIVE", !.prov = "PROVISIONING"]
    BY <1>b DEF CreateProvisions
  <2> QED BY <1>0, <2>1, StepFrame DEF Sound, Absent
<1>g. /\ row[t] = Absent /\ t \notin approved
      /\ \A j \in Slots \ {i} : req[j].pc # "idle" => req[j].sub # t
  <2>1. row[t] = Absent /\ \A j \in Slots \ {i} : req[j].pc # "idle" => req[j].sub # t
    BY <1>0, <1>a DEF RowsInserted
  <2>2. row[t].status = "absent"
    BY <2>1 DEF Absent
  <2> QED BY <1>a, <1>b, <2>1, <2>2 DEF RowsInserted
<1>h. \A j \in Slots, s \in Subs : OnTask(j, s)' => (j # i /\ s # t /\ OnTask(j, s)) \/ (j = i /\ s = t)
  BY <1>c, <1>e, <1>g DEF OnTask, Task
<1>k. \A j \in Slots : \A b : Holds(j, b)' <=> Holds(j, b)
  BY <1>0, <1>c, <1>e DEF Holds
<1>m. \A b \in DOMAIN owner : owner[b] # t
  BY <1>a, <1>g DEF AppsApproved
<1>n. apps \subseteq DOMAIN owner /\ \A b \in DOMAIN owner : owner[b] \in Subs
  BY DEF Sound, TypeOK
<1>1. RowsInserted'
  <2>1. ASSUME NEW s \in Subs, row'[s].status = "absent" PROVE row'[s] = Absent /\ s \notin approved'
    BY <1>a, <1>d, <1>f, <2>1 DEF RowsInserted
  <2>2. ASSUME NEW j \in Slots, req'[j].pc # "idle", req'[j].op = "create"
        PROVE  /\ row'[req'[j].sub] = Absent
               /\ \A k \in Slots \ {j} : req'[k].pc # "idle" => req'[k].sub # req'[j].sub
    <3>1. j # i /\ req'[j] = req[j]
      BY <1>c, <1>e, <2>2
    <3>2. req[j].sub \in Subs \ {t} /\ row[req[j].sub] = Absent
      BY <1>a, <1>g, <2>2, <3>1, SlotType DEF RowsInserted, Sound
    <3>3. ASSUME NEW k \in Slots \ {j}, req'[k].pc # "idle" PROVE req'[k].sub # req'[j].sub
      <4>1. CASE k = i
        BY <1>e, <3>1, <3>2, <4>1
      <4>2. CASE k # i
        BY <1>a, <1>c, <2>2, <3>1, <3>3, <4>2 DEF RowsInserted
      <4> QED BY <4>1, <4>2
    <3> QED BY <1>f, <3>1, <3>2, <3>3
  <2>3. ASSUME NEW j \in Slots, req'[j].pc # "idle", req'[j].op # "create"
        PROVE  row'[req'[j].sub].status # "absent"
    <3>1. CASE j = i
      BY <1>e, <1>f, <3>1
    <3>2. CASE j # i
      <4>1. req'[j] = req[j] /\ req[j].sub \in Subs \ {t} /\ row[req[j].sub].status # "absent"
        BY <1>a, <1>c, <1>g, <2>3, <3>2, SlotType DEF RowsInserted, Sound
      <4> QED BY <1>f, <4>1
    <3> QED BY <3>1, <3>2
  <2> QED BY <2>1, <2>2, <2>3 DEF RowsInserted
<1>2. AppsApproved'
  <2>1. ASSUME NEW j \in Slots, req'[j].pc \in Task PROVE req'[j].sub \in approved'
    <3>1. CASE j = i
      BY <1>d, <1>e, <3>1
    <3>2. CASE j # i
      BY <1>a, <1>c, <1>d, <2>1, <3>2 DEF AppsApproved
    <3> QED BY <3>1, <3>2
  <2> QED BY <1>a, <1>d, <1>f, <2>1 DEF AppsApproved
<1>3. HeldLost'
  BY <1>a, <1>c, <1>d, <1>e DEF HeldLost
<1>4. OneTask'
  BY <1>a, <1>d, <1>h DEF OneTask
<1>5. FirstProvision'
  <2> SUFFICES ASSUME NEW j \in Slots, NEW s \in Subs \ raced, OnTask(j, s)', Writes(j)', req'[j].op = "approve",
                      req'[j].pc # "policy", NEW b \in apps \ lost, owner[b] = s
               PROVE  Holds(j, b)
    BY <1>d, <1>k DEF FirstProvision
  <2>1. j # i /\ OnTask(j, s) /\ req'[j] = req[j] /\ Writes(j)
    BY <1>c, <1>h, <1>m, <1>n
  <2> QED BY <1>a, <2>1 DEF FirstProvision
<1>6. Deprovision'
  <2> SUFFICES ASSUME NEW j \in Slots, NEW s \in Subs \ raced, OnTask(j, s)', Writes(j)', req'[j].op = "revoke"
               PROVE  /\ req'[j].pc # "start" => req'[j].seen.app = row'[s].app
                      /\ req'[j].pc = "gone" => req'[j].seen.app \notin apps
    BY <1>d DEF Deprovision
  <2>1. j # i /\ s # t /\ OnTask(j, s) /\ req'[j] = req[j] /\ Writes(j)
    BY <1>c, <1>e, <1>h
  <2>2. /\ req[j].pc # "start" => req[j].seen.app = row[s].app
        /\ req[j].pc = "gone" => req[j].seen.app \notin apps
    BY <1>a, <2>1 DEF Deprovision
  <2> QED BY <1>f, <2>1, <2>2
<1>7. DeprovisionedAtRest'
  <2> SUFFICES ASSUME NEW s \in Subs \ raced, row'[s].prov = "DEPROVISIONED"
               PROVE  s \in approved' /\ row'[s].app = 0 /\ \A j \in Slots : OnTask(j, s)' => ~Writes(j)'
    BY <1>d DEF DeprovisionedAtRest
  <2>1. s # t /\ row'[s] = row[s]
    BY <1>f
  <2>2. s \in approved /\ row[s].app = 0 /\ \A j \in Slots : OnTask(j, s) => ~Writes(j)
    BY <1>a, <2>1 DEF DeprovisionedAtRest
  <2>3. \A j \in Slots : OnTask(j, s)' => ~Writes(j)'
    BY <1>c, <1>h, <2>1, <2>2
  <2> QED BY <1>d, <2>1, <2>2, <2>3
<1>8. AppsOnRecord'
  BY <1>a, <1>d, <1>f, <1>k, <1>m, <1>n DEF AppsOnRecord
<1>9. DeprovisionedIsGone'
  BY <1>a, <1>d, <1>f DEF DeprovisionedIsGone
<1> QED BY <1>1, <1>2, <1>3, <1>4, <1>5, <1>6, <1>7, <1>8, <1>9 DEF AppInvariant

(* A request arrives.                                                      *)
LEMMA ArriveKeeps ==
    ASSUME Sound, AppInvariant, NEW s \in Subs, NEW o, NEW n, Arrive(o, s, n),
           IF o = "create" THEN row[s] = Absent /\ \A i \in Slots : req[i].op = "create" => req[i].sub # s
           ELSE row[s].status # "absent"
    PROVE  AppInvariant'
<1>1. PICK i \in Slots : req[i] = Idle /\ req' = [req EXCEPT ![i] = Arriving(o, s, n)]
  BY DEF Arrive, Arriving
<1>2. /\ req'[i].op = o /\ req'[i].sub = s /\ req'[i].pc = "write"
      /\ \A j \in Slots \ {i} : req'[j] = req[j]
  BY <1>1 DEF Sound, TypeOK, Arriving, Idle
<1>3. UNCHANGED <<row, owner, apps, lost, approved, raced>>
  BY DEF Arrive, gateway, history, approvals
<1>4. \A j \in Slots : req'[j].pc \in Task => req'[j] = req[j]
  BY <1>2 DEF Task
<1>5. \A j \in Slots : \A b : Holds(j, b)' <=> Holds(j, b)
  BY <1>1, <1>2 DEF Holds, Idle
<1>6. \A j \in Slots, t \in Subs : OnTask(j, t)' => OnTask(j, t) /\ req'[j] = req[j]
  BY <1>4 DEF OnTask
<1>7. RowsInserted'
  <2>1. ASSUME NEW j \in Slots, req'[j].pc # "idle", req'[j].op = "create"
        PROVE  /\ row[req'[j].sub] = Absent
               /\ \A k \in Slots \ {j} : req'[k].pc # "idle" => req'[k].sub # req'[j].sub
    <3>1. CASE j = i
      <4>1. ASSUME NEW k \in Slots \ {i}, req[k].pc # "idle" PROVE req[k].sub # s
        <5>1. CASE req[k].op = "create"
          BY <1>2, <2>1, <3>1, <5>1
        <5>2. CASE req[k].op # "create"
          BY <1>2, <2>1, <3>1, <4>1, <5>2 DEF AppInvariant, RowsInserted, Absent
        <5> QED BY <5>1, <5>2
      <4> QED BY <1>2, <2>1, <3>1, <4>1
    <3>2. CASE j # i
      <4>1. req[j].pc # "idle" /\ req[j].op = "create" /\ req'[j] = req[j]
        BY <1>2, <2>1, <3>2
      <4>2. row[req[j].sub].status = "absent"
        BY <4>1 DEF AppInvariant, RowsInserted, Absent
      <4>3. req[j].sub # s
        BY <4>1, <4>2
      <4> QED BY <1>2, <3>2, <4>1, <4>3 DEF AppInvariant, RowsInserted
    <3> QED BY <3>1, <3>2
  <2>2. ASSUME NEW j \in Slots, req'[j].pc # "idle", req'[j].op # "create"
        PROVE  row[req'[j].sub].status # "absent"
    BY <1>2, <2>2 DEF AppInvariant, RowsInserted
  <2> QED BY <1>3, <2>1, <2>2 DEF AppInvariant, RowsInserted
<1>7a. \A j \in Slots : req'[j].pc \in Task => (Writes(j)' <=> Writes(j))
  BY <1>4 DEF Writes
<1>8. AppsApproved' /\ HeldLost'
  <2>1. HeldLost'
    BY <1>3, <1>4, <1>7a DEF AppInvariant, HeldLost, Task
  <2> QED BY <1>3, <1>4, <2>1 DEF AppInvariant, AppsApproved
<1>9. OneTask'
  BY <1>3, <1>6 DEF AppInvariant, OneTask
<1>12. FirstProvision'
  <2> SUFFICES ASSUME NEW j \in Slots, NEW t \in Subs \ raced, OnTask(j, t)', Writes(j)', req'[j].op = "approve",
                      req'[j].pc # "policy", NEW a \in apps \ lost, owner[a] = t
               PROVE  Holds(j, a)
    BY <1>3, <1>5 DEF FirstProvision
  <2>1. OnTask(j, t) /\ Writes(j) /\ req[j].op = "approve" /\ req[j].pc # "policy"
    BY <1>6, <1>7a DEF OnTask
  <2> QED BY <2>1 DEF AppInvariant, FirstProvision
<1>9a. \A j \in Slots, t \in Subs : OnTask(j, t)' => (Writes(j)' <=> Writes(j))
  BY <1>7a DEF OnTask
<1>10. Deprovision' /\ DeprovisionedAtRest'
  BY <1>3, <1>6, <1>9a DEF AppInvariant, Deprovision, DeprovisionedAtRest
<1>11. AppsOnRecord' /\ DeprovisionedIsGone'
  BY <1>3, <1>5 DEF AppInvariant, AppsOnRecord, DeprovisionedIsGone
<1> QED BY <1>7, <1>8, <1>9, <1>10, <1>11, <1>12 DEF AppInvariant

(* A restart loses the applications that were not recorded.                *)
LEMMA RestartKeeps ==
    ASSUME Sound, AppInvariant, Restart
    PROVE  AppInvariant'
<1>1. \A i \in Slots : req'[i] = Idle
  BY DEF Restart
<1>2. \A i \in Slots : req'[i].pc = "idle" /\ req'[i].pc \notin Task
  <2>1. Idle.pc = "idle"
    BY DEF Idle
  <2> QED BY <1>1, <2>1 DEF Task
<1>3. UNCHANGED <<row, owner, apps, approved, raced>> /\ lost \subseteq lost'
  BY DEF Restart, gateway, approvals
<1>4. RowsInserted' /\ AppsApproved' /\ HeldLost'
  BY <1>2, <1>3 DEF AppInvariant, RowsInserted, AppsApproved, HeldLost, Task
<1>5. OneTask' /\ FirstProvision' /\ Deprovision' /\ DeprovisionedAtRest'
  BY <1>2, <1>3 DEF AppInvariant, OneTask, FirstProvision, Deprovision, DeprovisionedAtRest, OnTask
<1>6. AppsOnRecord'
  <2> SUFFICES ASSUME NEW a \in apps \ lost', owner[a] \notin raced PROVE row[owner[a]].app = a
    BY <1>3 DEF AppsOnRecord
  <2>1. row[owner[a]].app = a \/ \E i \in Slots : Holds(i, a)
    BY <1>3 DEF AppInvariant, AppsOnRecord
  <2>2. \A i \in Slots : ~Holds(i, a)
    BY DEF Restart, Holds
  <2> QED BY <2>1, <2>2
<1>7. DeprovisionedIsGone'
  BY <1>3 DEF AppInvariant, DeprovisionedIsGone
<1> QED BY <1>4, <1>5, <1>6, <1>7 DEF AppInvariant

(* Every step keeps the applications on record.                            *)
LEMMA NextApps == Sound /\ AppInvariant /\ [Next]_vars => AppInvariant'
<1> SUFFICES ASSUME Sound, AppInvariant, [Next]_vars PROVE AppInvariant'
  OBVIOUS
<1>1. ASSUME NEW s \in Subs, BeginCreate(s) PROVE AppInvariant'
  BY <1>1, ArriveKeeps DEF BeginCreate
<1>2. ASSUME NEW s \in Subs, NEW o \in DOMAIN Becomes, NEW e, BeginStatus(o, s, e) PROVE AppInvariant'
  <2>1. o # "create" /\ "absent" \notin Accepts[o]
    BY OpsOfBecomes DEF Accepts, Statuses
  <2> QED BY <1>2, <2>1, ArriveKeeps DEF BeginStatus
<1>3. ASSUME NEW s \in Subs, NEW d, BeginExtend(s, d) PROVE AppInvariant'
  <2>1. "absent" \notin Accepts["extend"]
    BY DEF Accepts
  <2> QED BY <1>3, <2>1, ArriveKeeps DEF BeginExtend
<1>4. ASSUME NEW i \in Slots, Write(i) \/ WriteCreate(i) \/ CommitFails(i) PROVE AppInvariant'
  <2>0. /\ req[i].pc = "write" /\ req[i] \in Requests /\ SlotFacts(req[i]) /\ row[req[i].sub] \in Rows
        /\ req[i].op = "create" => row[req[i].sub] = Absent
        /\ req[i].op # "create" => row[req[i].sub].status # "absent"
    <3>1. req[i].pc = "write"
      BY <1>4 DEF Write, WriteCreate, CommitFails
    <3> QED BY <3>1, SlotType DEF Sound, AppInvariant, RowsInserted
  <2>1. CASE Write(i)
    <3> DEFINE r == row[req[i].sub]
               new == Written(req[i], r)
    <3>1. Commits(i, new, TRUE) /\ req[i].op # "create"
      BY <2>1 DEF Write
    <3>2. new.app = r.app /\ new.prov = r.prov /\ new.status # "absent"
      <4>1. CASE req[i].op \in {"extend", "approve"}
        BY <2>0, <4>1 DEF Written, Rows
      <4>2. CASE req[i].op \notin {"extend", "approve"}
        <5>1. Becomes[req[i].op] \in Statuses /\ "absent" \notin Statuses
          BY <2>0, <3>1, <4>2, BecomesStatus DEF SlotFacts, Statuses
        <5> QED BY <2>0, <4>2, <5>1 DEF Written, Rows
      <4> QED BY <4>1, <4>2
    <3> HIDE DEF new
    <3> QED BY <2>0, <3>1, <3>2, CommitsKeeps
  <2>2. CASE WriteCreate(i)
    <3>1. /\ [Absent EXCEPT !.status = "PENDING"].app = Absent.app
          /\ [Absent EXCEPT !.status = "PENDING"].prov = Absent.prov
          /\ [Absent EXCEPT !.status = "PENDING"].status # "absent"
      BY DEF Absent
    <3>2. \A p \in {"NONE", "FAILED"} :
            /\ [Absent EXCEPT !.status = "ACTIVE", !.prov = p].app = Absent.app
            /\ [Absent EXCEPT !.status = "ACTIVE", !.prov = p].prov = p
            /\ [Absent EXCEPT !.status = "ACTIVE", !.prov = p].status # "absent"
      BY DEF Absent
    <3> QED BY <2>0, <2>2, <3>1, <3>2, CommitsKeeps DEF WriteCreate
  <2>3. CASE CommitFails(i)
    BY <2>0, <2>3, CommitsKeeps DEF CommitFails
  <2> QED BY <1>4, <2>1, <2>2, <2>3
<1>5. ASSUME NEW i \in Slots, Acts(i), ~(Write(i) \/ WriteCreate(i) \/ CommitFails(i)) PROVE AppInvariant'
  BY <1>5, CreateProvisionsKeeps, StartTaskKeeps, MarksKeep, CallProvisionKeeps, RecordReadyKeeps,
     CallDeprovisionKeeps, RecordGoneKeeps DEF Acts, Step
<1>6. CASE UNCHANGED vars
  <2>1. UNCHANGED <<row, req, owner, apps, lost, approved, raced>>
    BY <1>6 DEF vars, gateway, history, approvals
  <2>2. RowsInserted' /\ AppsApproved' /\ OneTask'
    BY <2>1 DEF AppInvariant, RowsInserted, AppsApproved, OneTask, OnTask
  <2>2a. HeldLost' /\ DeprovisionedAtRest'
    BY <2>1 DEF AppInvariant, HeldLost, DeprovisionedAtRest, OnTask, Writes
  <2>3. FirstProvision' /\ Deprovision' /\ AppsOnRecord' /\ DeprovisionedIsGone'
    <3>1. FirstProvision'
      BY <2>1 DEF AppInvariant, FirstProvision, OnTask, Holds, Writes
    <3>2. Deprovision'
      BY <2>1 DEF AppInvariant, Deprovision, OnTask, Writes
    <3>3. AppsOnRecord' /\ DeprovisionedIsGone'
      BY <2>1 DEF AppInvariant, AppsOnRecord, DeprovisionedIsGone, Holds
    <3> QED BY <3>1, <3>2, <3>3
  <2> QED BY <2>2, <2>2a, <2>3 DEF AppInvariant
<1>7. ASSUME NEW i \in Slots, Acts(i) PROVE AppInvariant'
  BY <1>4, <1>5, <1>7
<1> QED BY <1>1, <1>2, <1>3, <1>6, <1>7, RestartKeeps DEF Next, Acts

(* At the start there are no applications.                                 *)
LEMMA InitApps == Init => AppInvariant
<1> SUFFICES ASSUME Init PROVE AppInvariant
  OBVIOUS
<1>1. /\ \A s \in Subs : row[s] = Absent
      /\ \A i \in Slots : req[i].pc = "idle" /\ req[i].pc \notin Task
      /\ DOMAIN owner = {} /\ apps = {} /\ approved = {}
  BY DEF Init, Idle, Task
<1>2. /\ RowsInserted /\ AppsApproved
      /\ OneTask /\ DeprovisionedAtRest
  <2>0. Absent.app = 0 /\ Absent.prov = "NONE"
    BY DEF Absent
  <2>1. ASSUME NEW s \in Subs PROVE row[s].app = 0 /\ row[s].prov # "DEPROVISIONED"
    <3>1. row[s] = Absent
      BY <1>1
    <3> QED BY <2>0, <3>1
  <2>2. RowsInserted
    BY <1>1 DEF RowsInserted
  <2>3. AppsApproved
    BY <1>1, <2>1 DEF AppsApproved
  <2>4. OneTask
    BY <1>1 DEF OneTask, OnTask
  <2>5. DeprovisionedAtRest
    BY <2>1 DEF DeprovisionedAtRest
  <2> QED BY <2>2, <2>3, <2>4, <2>5
<1>2a. HeldLost
  BY <1>1 DEF HeldLost
<1>3. FirstProvision /\ Deprovision /\ AppsOnRecord /\ DeprovisionedIsGone
  BY <1>1 DEF FirstProvision, Deprovision, AppsOnRecord, DeprovisionedIsGone, OnTask, Absent
<1> QED BY <1>2, <1>2a, <1>3 DEF AppInvariant

(* With one approval and no two tasks of a subscription at once, every     *)
(* application on the gateway is the one on record, or a task is about to  *)
(* record it, or the commit with its id failed or was never tried          *)
(* (_provision_with_session, _deprovision_with_session).                   *)
THEOREM AppsAreOnRecord == Spec => []AppsOnRecord
<1>1. AppInvariant => AppsOnRecord
  BY DEF AppInvariant
<1> QED BY <1>1, InitApps, InitCounted, NextSound, NextApps, PTL DEF Spec

(* When a row says DEPROVISIONED, no application whose id the row ever had *)
(* is left on the gateway, also after retries, failed commits and a second *)
(* run of the task (_deprovision_with_session).                            *)
THEOREM DeprovisionedLeavesNothing == Spec => []DeprovisionedIsGone
<1>1. AppInvariant => DeprovisionedIsGone
  BY DEF AppInvariant
<1> QED BY <1>1, InitApps, InitCounted, NextSound, NextApps, PTL DEF Spec
==============================================================================
