---------------------------- MODULE ApiLifecycle ----------------------------
(***************************************************************************)
(* The life of one API: draft, validation, deployment to an environment,   *)
(* publication to the portal and promotion to the next environment         *)
(* (ApiLifecycleService), with the promotion records that PromotionService *)
(* also creates, approves, completes, fails and rolls back.                *)
(*                                                                         *)
(* One gateway per environment.  A request reads the tables when it begins *)
(* and commits what it changed when it ends; between the two, other        *)
(* requests commit, the gateways acknowledge deployments, and the          *)
(* acknowledgement handler checks promotions in a transaction of its own.  *)
(* A promotion reads the row of its target later than the promotions; the  *)
(* other SELECTs of a request are one step, as the README argues.          *)
(* AgentSync and PushSync model how a deployment row reaches its gateway.  *)
(***************************************************************************)
EXTENDS Naturals, Sequences

CONSTANTS
    Specs,         \* OpenAPI documents
    Imported,      \* those of an API that was projected from Git at the start
    Users,         \* people who promote
    Environments,  \* the environments that have a gateway
    Deployers,     \* request slots that write deployment rows, taken in order
    Editors,       \* request slots for PUT /apis and the promotion endpoints
    None,
    MaxRequests,   \* bound: requests
    MaxFaults      \* bound: completion checks that raise, late acknowledgements

VALID_PROMOTION_CHAINS == {<<"dev", "staging">>, <<"staging", "production">>}
Chains == VALID_PROMOTION_CHAINS \cap (Environments \X Environments)

ASSUME LifecycleValues == /\ Environments \subseteq {"dev", "staging", "production"}
                          /\ Imported \subseteq Specs /\ None \notin Specs /\ None \notin Users
                          /\ None \notin {"PENDING", "PROMOTING", "PROMOTED", "FAILED", "ROLLED_BACK"}
                          /\ Deployers \subseteq Nat /\ Deployers \cap Editors = {}
ASSUME LifecycleBounds == MaxRequests \in Nat /\ MaxFaults \in Nat

VARIABLES
    api,       \* the api_catalog row: status, spec, portal_published, Git-backed,
               \* the spec of each publication record
    dep,       \* dep[e]: the GatewayDeployment on the gateway of e
    promos,    \* the promotions, in order of creation
    req,       \* req[r]: the request in slot r, with the tables it read
    check,     \* check[e]: the second transaction of route-sync-ack
    requests, faults,
    served,    \* history: served[e], the specs the gateway of e acknowledged
    revived,   \* history: promotions that had ended when a request that had
               \* read them as PENDING committed them as PROMOTING
    taken,     \* history: promotions whose row went to one that its request
               \* had chosen before they existed
    clashed    \* history: environments where two requests wrote a generation
               \* computed from the same row

history == <<served, revived, taken, clashed>>
vars == <<api, dep, promos, req, check, requests, faults, history>>
tables == <<api, dep, promos>>

Idle == [op |-> "idle"]
Slots == Deployers \cup Editors
NoRow == [status |-> "absent"]
Active == {"PENDING", "PROMOTING"}

(* Draft rows have no commit; a projected row comes with one.              *)
Catalog(st, s, g) == [status |-> st, spec |-> s, published |-> FALSE, git |-> g,
                      pubs |-> [e \in Environments |-> None]]

Init ==
    /\ api \in {Catalog("absent", None, FALSE)} \cup {Catalog("ready", s, TRUE) : s \in Imported}
    /\ dep = [e \in Environments |-> NoRow]
    /\ promos = <<>>
    /\ req = [r \in Slots |-> Idle]
    /\ check = [e \in Environments |-> Idle]
    /\ requests = 0 /\ faults = 0
    /\ served = [e \in Environments |-> {}]
    /\ revived = {} /\ taken = {} /\ clashed = {}

------------------------------------------------------------------------------
(* Deployment rows and promotions.                                         *)

(* The columns a session changed go over those in the table.               *)
Flushed(now, seen, new) ==
    [c \in DOMAIN new |-> IF new[c] # seen[c] THEN new[c] ELSE now[c]]

(* uq_deployment_api_gateway: an INSERT fails when the row exists.         *)
CanFlush(now, seen) == seen = NoRow => now = NoRow

(* Faulty: an existing row keeps the promotion it had.                     *)
UpsertedKeepingLink(d, s, p, force) ==
    IF d = NoRow
    THEN [status |-> "PENDING", spec |-> s, via |-> p, promo |-> p, desired |-> 1, synced |-> 0]
    ELSE IF d.spec = s /\ d.via = p /\ ~force THEN d
    ELSE [d EXCEPT !.status = "PENDING", !.spec = s, !.via = p, !.desired = @ + 1]

(* _upsert_gateway_deployment for desired state (s, p); p is the promotion *)
(* or 0.                                                                   *)
Upserted(d, s, p, force) ==
    IF d = NoRow
    THEN [status |-> "PENDING", spec |-> s, via |-> p, promo |-> p, desired |-> 1, synced |-> 0]
    ELSE IF d.spec = s /\ d.via = p /\ ~force
    THEN [d EXCEPT !.promo = IF p = 0 THEN @ ELSE p]
    ELSE [d EXCEPT !.status = "PENDING", !.spec = s, !.via = p, !.desired = @ + 1,
                   !.promo = IF p = 0 THEN @ ELSE p]

(* _deployment_synced_to_desired_generation                                *)
SyncedToDesired(d) == d.status = "SYNCED" /\ d.synced >= d.desired

(* The promotions of ps to environment t, from s, with a status in st.     *)
Found(ps, s, t, st) == {i \in DOMAIN ps : ps[i].src = s /\ ps[i].dst = t /\ ps[i].status \in st}

(* uq_promotions_active_per_target                                         *)
IndexHolds(ps) ==
    \A i, j \in DOMAIN ps :
        i # j /\ ps[i].dst = ps[j].dst => ps[i].status \notin Active \/ ps[j].status \notin Active

Promotion(s, t, st, u, a) ==
    [src |-> s, dst |-> t, status |-> st, by |-> u, approved |-> a, gateways |-> TRUE, linked |-> FALSE]

(* list_by_promotion: at most one row per promotion, that of its target.   *)
Linked(p) == {e \in Environments : dep[e] # NoRow /\ dep[e].promo = p}

------------------------------------------------------------------------------
(* Requests.                                                               *)

Begin(r, o) ==
    /\ req[r] = Idle
    /\ requests < MaxRequests
    /\ requests' = requests + 1
    /\ req' = [req EXCEPT ![r] = o]
    /\ UNCHANGED <<tables, check, faults, history>>

End(r) ==
    /\ req' = [req EXCEPT ![r] = Idle]
    /\ UNCHANGED <<check, requests, faults, served>>

(* create_draft: (tenant, api) is unique among live rows.                  *)
CreateDraft(r, s) ==
    /\ api.status = "absent"
    /\ req[r] = Idle /\ requests < MaxRequests
    /\ requests' = requests + 1
    /\ api' = Catalog("draft", s, FALSE)
    /\ UNCHANGED <<dep, promos, req, check, faults, history>>

(* validate_draft.  A ready API validates again while its spec is the one  *)
(* validated, which changes nothing here.                                  *)
ValidateDraft(r) ==
    /\ api.status = "draft"
    /\ req[r] = Idle /\ requests < MaxRequests
    /\ requests' = requests + 1
    /\ api' = [api EXCEPT !.status = "ready"]
    /\ UNCHANGED <<dep, promos, req, check, faults, history>>

(* PUT /apis writes the spec and the whole metadata document, in which     *)
(* the publication records are.                                            *)
BeginUpdate(r, s) ==
    /\ api.status # "absent"
    /\ Begin(r, [op |-> "update", spec |-> s, pubs |-> api.pubs])

CommitUpdate(r) ==
    /\ req[r].op = "update"
    /\ api' = [api EXCEPT !.spec = req[r].spec, !.pubs = req[r].pubs]
    /\ UNCHANGED <<dep, promos, revived, taken, clashed>>
    /\ End(r)

(* require_git_backed_desired_state                                        *)
GitGuard(a, e) == e = "production" => a.git

(* The row of e has another generation than the one read, and the request  *)
(* counts on from that one.                                                *)
Clash(e, seen, new) ==
    IF seen # NoRow /\ new # seen /\ dep[e].desired # seen.desired THEN {e} ELSE {}

(* deploy_to_environment                                                   *)
BeginDeploy(r, e, force) ==
    /\ api.status = "ready" /\ GitGuard(api, e)
    /\ Begin(r, [op |-> "deploy", env |-> e, seen |-> dep[e],
                 row |-> Upserted(dep[e], api.spec, 0, force)])

CommitDeploy(r) ==
    LET q == req[r] IN
    /\ q.op = "deploy"
    /\ IF CanFlush(dep[q.env], q.seen)
       THEN dep' = [dep EXCEPT ![q.env] = IF q.seen = NoRow THEN q.row ELSE Flushed(@, q.seen, q.row)]
       ELSE UNCHANGED dep
    /\ clashed' = clashed \cup Clash(q.env, q.seen, q.row)
    /\ UNCHANGED <<api, promos, revived, taken>>
    /\ End(r)

(* Faulty: the desired state of the row is not compared with the catalog.  *)
BeginPublishUnchecked(r, e, force) ==
    /\ api.status = "ready"
    /\ dep[e] # NoRow /\ SyncedToDesired(dep[e])
    /\ Begin(r, [op |-> "publish", env |-> e, spec |-> api.spec, pubs |-> api.pubs,
                 known |-> api.published /\ api.pubs[e] = api.spec /\ ~force])

(* publish_to_portal, with _complete_promotion_for_publication.  A record  *)
(* that says the same already is not written again.                        *)
BeginPublish(r, e, force) ==
    LET d == dep[e] IN
    /\ api.status = "ready"
    /\ d # NoRow /\ SyncedToDesired(d) /\ d.synced = d.desired
    /\ d.spec = api.spec
    /\ Begin(r, [op |-> "publish", env |-> e, spec |-> api.spec, pubs |-> api.pubs,
                 known |-> api.published /\ api.pubs[e] = api.spec /\ ~force])

CommitPublish(r) ==
    LET q == req[r]
        done == {i \in DOMAIN promos : /\ promos[i].dst = q.env /\ promos[i].linked
                                       /\ promos[i].status \in Active} IN
    /\ q.op = "publish"
    /\ api' = IF q.known THEN api
              ELSE [api EXCEPT !.published = TRUE, !.pubs = [q.pubs EXCEPT ![q.env] = q.spec]]
    /\ promos' = [i \in DOMAIN promos |->
                    IF i \in done THEN [promos[i] EXCEPT !.status = "PROMOTED"] ELSE promos[i]]
    /\ UNCHANGED <<dep, revived, taken, clashed>>
    /\ End(r)

(* The checks of promote_to_environment and _upsert_promotion: it goes on  *)
(* with the active promotion, without force with the last promoted one,    *)
(* else with a new one (0).  known is how many there are by now.           *)
BeginPromote(r, c, u, force) ==
    LET active == Found(promos, c[1], c[2], Active)
        promoted == Found(promos, c[1], c[2], {"PROMOTED"})
        p == IF active # {} THEN CHOOSE i \in active : TRUE
             ELSE IF promoted # {} /\ ~force THEN CHOOSE i \in promoted : \A j \in promoted : j <= i
             ELSE 0 IN
    /\ api.status = "ready" /\ GitGuard(api, c[2])
    /\ dep[c[1]] # NoRow /\ dep[c[1]].status = "SYNCED"
    /\ api.published /\ api.pubs[c[1]] # None
    /\ Begin(r, [op |-> "chosen", chain |-> c, by |-> u, force |-> force, id |-> p,
                 status |-> IF p = 0 THEN "PROMOTING" ELSE promos[p].status,
                 spec |-> api.spec, known |-> Len(promos)])

(* _upsert_gateway_deployment reads the target row in a SELECT of its own. *)
ReadTarget(r) ==
    LET q == req[r] IN
    /\ q.op = "chosen"
    /\ req' = [req EXCEPT ![r] =
                  [op |-> "promote", chain |-> q.chain, by |-> q.by, force |-> q.force, id |-> q.id,
                   status |-> q.status, spec |-> q.spec, known |-> q.known, seen |-> dep[q.chain[2]]]]
    /\ UNCHANGED <<tables, check, requests, faults, history>>

(* The promotion is inserted first, as PROMOTING; the target row gets the  *)
(* catalog's state under its name; it is done when that row is in sync.    *)
(* A row that needs no change is not read again.                           *)
CommitPromote(r) ==
    LET q == req[r]
        t == q.chain[2]
        all == IF q.id # 0 THEN promos
               ELSE Append(promos, Promotion(q.chain[1], t, "PROMOTING", q.by, q.by))
        p == IF q.id = 0 THEN Len(all) ELSE q.id
        up == Upserted(q.seen, q.spec, p, q.force)
        row == IF q.seen = NoRow THEN up ELSE Flushed(dep[t], q.seen, up)
        copy == IF up = q.seen THEN up ELSE row
        status == IF SyncedToDesired(copy) THEN "PROMOTED"
                  ELSE IF q.status = "PENDING" THEN "PROMOTING" ELSE q.status
        after == [all EXCEPT ![p].linked = TRUE, ![p].gateways = TRUE,
                             ![p].status = IF status # q.status THEN status ELSE @]
        done == CanFlush(dep[t], q.seen) /\ IndexHolds(all) /\ IndexHolds(after)
        late == q.id # 0 /\ q.seen # NoRow /\ q.seen.promo > q.known IN
    /\ q.op = "promote"
    /\ IF done THEN promos' = after /\ dep' = [dep EXCEPT ![t] = row]
               ELSE UNCHANGED <<promos, dep>>
    /\ revived' = IF done /\ after[p].status \in Active /\ all[p].status \notin Active
                  THEN revived \cup {p} ELSE revived
    /\ taken' = IF done /\ late THEN taken \cup {q.seen.promo} ELSE taken
    /\ clashed' = clashed \cup Clash(t, q.seen, up)
    /\ UNCHANGED api
    /\ End(r)

------------------------------------------------------------------------------
(* PromotionService.  A request changes the status of promotion id (0:     *)
(* none) and may add a promotion.                                          *)

BeginChange(r, p, status, u, new) ==
    Begin(r, [op |-> "change", id |-> p, status |-> status, approved |-> u, new |-> new])

BeginCreatePromotion(r, c, u) ==
    /\ api.status # "absent" /\ GitGuard(api, c[2])
    /\ dep[c[1]] # NoRow /\ dep[c[1]].status = "SYNCED"
    /\ \A i \in DOMAIN promos : promos[i].dst = c[2] => promos[i].status \notin Active
    /\ BeginChange(r, 0, None, None, <<Promotion(c[1], c[2], "PENDING", u, None)>>)

(* Self-approval is refused for production.                                *)
BeginApprove(r, p, u) ==
    /\ promos[p].status = "PENDING" /\ promos[p].gateways
    /\ promos[p].dst = "production" => promos[p].by # u
    /\ BeginChange(r, p, "PROMOTING", u, <<>>)

BeginComplete(r, p) ==
    /\ promos[p].status = "PROMOTING"
    /\ Linked(p) # {} /\ \A e \in Linked(p) : dep[e].status = "SYNCED"
    /\ BeginChange(r, p, "PROMOTED", None, <<>>)

(* The reverse promotion starts as PROMOTING, without gateways.            *)
BeginRollback(r, p, u) ==
    LET back == Promotion(promos[p].dst, promos[p].src, "PROMOTING", u, None) IN
    /\ promos[p].status = "PROMOTED"
    /\ BeginChange(r, p, "ROLLED_BACK", None, <<[back EXCEPT !.gateways = FALSE]>>)

CommitChange(r) ==
    LET q == req[r]
        set == IF q.id = 0 THEN promos
               ELSE [promos EXCEPT ![q.id].status = q.status,
                                   ![q.id].approved = IF q.approved = None THEN @ ELSE q.approved]
        after == set \o q.new IN
    /\ q.op = "change"
    /\ promos' = IF IndexHolds(after) THEN after ELSE promos
    /\ revived' = IF q.status = "PROMOTING" /\ promos[q.id].status \notin Active /\ IndexHolds(after)
                  THEN revived \cup {q.id} ELSE revived
    /\ UNCHANGED <<api, dep, taken, clashed>>
    /\ End(r)

------------------------------------------------------------------------------
(* route-sync-ack.                                                         *)

(* Faulty: the word of the wire format is stored as the status.            *)
AckedStatusOfWire(d, ok) ==
    IF ok \/ SyncedToDesired(d) THEN "SYNCED" ELSE "failed"

(* The result for the desired generation: a row in sync keeps its status   *)
(* when a later attempt fails.                                             *)
AckedStatus(d, ok) ==
    IF ok \/ SyncedToDesired(d) THEN "SYNCED" ELSE "ERROR"

Checking(e) == IF dep[e].promo = 0 THEN Idle ELSE [op |-> "read", promo |-> dep[e].promo]

Acknowledge(e, ok) ==
    /\ check[e] = Idle
    /\ dep[e] # NoRow
    /\ dep' = [dep EXCEPT ![e].status = AckedStatus(dep[e], ok),
                          ![e].synced = IF ok THEN dep[e].desired ELSE @]
    /\ check' = [check EXCEPT ![e] = Checking(e)]
    /\ served' = [served EXCEPT ![e] = IF ok THEN @ \cup {dep[e].spec} ELSE @]
    /\ UNCHANGED <<api, promos, req, requests, faults, revived, taken, clashed>>

(* A result for an earlier generation is skipped, and still checks.        *)
LateAck(e) ==
    /\ check[e] = Idle
    /\ dep[e] # NoRow /\ dep[e].desired > 1
    /\ faults < MaxFaults
    /\ faults' = faults + 1
    /\ check' = [check EXCEPT ![e] = Checking(e)]
    /\ UNCHANGED <<tables, req, requests, history>>


(* check_promotion_completion up to its write: complete_promotion wants    *)
(* PROMOTING, fail_promotion takes any status.                             *)
CheckRead(e) ==
    LET p == check[e].promo
        statuses == {dep[x].status : x \in Linked(p)}
        verdict == IF statuses = {} \/ "PENDING" \in statuses THEN None
                   ELSE IF statuses = {"SYNCED"}
                   THEN IF promos[p].status = "PROMOTING" THEN "PROMOTED" ELSE None
                   ELSE "FAILED" IN
    /\ check[e].op = "read"
    /\ check' = [check EXCEPT ![e] = IF verdict = None THEN Idle
                                     ELSE [op |-> "write", promo |-> p, verdict |-> verdict]]
    /\ UNCHANGED <<tables, req, requests, faults, history>>

CheckWrite(e) ==
    /\ check[e].op = "write"
    /\ promos' = [promos EXCEPT ![check[e].promo].status = check[e].verdict]
    /\ check' = [check EXCEPT ![e] = Idle]
    /\ UNCHANGED <<api, dep, req, requests, faults, history>>

(* The handler logs a check that raises and answers.                       *)
CheckFails(e) ==
    /\ check[e] # Idle
    /\ faults < MaxFaults
    /\ faults' = faults + 1
    /\ check' = [check EXCEPT ![e] = Idle]
    /\ UNCHANGED <<tables, req, requests, history>>

------------------------------------------------------------------------------
Commit(r) == CommitUpdate(r) \/ CommitDeploy(r) \/ CommitPublish(r) \/ CommitPromote(r) \/ CommitChange(r)

Deploying(r) ==
    /\ \A d \in Deployers : d < r => req[d] # Idle
    /\ \/ \E e \in Environments, force \in BOOLEAN : BeginDeploy(r, e, force) \/ BeginPublish(r, e, force)
       \/ \E c \in Chains, u \in Users, force \in BOOLEAN : BeginPromote(r, c, u, force)

Editing(r) ==
    \/ ValidateDraft(r)
    \/ \E s \in Specs : CreateDraft(r, s) \/ BeginUpdate(r, s)
    \/ \E c \in Chains, u \in Users : BeginCreatePromotion(r, c, u)
    \/ \E p \in DOMAIN promos : \/ BeginComplete(r, p)
                                \/ \E u \in Users : BeginApprove(r, p, u) \/ BeginRollback(r, p, u)

Gateway(e) == \E ok \in BOOLEAN : Acknowledge(e, ok)

Next ==
    \/ \E r \in Slots : ReadTarget(r) \/ Commit(r)
    \/ \E r \in Deployers : Deploying(r)
    \/ \E r \in Editors : Editing(r)
    \/ \E e \in Environments : Gateway(e) \/ LateAck(e) \/ CheckRead(e) \/ CheckWrite(e) \/ CheckFails(e)

Spec == Init /\ [][Next]_vars

(* Requests and checks end; a gateway reports on its routes every poll.    *)
Fairness ==
    /\ \A r \in Slots : WF_vars(ReadTarget(r) \/ Commit(r))
    /\ \A e \in Environments : WF_vars(Gateway(e)) /\ WF_vars(CheckRead(e) \/ CheckWrite(e))

LiveSpec == Spec /\ Fairness

------------------------------------------------------------------------------
(* Properties.                                                             *)

PromotionStatus == {"PENDING", "PROMOTING", "PROMOTED", "FAILED", "ROLLED_BACK"}
Row == [status : {"PENDING", "SYNCED", "ERROR"}, spec : Specs, via : Nat, promo : Nat,
        desired : Nat, synced : Nat]
PromotionRow == [src : Environments, dst : Environments, status : PromotionStatus, by : Users,
                 approved : Users \cup {None}, gateways : BOOLEAN, linked : BOOLEAN]
Publications == [Environments -> Specs \cup {None}]

Request ==
    {Idle} \cup [op : {"update"}, spec : Specs, pubs : Publications]
           \cup [op : {"deploy"}, env : Environments, seen : Row \cup {NoRow}, row : Row]
           \cup [op : {"publish"}, env : Environments, spec : Specs, pubs : Publications, known : BOOLEAN]
           \cup [op : {"chosen"}, chain : Chains, by : Users, force : BOOLEAN, id : Nat,
                 status : PromotionStatus, spec : Specs, known : Nat]
           \cup [op : {"promote"}, chain : Chains, by : Users, force : BOOLEAN, id : Nat,
                 status : PromotionStatus, spec : Specs, known : Nat, seen : Row \cup {NoRow}]
           \cup [op : {"change"}, id : Nat, status : PromotionStatus \cup {None},
                 approved : Users \cup {None}, new : Seq(PromotionRow)]

(* Every variable has the shape its actions rely on.                       *)
TypeOK ==
    /\ api \in [status : {"absent", "draft", "ready"}, spec : Specs \cup {None}, published : BOOLEAN,
                git : BOOLEAN, pubs : Publications]
    /\ dep \in [Environments -> Row \cup {NoRow}]
    /\ promos \in Seq(PromotionRow)
    /\ req \in [Slots -> Request]
    /\ check \in [Environments -> {Idle} \cup [op : {"read"}, promo : Nat]
                                  \cup [op : {"write"}, promo : Nat, verdict : {"PROMOTED", "FAILED"}]]
    /\ requests \in 0 .. MaxRequests /\ faults \in 0 .. MaxFaults
    /\ served \in [Environments -> SUBSET Specs]
    /\ revived \subseteq DOMAIN promos /\ taken \subseteq DOMAIN promos /\ clashed \subseteq Environments

(* What a publication record says is in an environment is a document that  *)
(* environment's gateway has acknowledged, whatever PUT, deployments and   *)
(* acknowledgements do between the checks of publish_to_portal and its     *)
(* commit.  It needs generations to name one document: an environment in   *)
(* which two requests counted on from the same generation is left out.     *)
PublishedWasServed ==
    \A e \in Environments \ clashed : api.pubs[e] # None => api.pubs[e] \in served[e]

(* An open promotion has a row of its own: the deployment row of its       *)
(* target is linked to it.  A promotion that a late write revived after it *)
(* had ended is left out.                                                  *)
OpenPromotionOwnsRow ==
    \A i \in DOMAIN promos \ revived :
        promos[i].linked /\ promos[i].status \in Active => Linked(i) = {promos[i].dst}

(* Promotions revived after their end, and those that lost their row.      *)
Excused == revived \cup taken

(* While a lifecycle promotion is open, the deployment row of its target   *)
(* stays linked to it, and the acknowledgements of that row are what ends  *)
(* the promotion.  Its row is lost only to a promotion that was chosen     *)
(* before this one existed (taken), or in an environment where a           *)
(* generation was overwritten (clashed); promotions that a late write      *)
(* revived after they had ended are left out too.                          *)
OpenPromotionHasRow ==
    \A i \in DOMAIN promos \ Excused :
        promos[i].linked /\ promos[i].status \in Active /\ promos[i].dst \notin clashed =>
            Linked(i) = {promos[i].dst}

==============================================================================
