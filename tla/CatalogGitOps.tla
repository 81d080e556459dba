---------------------------- MODULE CatalogGitOps ----------------------------
(***************************************************************************)
(* One API of the catalog, kept in a Git repository (api.yaml and its      *)
(* OpenAPI sibling) and projected into its api_catalog row.                *)
(*                                                                         *)
(*   - POST /apis commits to Git first and then projects the row           *)
(*     (GitOpsWriter), under an advisory lock it releases before the       *)
(*     request commits its transaction;                                    *)
(*   - a worker lists the repository every few seconds and repairs rows    *)
(*     that differ from it (CatalogReconcilerWorker), remembering the      *)
(*     blobs it has seen, and hands the API to the deployment rows;        *)
(*   - PUT and DELETE /apis change the row and not Git;                    *)
(*   - people commit to the repository by hand.                            *)
(*                                                                         *)
(* Every Git call, query and commit is a step of its own.  The other       *)
(* legacy categories (UUID-shaped names), the backfill script and more     *)
(* than one API are left out: the lock, the cache entry and the row are    *)
(* all per API.                                                            *)
(***************************************************************************)
EXTENDS Naturals, Sequences

CONSTANTS
    Contents,    \* contents of api.yaml that pass validation
    Invalid,     \* a content that does not
    OpenApis,    \* contents of openapi.yaml
    None,        \* no such file; no commit
    Edited,      \* the columns of a row after PUT /apis
    Writers,     \* slots for concurrent POST /apis requests, taken in order
    Worker,      \* the reconciler
    Lost,        \* the holder of a lock nobody releases
    MaxCreates,  \* bound: POST requests
    MaxEvents    \* bound: PUT and DELETE requests, commits by hand, Git errors,
                 \* failed database commits and restarts, all together

ASSUME CatalogValues == /\ None \notin Contents \cup OpenApis \cup {Invalid, Edited}
                        /\ Invalid \notin Contents
                        /\ Edited \notin Contents \cup {Invalid}
                        /\ Writers \subseteq Nat /\ Worker \notin Writers /\ {None, Lost} \cap (Writers \cup {Worker}) = {}
                        /\ Lost # None
ASSUME CatalogBounds == /\ None \notin Nat
                        /\ {MaxCreates, MaxEvents} \subseteq Nat

VARIABLES
    mode,      \* GITOPS_CATALOG_WRITE_MODE: direct, pull_request
    log,       \* log[i]: the tree of commit i on the default branch
    branches,  \* the api.yaml contents for which a release branch holds the file
    row,       \* the committed api_catalog row
    tx,        \* who has flushed the row and not yet committed
    lock,      \* who holds the advisory lock; Lost: a pooled connection kept it
    writer,    \* writer[w]: a run of create_api
    worker,    \* the pass of the worker over this path
    cache,     \* _last_seen_blob_sha of this path
    deployed,  \* what the deployment rows were last asked to serve
    creates, events,
    excused    \* history: the key last stored is not of a content the pass
               \* projected, or PUT or DELETE changed the row since

vars == <<mode, log, branches, row, tx, lock, writer, worker, cache, deployed,
          creates, events, excused>>

Idle == [pc |-> "idle"]
HEAD == log[Len(log)]
Actors == Writers \cup {Worker}

Tree == [api : Contents \cup {Invalid, None}, spec : OpenApis \cup {None}]
Row(a, s, i) == [live |-> TRUE, api |-> a, spec |-> s, commit |-> i]
Absent == [live |-> FALSE, api |-> None, spec |-> None, commit |-> None]

Init ==
    /\ mode \in {"direct", "pull_request"}
    /\ log = <<[api |-> None, spec |-> None]>>
    /\ branches = {}
    /\ row \in {Absent} \cup {Row(a, None, None) : a \in Contents}
    /\ tx = None
    /\ lock = None
    /\ writer = [w \in Writers |-> Idle]
    /\ worker = Idle
    /\ cache = None
    /\ deployed = None
    /\ creates = 0 /\ events = 0
    /\ excused = FALSE

counters == <<creates, events>>

CommitTree(t) == log' = Append(log, t)

(* classify_legacy.  A row with neither path nor commit predates GitOps.   *)
classify_legacy(r, exists) ==
    IF ~r.live THEN "absent"
    ELSE IF r.commit = None THEN "D"
    ELSE IF ~exists THEN "C"
    ELSE "gitops_created"

(* The last commit that touched api.yaml.                                  *)
latest_file_commit ==
    CHOOSE i \in 2 .. Len(log) :
        /\ log[i].api # log[i - 1].api
        /\ \A j \in i + 1 .. Len(log) : log[j].api = log[j - 1].api

------------------------------------------------------------------------------
(* POST /apis: GitOpsWriter.create_api and the handler around it.          *)

(* _check_legacy_collision refuses a pre-GitOps row and an orphan; a Git   *)
(* read that fails counts as a missing file and refuses too.               *)
BeginCreate(w, p) ==
    /\ writer[w] = Idle
    /\ \A v \in Writers : v < w => writer[v] # Idle
    /\ creates < MaxCreates
    /\ classify_legacy(row, HEAD.api # None) \notin {"C", "D"}
    /\ writer' = [writer EXCEPT ![w] = [pc |-> "lock", want |-> p, tries |-> 0]]
    /\ creates' = creates + 1
    /\ UNCHANGED <<mode, log, branches, row, tx, lock, worker, cache, deployed, events, excused>>

(* pg_advisory_lock blocks.                                                *)
AcquireLock(w) ==
    /\ writer[w].pc = "lock"
    /\ lock = None
    /\ lock' = w
    /\ writer' = [writer EXCEPT ![w].pc = "get"]
    /\ UNCHANGED <<mode, log, branches, row, tx, worker, cache, deployed, counters, excused>>

(* Faulty: a refused create keeps the lock.                                *)
GetFileKeepingLock(w) ==
    LET found == HEAD.api IN
    /\ writer[w].pc = "get"
    /\ writer' = [writer EXCEPT ![w] =
                    IF found = None THEN [@ EXCEPT !.pc = "create"]
                    ELSE IF found = writer[w].want.api THEN [@ EXCEPT !.pc = "latest"]
                    ELSE Idle]
    /\ UNCHANGED <<mode, log, branches, row, tx, lock, worker, cache, deployed, counters, excused>>

(* The read of _commit_or_noop: case A goes on to create the file, case B  *)
(* (same content) is a no-op, case C is refused.                           *)
GetFile(w) ==
    LET found == HEAD.api IN
    /\ writer[w].pc = "get"
    /\ \/ /\ found = None
          /\ writer' = [writer EXCEPT ![w].pc = "create"]
          /\ UNCHANGED lock
       \/ /\ found = writer[w].want.api
          /\ writer' = [writer EXCEPT ![w].pc = "latest"]
          /\ UNCHANGED lock
       \/ /\ found \notin {None, writer[w].want.api}
          /\ writer' = [writer EXCEPT ![w] = Idle]
          /\ lock' = None
    /\ UNCHANGED <<mode, log, branches, row, tx, worker, cache, deployed, counters, excused>>

(* Faulty: an idempotent create never commits its OpenAPI document.        *)
LatestFileCommitOnly(w) ==
    /\ writer[w].pc = "latest"
    /\ writer' = [writer EXCEPT ![w] = [pc |-> "select", want |-> writer[w].want,
                                        at |-> latest_file_commit]]
    /\ UNCHANGED <<mode, log, branches, row, tx, lock, worker, cache, deployed, counters, excused>>

(* Case B asks for the last commit of the file, which may be a newer one;  *)
(* pull_request mode leaves the OpenAPI file alone here.                   *)
LatestFileCommit(w) ==
    /\ writer[w].pc = "latest"
    /\ writer' = [writer EXCEPT ![w] = [pc |-> IF mode = "direct" THEN "spec" ELSE "select",
                                        want |-> writer[w].want, at |-> latest_file_commit]]
    /\ UNCHANGED <<mode, log, branches, row, tx, lock, worker, cache, deployed, counters, excused>>

(* create_or_update with no expected blob: Git refuses it when the file    *)
(* has appeared meanwhile, and the writer reads again, MAX_RACE_RETRIES    *)
(* times in all.                                                           *)
MAX_RACE_RETRIES == 3

(* Faulty: an update in place of the conditional create.                   *)
CreateFileAnyway(w) ==
    /\ mode = "direct"
    /\ writer[w].pc = "create"
    /\ CommitTree([HEAD EXCEPT !.api = writer[w].want.api])
    /\ writer' = [writer EXCEPT ![w] = [pc |-> "spec", want |-> writer[w].want, at |-> Len(log) + 1]]
    /\ UNCHANGED <<mode, branches, row, tx, lock, worker, cache, deployed, counters, excused>>

CreateFile(w) ==
    /\ mode = "direct"
    /\ writer[w].pc = "create"
    /\ IF HEAD.api = None
       THEN /\ CommitTree([HEAD EXCEPT !.api = writer[w].want.api])
            /\ writer' = [writer EXCEPT ![w] = [pc |-> "spec", want |-> writer[w].want,
                                                at |-> Len(log) + 1]]
            /\ UNCHANGED lock
       ELSE /\ writer' = [writer EXCEPT ![w] =
                            IF writer[w].tries + 1 < MAX_RACE_RETRIES
                            THEN [writer[w] EXCEPT !.pc = "get", !.tries = writer[w].tries + 1]
                            ELSE Idle]
            /\ lock' = IF writer[w].tries + 1 < MAX_RACE_RETRIES THEN lock ELSE None
            /\ UNCHANGED log
    /\ UNCHANGED <<mode, branches, row, tx, worker, cache, deployed, counters, excused>>

(* pull_request mode.  create_branch accepts a branch that exists, but the *)
(* file it holds since then, or an OpenAPI file on the default branch,     *)
(* makes the unconditional create_or_update raise.                         *)
OpenPullRequest(w) ==
    /\ mode = "pull_request"
    /\ writer[w].pc = "create"
    /\ branches' = branches \cup {writer[w].want.api}
    /\ IF writer[w].want.api \notin branches /\ HEAD.spec = None
       THEN writer' = [writer EXCEPT ![w].pc = "merge"] /\ UNCHANGED lock
       ELSE writer' = [writer EXCEPT ![w] = Idle] /\ lock' = None
    /\ UNCHANGED <<mode, log, row, tx, worker, cache, deployed, counters, excused>>

(* The squash merge makes one commit; a file that has appeared meanwhile   *)
(* is a conflict, which raises.                                            *)
MergePullRequest(w) ==
    /\ writer[w].pc = "merge"
    /\ IF HEAD = [api |-> None, spec |-> None]
       THEN /\ CommitTree(writer[w].want)
            /\ writer' = [writer EXCEPT ![w] = [pc |-> "select", want |-> writer[w].want,
                                                at |-> Len(log) + 1]]
            /\ UNCHANGED lock
       ELSE /\ writer' = [writer EXCEPT ![w] = Idle]
            /\ lock' = None
            /\ UNCHANGED log
    /\ UNCHANGED <<mode, branches, row, tx, worker, cache, deployed, counters, excused>>

(* _commit_openapi_spec: nothing when the file is already so.  Its write   *)
(* is conditional on the blob it read, and a conflict raises (CreateFails). *)
CommitOpenApi(w) ==
    /\ writer[w].pc = "spec"
    /\ IF HEAD.spec = writer[w].want.spec THEN UNCHANGED log
       ELSE CommitTree([HEAD EXCEPT !.spec = writer[w].want.spec])
    /\ writer' = [writer EXCEPT ![w].pc = "select"]
    /\ UNCHANGED <<mode, branches, row, tx, lock, worker, cache, deployed, counters, excused>>

(* Faulty: a commit without the file is projected.                         *)
SelectRowUnread(w) ==
    /\ writer[w].pc = "select"
    /\ writer' = [writer EXCEPT ![w] =
                    [pc |-> "flush", insert |-> ~row.live,
                     img |-> Row(log[writer[w].at].api, writer[w].want.spec, writer[w].at)]]
    /\ UNCHANGED <<mode, log, branches, row, tx, lock, worker, cache, deployed, counters, excused>>

(* Faulty: the payload is projected, not what the commit holds.            *)
SelectRowOfPayload(w) ==
    /\ writer[w].pc = "select"
    /\ writer' = [writer EXCEPT ![w] =
                    [pc |-> "flush", insert |-> ~row.live,
                     img |-> Row(writer[w].want.api, writer[w].want.spec, writer[w].at)]]
    /\ UNCHANGED <<mode, log, branches, row, tx, lock, worker, cache, deployed, counters, excused>>

(* read_at_commit, render and the look-up of project_to_api_catalog; a     *)
(* file that is gone or malformed in that commit raises.                   *)
SelectRow(w) ==
    LET committed == log[writer[w].at].api IN
    /\ writer[w].pc = "select"
    /\ IF committed \in Contents
       THEN /\ writer' = [writer EXCEPT ![w] =
                            [pc |-> "flush", insert |-> ~row.live,
                             img |-> Row(committed, writer[w].want.spec, writer[w].at)]]
            /\ UNCHANGED lock
       ELSE /\ writer' = [writer EXCEPT ![w] = Idle]
            /\ lock' = None
    /\ UNCHANGED <<mode, log, branches, row, tx, worker, cache, deployed, counters, excused>>

(* The INSERT or UPDATE waits for whoever has the row.  An INSERT that     *)
(* finds a live row committed since violates ix_api_catalog_tenant_api_    *)
(* active; in the aborted transaction the unlock fails too, and the pooled *)
(* connection keeps the lock.                                              *)
FlushRow(w) ==
    /\ writer[w].pc = "flush"
    /\ tx = None
    /\ IF writer[w].insert /\ row.live
       THEN /\ lock' = Lost
            /\ writer' = [writer EXCEPT ![w] = Idle]
            /\ UNCHANGED tx
       ELSE /\ tx' = w
            /\ writer' = [writer EXCEPT ![w].pc = "unlock"]
            /\ UNCHANGED lock
    /\ UNCHANGED <<mode, log, branches, row, worker, cache, deployed, counters, excused>>

ReleaseLock(w) ==
    /\ writer[w].pc = "unlock"
    /\ lock' = None
    /\ writer' = [writer EXCEPT ![w].pc = "commit"]
    /\ UNCHANGED <<mode, log, branches, row, tx, worker, cache, deployed, counters, excused>>

CommitCreate(w) ==
    /\ writer[w].pc = "commit"
    /\ row' = IF ~row.live /\ ~writer[w].insert THEN row ELSE writer[w].img
    /\ tx' = None
    /\ writer' = [writer EXCEPT ![w] = Idle]
    /\ UNCHANGED <<mode, log, branches, lock, worker, cache, deployed, counters, excused>>

(* A Git call of the locked section raises, or the final commit fails.     *)
CreateFails(w) ==
    /\ events < MaxEvents
    /\ events' = events + 1
    /\ \/ /\ writer[w].pc \in {"get", "latest", "create", "merge", "spec", "select"}
          /\ lock' = None
          /\ UNCHANGED tx
       \/ /\ writer[w].pc = "commit"
          /\ tx' = None
          /\ UNCHANGED lock
    /\ writer' = [writer EXCEPT ![w] = Idle]
    /\ UNCHANGED <<mode, log, branches, row, worker, cache, deployed, creates, excused>>

(* SQLAlchemy recycles the connection that kept the lock.                  *)
RecycleConnection ==
    /\ lock = Lost
    /\ lock' = None
    /\ UNCHANGED <<mode, log, branches, row, tx, writer, worker, cache, deployed, counters, excused>>

------------------------------------------------------------------------------
(* The worker's pass over the path: _reconcile_iteration,                  *)
(* _reconcile_one_path, _reconcile_db_row.                                 *)

(* The listing of api.yaml files; a path that is gone leaves the cache.    *)
ListFiles ==
    /\ worker = Idle
    /\ IF HEAD.api = None
       THEN cache' = None /\ UNCHANGED worker
       ELSE worker' = [pc |-> "listed", api |-> HEAD.api, commit |-> Len(log)] /\ UNCHANGED cache
    /\ UNCHANGED <<mode, log, branches, row, tx, lock, writer, deployed, counters, excused>>

(* Faulty: the key is stored before the path is reconciled.                *)
ListOpenApiRemembering ==
    LET key == <<worker.api, HEAD.spec>> IN
    /\ worker.pc = "listed"
    /\ worker' = IF cache = key THEN Idle
                 ELSE [pc |-> "get", key |-> key, commit |-> worker.commit]
    /\ cache' = key
    /\ UNCHANGED <<mode, log, branches, row, tx, lock, writer, deployed, counters, excused>>

(* The listing of OpenAPI siblings gives _source_cache_key; a key seen     *)
(* before ends the pass.                                                   *)
ListOpenApi ==
    LET key == <<worker.api, HEAD.spec>> IN
    /\ worker.pc = "listed"
    /\ worker' = IF cache = key THEN Idle
                 ELSE [pc |-> "get", key |-> key, commit |-> worker.commit]
    /\ UNCHANGED <<mode, log, branches, row, tx, lock, writer, cache, deployed, counters, excused>>

(* A pass that returns without raising stores the key of the listing,      *)
(* whatever it read later and whatever it did.                             *)
Remember(ex) ==
    /\ worker' = Idle
    /\ cache' = worker.key
    /\ excused' = ex

(* get(api.yaml) reads HEAD, not the commit of the listing.  A vanished or *)
(* malformed file ends the pass.                                           *)
GetApiYaml ==
    /\ worker.pc = "get"
    /\ IF HEAD.api \in Contents
       THEN /\ worker' = [pc |-> "spec", key |-> worker.key, commit |-> worker.commit, api |-> HEAD.api]
            /\ UNCHANGED <<cache, excused>>
       ELSE Remember(TRUE)
    /\ UNCHANGED <<mode, log, branches, row, tx, lock, writer, deployed, counters>>

(* _load_openapi_spec: nothing unless the listing had a sibling.           *)
LoadOpenApi ==
    /\ worker.pc = "spec"
    /\ worker' = [pc |-> "row", key |-> worker.key,
                  img |-> Row(worker.api, IF worker.key[2] = None THEN None ELSE HEAD.spec,
                              worker.commit)]
    /\ UNCHANGED <<mode, log, branches, row, tx, lock, writer, cache, deployed, counters, excused>>

(* The decision of _reconcile_db_row: a pre-GitOps row is only reported, a *)
(* row that matches is only handed to CatalogDeploymentReconciler.         *)
ReadRow ==
    LET kind == classify_legacy(row, TRUE) IN
    /\ worker.pc = "row"
    /\ \/ /\ kind = "D"
          /\ Remember(TRUE)
          /\ UNCHANGED deployed
       \/ /\ kind # "D" /\ row = worker.img
          /\ Remember(row.api # worker.key[1])
          /\ deployed' = row.api
       \/ /\ kind # "D" /\ row # worker.img
          /\ worker' = [worker EXCEPT !.pc = "trylock"]
          /\ UNCHANGED <<cache, deployed, excused>>
    /\ UNCHANGED <<mode, log, branches, row, tx, lock, writer, counters>>

(* Faulty: the worker goes on without the lock.                            *)
TryLockIgnored ==
    /\ worker.pc = "trylock"
    /\ worker' = [pc |-> "flush", key |-> worker.key, img |-> worker.img, insert |-> ~row.live]
    /\ UNCHANGED <<mode, log, branches, row, tx, lock, writer, cache, deployed, counters, excused>>

(* pg_try_advisory_xact_lock does not wait: a busy lock ends the pass.     *)
TryLock ==
    /\ worker.pc = "trylock"
    /\ IF lock = None
       THEN /\ lock' = Worker
            /\ worker' = [pc |-> "flush", key |-> worker.key, img |-> worker.img, insert |-> ~row.live]
            /\ UNCHANGED <<cache, excused>>
       ELSE /\ Remember(TRUE)
            /\ UNCHANGED lock
    /\ UNCHANGED <<mode, log, branches, row, tx, writer, deployed, counters>>

(* A unique violation raises: the transaction and its lock end, the key is *)
(* not stored.                                                             *)
WorkerFlush ==
    /\ worker.pc = "flush"
    /\ tx = None
    /\ IF worker.insert /\ row.live
       THEN worker' = Idle /\ lock' = None /\ UNCHANGED tx
       ELSE worker' = [worker EXCEPT !.pc = "commit"] /\ tx' = Worker /\ UNCHANGED lock
    /\ UNCHANGED <<mode, log, branches, row, writer, cache, deployed, counters, excused>>

(* The projection and the deployment rows are one transaction, and the     *)
(* lock ends with it.  An UPDATE of a row deleted since leaves it deleted, *)
(* and then there is nothing to deploy.                                    *)
WorkerCommit ==
    LET gone == ~row.live /\ ~worker.insert IN
    /\ worker.pc = "commit"
    /\ row' = IF gone THEN row ELSE worker.img
    /\ deployed' = IF gone THEN deployed ELSE worker.img.api
    /\ tx' = None
    /\ lock' = None
    /\ Remember(gone \/ worker.img.api # worker.key[1])
    /\ UNCHANGED <<mode, log, branches, writer, counters>>

(* A Git or database call of the pass raises: nothing is stored.           *)
WorkerFails ==
    /\ worker # Idle
    /\ events < MaxEvents
    /\ events' = events + 1
    /\ worker' = Idle
    /\ lock' = IF lock = Worker THEN None ELSE lock
    /\ tx' = IF tx = Worker THEN None ELSE tx
    /\ UNCHANGED <<mode, log, branches, row, writer, cache, deployed, creates, excused>>

------------------------------------------------------------------------------
(* Everything else.                                                        *)

(* PUT /apis changes the row only.                                         *)
UpdateApi ==
    /\ events < MaxEvents
    /\ tx = None
    /\ row.live
    /\ row' = [row EXCEPT !.api = Edited]
    /\ events' = events + 1
    /\ excused' = TRUE
    /\ UNCHANGED <<mode, log, branches, tx, lock, writer, worker, cache, deployed, creates>>

(* DELETE /apis sets deleted_at, and Git keeps the file.                   *)
DeleteApi ==
    /\ events < MaxEvents
    /\ tx = None
    /\ row.live
    /\ row' = Absent
    /\ events' = events + 1
    /\ excused' = TRUE
    /\ UNCHANGED <<mode, log, branches, tx, lock, writer, worker, cache, deployed, creates>>

(* Somebody commits to the repository.                                     *)
EditGit(t) ==
    /\ events < MaxEvents
    /\ t # HEAD
    /\ CommitTree(t)
    /\ events' = events + 1
    /\ UNCHANGED <<mode, branches, row, tx, lock, writer, worker, cache, deployed, creates, excused>>

(* The control plane restarts: requests, the worker's pass and its cache   *)
(* are gone, its connections close.                                        *)
Restart ==
    /\ events < MaxEvents
    /\ events' = events + 1
    /\ writer' = [w \in Writers |-> Idle]
    /\ worker' = Idle
    /\ tx' = None
    /\ lock' = None
    /\ cache' = None
    /\ UNCHANGED <<mode, log, branches, row, deployed, creates, excused>>

WriterStep(w) ==
    \/ AcquireLock(w) \/ GetFile(w) \/ LatestFileCommit(w) \/ CreateFile(w) \/ OpenPullRequest(w)
    \/ MergePullRequest(w) \/ CommitOpenApi(w) \/ SelectRow(w) \/ FlushRow(w) \/ ReleaseLock(w) \/ CommitCreate(w)

WorkerStep ==
    \/ ListFiles \/ ListOpenApi \/ GetApiYaml \/ LoadOpenApi \/ ReadRow
    \/ TryLock \/ WorkerFlush \/ WorkerCommit

Next ==
    \/ \E w \in Writers : \/ \E p \in [api : Contents, spec : OpenApis] : BeginCreate(w, p)
                          \/ WriterStep(w)
                          \/ CreateFails(w)
    \/ RecycleConnection
    \/ WorkerStep
    \/ WorkerFails
    \/ UpdateApi
    \/ DeleteApi
    \/ \E t \in Tree : EditGit(t)
    \/ Restart

Spec == Init /\ [][Next]_vars

(* A request runs to its end, pg_advisory_lock queues its waiters, the     *)
(* worker's loop never stops, and the pool recycles connections.           *)
Fairness ==
    /\ \A w \in Writers : WF_vars(WriterStep(w)) /\ SF_vars(AcquireLock(w))
    /\ WF_vars(WorkerStep)
    /\ WF_vars(RecycleConnection)

LiveSpec == Spec /\ Fairness

------------------------------------------------------------------------------
(* Properties.                                                             *)

Commits == Nat \ {0}
Image == [live : {TRUE}, api : Contents, spec : OpenApis \cup {None}, commit : Commits]
Payload == [api : Contents, spec : OpenApis]

WriterState ==
    {Idle} \cup [pc : {"lock", "get", "latest", "create", "merge"}, want : Payload,
                 tries : 0 .. MAX_RACE_RETRIES - 1]
           \cup [pc : {"spec", "select"}, want : Payload, at : Commits]
           \cup [pc : {"flush", "unlock", "commit"}, insert : BOOLEAN, img : Image]

Key == (Contents \cup {Invalid}) \X (OpenApis \cup {None})

WorkerState ==
    {Idle} \cup [pc : {"listed"}, api : Contents \cup {Invalid}, commit : Commits]
           \cup [pc : {"get"}, key : Key, commit : Commits]
           \cup [pc : {"spec"}, key : Key, commit : Commits, api : Contents]
           \cup [pc : {"row", "trylock"}, key : Key, img : Image]
           \cup [pc : {"flush", "commit"}, key : Key, img : Image, insert : BOOLEAN]

(* Every variable has the shape its actions rely on.                       *)
TypeOK ==
    /\ mode \in {"direct", "pull_request"}
    /\ log \in Seq(Tree) /\ Len(log) \in Commits
    /\ branches \subseteq Contents
    /\ row \in {Absent} \cup [live : {TRUE}, api : Contents \cup {Edited},
                              spec : OpenApis \cup {None}, commit : Commits \cup {None}]
    /\ tx \in Actors \cup {None}
    /\ lock \in Actors \cup {None, Lost}
    /\ writer \in [Writers -> WriterState]
    /\ worker \in WorkerState
    /\ cache \in Key \cup {None}
    /\ deployed \in Contents \cup {Edited, None}
    /\ creates \in 0 .. MaxCreates /\ events \in 0 .. MaxEvents
    /\ excused \in BOOLEAN

(* Was content c in api.yaml in commit i or later?                         *)
CommittedSince(c, i) == \E j \in i .. Len(log) : log[j].api = c

(* Git-first: whatever the order of requests, passes and commits, the      *)
(* columns of a projected row were in api.yaml in the commit the row names *)
(* or a later one, unless PUT changed them since.                          *)
ProjectsCommitted ==
    row.live /\ row.commit # None /\ row.api # Edited => CommittedSince(row.api, row.commit)

(* The OpenAPI document of a projected row is one Git has had since the    *)
(* commit the row names.  Direct mode only: in pull_request mode a create  *)
(* that finds its api.yaml in Git projects the document of the request and *)
(* commits it nowhere.                                                     *)
SpecFromGit ==
    mode = "direct" /\ row.live /\ row.commit # None =>
        row.spec = None \/ \E j \in row.commit .. Len(log) : log[j].spec = row.spec

(* POST /apis changes no api.yaml: it creates the file or leaves it, also  *)
(* when the file appears between its read and its write.                   *)
CreateNeverOverwrites ==
    [][\A w \in Writers : WriterStep(w) => HEAD'.api = HEAD.api \/ HEAD.api = None]_vars

(* The advisory lock covers the read of Git and the write of the row: the  *)
(* transaction of a create never puts a row back to a content that Git had *)
(* left before the commit the row already named.                           *)
CreateNeverRegresses ==
    [][\A w \in Writers :
          CommitCreate(w) /\ row.live /\ row.commit # None =>
              CommittedSince(writer[w].img.api, row.commit)]_vars

(* No POST waits for ever: the lock, also one kept by a pooled connection, *)
(* and the row come free.                                                  *)
CreatesFinish == \A w \in Writers : writer[w].pc # "idle" ~> writer[w].pc = "idle"

(* The row and the deployment rows end up as Git has the API, unless the   *)
(* row predates GitOps, Git has no valid file, or the worker stored a key  *)
(* for a content it did not project (lock taken, file changed under it) or *)
(* PUT or DELETE changed the row behind it.                                *)
FollowsGit ==
    <>[](\/ HEAD.api \notin Contents
         \/ row.live /\ row.commit = None
         \/ excused
         \/ row.live /\ row.api = HEAD.api /\ deployed = HEAD.api)
==============================================================================
