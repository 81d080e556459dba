------------------------- MODULE CatalogGitOps_proofs -------------------------
(***************************************************************************)
(* Proofs about the GitOps catalog: types, what a projected row shows, and *)
(* what a create may do to Git and to the row.                             *)
(***************************************************************************)
EXTENDS CatalogGitOps, TLAPS

(* The default branch starts without the file.  Once it has had one, there *)
(* is a last commit that changed it, and nothing changed it after.         *)
Changed(i) == i \in 2 .. Len(log) /\ log[i].api # log[i - 1].api /\ \A j \in i .. Len(log) : log[j].api = HEAD.api
LogSound == (\A i \in 1 .. Len(log) : log[i].api = None) \/ \E i \in 2 .. Len(log) : Changed(i)

(* Content c of the OpenAPI file was in Git in commit i or later.          *)
SpecSince(c, i) == \E j \in i .. Len(log) : log[j].spec = c

(* An image names a commit Git has, and shows contents Git had since then. *)
ImageSound(m) ==
    /\ m.commit \in 1 .. Len(log)
    /\ CommittedSince(m.api, m.commit)
    /\ mode = "direct" => m.spec = None \/ SpecSince(m.spec, m.commit)

WriterSound(w) ==
    /\ writer[w].pc = "latest" => \E i \in 1 .. Len(log) : log[i].api # None
    /\ writer[w].pc = "merge" => mode = "pull_request"
    /\ writer[w].pc \in {"spec", "select"} => writer[w].at \in 1 .. Len(log)
    /\ writer[w].pc = "select" /\ mode = "direct" => SpecSince(writer[w].want.spec, writer[w].at)
    /\ writer[w].pc \in {"flush", "unlock", "commit"} => ImageSound(writer[w].img)

WorkerSound ==
    /\ worker.pc \in {"listed", "get", "spec"} => worker.commit \in 1 .. Len(log)
    /\ worker.pc = "spec" => CommittedSince(worker.api, worker.commit)
    /\ worker.pc \in {"row", "trylock", "flush", "commit"} => ImageSound(worker.img)

RowSound ==
    /\ row.live /\ row.commit # None => row.commit \in 1 .. Len(log)
    /\ ProjectsCommitted
    /\ SpecFromGit

GitInvariant ==
    /\ LogSound
    /\ \A w \in Writers : WriterSound(w)
    /\ WorkerSound
    /\ RowSound

(* The advisory lock and the transaction belong to who is in the section.  *)
Locked == {"get", "latest", "create", "merge", "spec", "select", "flush", "unlock"}
Locking ==
    /\ \A w \in Writers : writer[w].pc \in Locked => lock = w
    /\ \A w \in Writers : writer[w].pc \in {"unlock", "commit"} => tx = w
    /\ worker.pc \in {"flush", "commit"} => lock = Worker
    /\ worker.pc = "commit" => tx = Worker

(* What writer w read of Git is in c; it is no older than any commit that  *)
(* the row names or that a transaction before it will give the row.        *)
Fresh(c, w) ==
    /\ row.live /\ row.commit # None => CommittedSince(c, row.commit)
    /\ \A v \in Writers \ {w} : writer[v].pc = "commit" => CommittedSince(c, writer[v].img.commit)

(* The freshness of one writer.                                            *)
WriterFresh(w) ==
    /\ writer[w].pc \in {"spec", "select"} => Fresh(log[writer[w].at].api, w)
    /\ writer[w].pc \in {"flush", "unlock", "commit"} => Fresh(writer[w].img.api, w)

Freshness == \A w \in Writers : WriterFresh(w)

-----------------------------------------------------------------------------
(* Types.                                                                  *)

Early == [pc : {"lock", "get", "latest", "create", "merge"}, want : Payload,
          tries : 0 .. MAX_RACE_RETRIES - 1]
Middle == [pc : {"spec", "select"}, want : Payload, at : Commits]
Late == [pc : {"flush", "unlock", "commit"}, insert : BOOLEAN, img : Image]

Listed == [pc : {"listed"}, api : Contents \cup {Invalid}, commit : Commits]
Getting == [pc : {"get"}, key : Key, commit : Commits]
Loading == [pc : {"spec"}, key : Key, commit : Commits, api : Contents]
Deciding == [pc : {"row", "trylock"}, key : Key, img : Image]
Writing == [pc : {"flush", "commit"}, key : Key, img : Image, insert : BOOLEAN]

LiveRows == [live : {TRUE}, api : Contents \cup {Edited}, spec : OpenApis \cup {None},
             commit : Commits \cup {None}]

(* The pc of a writer gives the rest of its shape.                         *)
LEMMA WriterShape ==
    ASSUME TypeOK, NEW w \in Writers
    PROVE  /\ writer[w] \in WriterState
           /\ writer[w].pc = "idle" <=> writer[w] = Idle
           /\ writer[w].pc \in {"lock", "get", "latest", "create", "merge"} <=> writer[w] \in Early
           /\ writer[w].pc \in {"spec", "select"} <=> writer[w] \in Middle
           /\ writer[w].pc \in {"flush", "unlock", "commit"} <=> writer[w] \in Late
<1>1. writer[w] \in {Idle} \cup Early \cup Middle \cup Late
  BY DEF TypeOK, WriterState, Early, Middle, Late
<1>2. CASE writer[w] = Idle
  BY <1>1, <1>2 DEF TypeOK, Idle, Early, Middle, Late
<1>3. CASE writer[w] \in Early
  BY <1>1, <1>3 DEF TypeOK, Idle, Early, Middle, Late
<1>4. CASE writer[w] \in Middle
  BY <1>1, <1>4 DEF TypeOK, Idle, Early, Middle, Late
<1>5. CASE writer[w] \in Late
  BY <1>1, <1>5 DEF TypeOK, Idle, Early, Middle, Late
<1> QED BY <1>1, <1>2, <1>3, <1>4, <1>5

(* So does the worker's.                                                   *)
LEMMA WorkerShape ==
    ASSUME TypeOK
    PROVE  /\ worker.pc = "idle" <=> worker = Idle
           /\ worker.pc = "listed" <=> worker \in Listed
           /\ worker.pc = "get" <=> worker \in Getting
           /\ worker.pc = "spec" <=> worker \in Loading
           /\ worker.pc \in {"row", "trylock"} <=> worker \in Deciding
           /\ worker.pc \in {"flush", "commit"} <=> worker \in Writing
<1>1. worker \in {Idle} \cup Listed \cup Getting \cup Loading \cup Deciding \cup Writing
  BY DEF TypeOK, WorkerState, Listed, Getting, Loading, Deciding, Writing
<1>2. CASE worker = Idle
  BY <1>2 DEF Idle, Listed, Getting, Loading, Deciding, Writing
<1>3. CASE worker \in Listed
  BY <1>3 DEF Idle, Listed, Getting, Loading, Deciding, Writing
<1>4. CASE worker \in Getting
  BY <1>4 DEF Idle, Listed, Getting, Loading, Deciding, Writing
<1>5. CASE worker \in Loading
  BY <1>5 DEF Idle, Listed, Getting, Loading, Deciding, Writing
<1>6. CASE worker \in Deciding
  BY <1>6 DEF Idle, Listed, Getting, Loading, Deciding, Writing
<1>7. CASE worker \in Writing
  BY <1>7 DEF Idle, Listed, Getting, Loading, Deciding, Writing
<1> QED BY <1>1, <1>2, <1>3, <1>4, <1>5, <1>6, <1>7

(* The states of a create, by how far it has come.                         *)
LEMMA WriterParts == WriterState = {Idle} \cup Early \cup Middle \cup Late
BY DEF WriterState, Early, Middle, Late

(* The states of the reconciler, by how far it has come.                   *)
LEMMA WorkerParts ==
    WorkerState = {Idle} \cup Listed \cup Getting \cup Loading \cup Deciding \cup Writing
BY DEF WorkerState, Listed, Getting, Loading, Deciding, Writing

(* A writer that goes on within its phase keeps its type.                  *)
LEMMA PcType ==
    /\ \A q \in Early, c \in {"lock", "get", "latest", "create", "merge"} : [q EXCEPT !.pc = c] \in Early
    /\ \A q \in Middle, c \in {"spec", "select"} : [q EXCEPT !.pc = c] \in Middle
    /\ \A q \in Late, c \in {"flush", "unlock", "commit"} : [q EXCEPT !.pc = c] \in Late
BY DEF Early, Middle, Late

(* Replacing the state of one create leaves the others alone.              *)
LEMMA WriterReplaced ==
    ASSUME TypeOK, NEW w \in Writers, NEW q \in WriterState
    PROVE  /\ [writer EXCEPT ![w] = q] \in [Writers -> WriterState]
           /\ [writer EXCEPT ![w] = q][w] = q
           /\ \A v \in Writers \ {w} : [writer EXCEPT ![w] = q][v] = writer[v]
BY DEF TypeOK

(* What the repository shows.                                              *)
LEMMA HeadType ==
    ASSUME TypeOK
    PROVE  /\ HEAD \in Tree /\ Len(log) \in Commits
           /\ \A i \in 1 .. Len(log) : log[i] \in Tree
           /\ \A c \in Contents : [HEAD EXCEPT !.api = c] \in Tree
           /\ \A c \in OpenApis : [HEAD EXCEPT !.spec = c] \in Tree
           /\ HEAD.api \in Contents \cup {Invalid, None} /\ HEAD.spec \in OpenApis \cup {None}
<1>1. Len(log) \in Nat \ {0} /\ log \in Seq(Tree)
  BY DEF TypeOK, Commits
<1>2. HEAD \in Tree /\ \A i \in 1 .. Len(log) : log[i] \in Tree
  BY <1>1 DEF HEAD
<1>3. HEAD.api \in Contents \cup {Invalid, None} /\ HEAD.spec \in OpenApis \cup {None}
  BY <1>2 DEF Tree
<1>4. \A c \in Contents : [HEAD EXCEPT !.api = c] \in Tree
  BY <1>2 DEF Tree
<1>5. \A c \in OpenApis : [HEAD EXCEPT !.spec = c] \in Tree
  BY <1>2 DEF Tree
<1> QED BY <1>1, <1>2, <1>3, <1>4, <1>5 DEF Commits

(* Every commit stays in the history.                                      *)
Extends(new) ==
    /\ new \in Seq(Tree) /\ Len(new) \in Commits /\ Len(log) <= Len(new)
    /\ \A i \in 1 .. Len(log) : new[i] = log[i]

(* A commit extends the log by one tree.                                   *)
LEMMA Appended ==
    ASSUME TypeOK, NEW t \in Tree
    PROVE  /\ Extends(Append(log, t))
           /\ Len(Append(log, t)) = Len(log) + 1
           /\ Append(log, t)[Len(log) + 1] = t
<1>1. Len(log) \in Nat \ {0} /\ log \in Seq(Tree)
  BY DEF TypeOK, Commits
<1>2. Append(log, t) \in Seq(Tree) /\ Len(Append(log, t)) = Len(log) + 1
  BY <1>1
<1>3. Append(log, t)[Len(log) + 1] = t /\ \A i \in 1 .. Len(log) : Append(log, t)[i] = log[i]
  BY <1>1
<1> QED BY <1>1, <1>2, <1>3 DEF Extends, Commits

(* A log extends itself.                                                   *)
LEMMA Unextended == TypeOK => Extends(log)
BY DEF TypeOK, Extends, Commits

(* latest_file_commit is well defined: it is the last commit that changed  *)
(* the file, and HEAD still has what it wrote.                             *)
LEMMA LatestFound ==
    ASSUME TypeOK, LogSound, \E i \in 1 .. Len(log) : log[i].api # None
    PROVE  latest_file_commit \in 2 .. Len(log) /\ log[latest_file_commit].api = HEAD.api
<1> DEFINE Last(i) == /\ log[i].api # log[i - 1].api
                      /\ \A j \in i + 1 .. Len(log) : log[j].api = log[j - 1].api
<1>1. PICK k \in 2 .. Len(log) : Changed(k)
  BY DEF LogSound
<1>2. Len(log) \in Nat
  BY DEF TypeOK, Commits
<1>3. Last(k)
  <2>1. ASSUME NEW j \in k + 1 .. Len(log) PROVE log[j].api = log[j - 1].api
    <3>1. j \in k .. Len(log) /\ j - 1 \in k .. Len(log)
      BY <1>2
    <3> QED BY <1>1, <3>1 DEF Changed
  <2> QED BY <1>1, <2>1 DEF Changed
<1>4. \A i \in 2 .. Len(log) : Last(i) => i = k
  <2> SUFFICES ASSUME NEW i \in 2 .. Len(log), Last(i), i # k PROVE FALSE
    OBVIOUS
  <2>1. CASE i < k
    <3>1. k \in i + 1 .. Len(log)
      BY <1>2, <2>1
    <3> QED BY <1>3, <3>1
  <2>2. CASE i > k
    <3>1. i \in k .. Len(log) /\ i - 1 \in k .. Len(log)
      BY <1>2, <2>2
    <3> QED BY <1>1, <3>1 DEF Changed
  <2> QED BY <1>2, <2>1, <2>2
<1>5. latest_file_commit = CHOOSE i \in 2 .. Len(log) : Last(i)
  BY DEF latest_file_commit
<1> HIDE DEF Last
<1>6. latest_file_commit = k
  BY <1>3, <1>4, <1>5
<1>7. k \in k .. Len(log)
  BY <1>2
<1> QED BY <1>1, <1>6, <1>7 DEF Changed

(* A writer's step replaces its own state, and may add a commit.           *)
LEMMA WriterMoves ==
    ASSUME TypeOK, NEW w \in Writers, NEW q \in WriterState, writer' = [writer EXCEPT ![w] = q],
           Extends(log'), branches' \subseteq Contents, tx' \in {tx, w, None}, lock' \in {lock, w, None, Lost},
           UNCHANGED <<mode, worker, cache, deployed, excused>>,
           row' \in {Absent} \cup LiveRows, creates' \in 0 .. MaxCreates, events' \in 0 .. MaxEvents
    PROVE  TypeOK'
BY WriterReplaced DEF TypeOK, Extends, Actors, LiveRows

(* The types of the row and of the two counters.                           *)
LEMMA RowType == TypeOK => row \in {Absent} \cup LiveRows /\ creates \in 0 .. MaxCreates /\ events \in 0 .. MaxEvents
BY DEF TypeOK, LiveRows

(* What project_to_api_catalog writes is a live row.                       *)
LEMMA ImageIsRow == Image \subseteq LiveRows
BY DEF Image, LiveRows

(* A request to create an API keeps the types.                             *)
LEMMA BeginCreateType ==
    ASSUME TypeOK, NEW w \in Writers, NEW p \in [api : Contents, spec : OpenApis], BeginCreate(w, p)
    PROVE  TypeOK'
<1>1. [pc |-> "lock", want |-> p, tries |-> 0] \in WriterState
  <2>1. [pc |-> "lock", want |-> p, tries |-> 0] \in Early
    BY DEF Early, Payload, MAX_RACE_RETRIES
  <2> QED BY <2>1, WriterParts
<1>2. creates' \in 0 .. MaxCreates
  BY CatalogBounds DEF TypeOK, BeginCreate
<1> QED BY <1>1, <1>2, RowType, Unextended, WriterMoves DEF BeginCreate, TypeOK

(* A lost race counts as a try, while tries are left.                      *)
LEMMA RetryType ==
    ASSUME NEW q \in Early, q.tries + 1 < MAX_RACE_RETRIES
    PROVE  [q EXCEPT !.pc = "get", !.tries = @ + 1] \in Early
<1>1. q.tries + 1 \in 0 .. MAX_RACE_RETRIES - 1
  BY DEF Early, MAX_RACE_RETRIES
<1> QED BY <1>1 DEF Early

(* Every step of a create keeps the types.                                 *)
LEMMA WriterStepType ==
    ASSUME TypeOK, LogSound, NEW w \in Writers, WriterSound(w), WriterStep(w) \/ CreateFails(w)
    PROVE  TypeOK'
<1> DEFINE q == writer[w]
<1>0. writer[w] \in WriterState /\ row \in {Absent} \cup LiveRows /\ creates \in 0 .. MaxCreates
      /\ events \in 0 .. MaxEvents /\ branches \subseteq Contents /\ Extends(log)
      /\ Idle \in WriterState /\ writer \in [Writers -> WriterState]
  BY WriterShape, RowType, Unextended, WriterParts DEF TypeOK
<1>1. CASE AcquireLock(w)
  <2>1. [q EXCEPT !.pc = "get"] \in WriterState
    BY <1>1, WriterShape, PcType, WriterParts DEF AcquireLock
  <2>2. writer' = [writer EXCEPT ![w] = [q EXCEPT !.pc = "get"]]
    BY <1>1 DEF AcquireLock
  <2> HIDE DEF q
  <2> QED BY <1>0, <1>1, <2>1, <2>2, WriterMoves DEF AcquireLock, counters
<1>2. CASE GetFile(w)
  <2>1. [q EXCEPT !.pc = "create"] \in WriterState /\ [q EXCEPT !.pc = "latest"] \in WriterState
    BY <1>2, WriterShape, PcType, WriterParts DEF GetFile
  <2>2. \E n \in {[q EXCEPT !.pc = "create"], [q EXCEPT !.pc = "latest"], Idle} : writer' = [writer EXCEPT ![w] = n]
    BY <1>2 DEF GetFile
  <2>3. lock' \in {lock, None}
    BY <1>2 DEF GetFile
  <2> HIDE DEF q
  <2> QED BY <1>0, <1>2, <2>1, <2>2, <2>3, WriterMoves DEF GetFile, counters
<1>3. CASE LatestFileCommit(w)
  <2> DEFINE n == [pc |-> IF mode = "direct" THEN "spec" ELSE "select",
                   want |-> writer[w].want, at |-> latest_file_commit]
  <2>1. latest_file_commit \in Commits
    BY <1>3, LatestFound DEF WriterSound, LatestFileCommit, Commits
  <2>2. writer[w].want \in Payload
    BY <1>3, WriterShape DEF LatestFileCommit, Early
  <2>3. n \in WriterState
    <3>1. n \in Middle
      BY <2>1, <2>2 DEF Middle
    <3> QED BY <3>1, WriterParts
  <2>4. writer' = [writer EXCEPT ![w] = n]
    BY <1>3 DEF LatestFileCommit
  <2> HIDE DEF n
  <2> QED BY <1>0, <1>3, <2>3, <2>4, WriterMoves DEF LatestFileCommit, counters
<1>4. CASE CreateFile(w)
  <2>1. writer[w] \in Early /\ writer[w].want \in Payload /\ writer[w].want.api \in Contents
        /\ writer[w].tries \in 0 .. MAX_RACE_RETRIES - 1
    BY <1>4, WriterShape DEF CreateFile, Early, Payload
  <2>2. CASE HEAD.api = None
    <3> DEFINE n == [pc |-> "spec", want |-> writer[w].want, at |-> Len(log) + 1]
    <3>1. n \in WriterState
      <4>1. n \in Middle
        BY <2>1, HeadType DEF Middle, Commits
      <4> QED BY <4>1, WriterParts
    <3>2. Extends(log')
      BY <1>4, <2>1, <2>2, HeadType, Appended DEF CreateFile, CommitTree
    <3>3. writer' = [writer EXCEPT ![w] = n] /\ lock' = lock
      BY <1>4, <2>2 DEF CreateFile
    <3> HIDE DEF n
    <3> QED BY <1>0, <1>4, <3>1, <3>2, <3>3, WriterMoves DEF CreateFile, counters
  <2>3. CASE HEAD.api # None
    <3> DEFINE n == IF q.tries + 1 < MAX_RACE_RETRIES THEN [q EXCEPT !.pc = "get", !.tries = @ + 1] ELSE Idle
    <3>1. n \in WriterState
      <4>1. CASE q.tries + 1 < MAX_RACE_RETRIES
        <5>1. [q EXCEPT !.pc = "get", !.tries = @ + 1] \in Early
          BY <2>1, <4>1, RetryType
        <5> QED BY <4>1, <5>1, WriterParts
      <4> QED BY <1>0, <4>1
    <3>2. log' = log /\ lock' \in {lock, None}
      BY <1>4, <2>3 DEF CreateFile
    <3>4. writer' = [writer EXCEPT ![w] = n]
      <4>1. CASE q.tries + 1 < MAX_RACE_RETRIES
        <5>1. writer' = [writer EXCEPT ![w] = [q EXCEPT !.pc = "get", !.tries = @ + 1]]
          BY <1>4, <2>3, <4>1 DEF CreateFile
        <5> QED BY <4>1, <5>1
      <4>2. CASE ~(q.tries + 1 < MAX_RACE_RETRIES)
        <5>1. writer' = [writer EXCEPT ![w] = Idle]
          BY <1>4, <2>3, <4>2 DEF CreateFile
        <5> QED BY <4>2, <5>1
      <4> QED BY <4>1, <4>2
    <3> HIDE DEF n
    <3> QED BY <1>0, <1>4, <3>1, <3>2, <3>4, WriterMoves DEF CreateFile, counters
  <2> QED BY <2>2, <2>3
<1>5. CASE OpenPullRequest(w)
  <2>1. [q EXCEPT !.pc = "merge"] \in WriterState /\ branches' \subseteq Contents
    <3>1. writer[w] \in Early
      BY <1>5, WriterShape DEF OpenPullRequest
    <3> QED BY <1>0, <1>5, <3>1, PcType, WriterParts DEF OpenPullRequest, Early, Payload
  <2>2. (\E n \in {[q EXCEPT !.pc = "merge"], Idle} : writer' = [writer EXCEPT ![w] = n]) /\ lock' \in {lock, None}
    BY <1>5 DEF OpenPullRequest
  <2> HIDE DEF q
  <2> QED BY <1>0, <1>5, <2>1, <2>2, WriterMoves DEF OpenPullRequest, counters
<1>6. CASE MergePullRequest(w)
  <2>1. writer[w].want \in Payload /\ writer[w].want \in Tree
    BY <1>6, WriterShape DEF MergePullRequest, Early, Payload, Tree
  <2> DEFINE n == [pc |-> "select", want |-> writer[w].want, at |-> Len(log) + 1]
  <2>2. n \in WriterState
    <3>1. n \in Middle
      BY <2>1, HeadType DEF Middle, Commits
    <3> QED BY <3>1, WriterParts
  <2>3. Extends(log')
    BY <1>0, <1>6, <2>1, Appended DEF MergePullRequest, CommitTree
  <2>4. (\E m \in {n, Idle} : writer' = [writer EXCEPT ![w] = m]) /\ lock' \in {lock, None}
    BY <1>6 DEF MergePullRequest
  <2> HIDE DEF n
  <2> QED BY <1>0, <1>6, <2>2, <2>3, <2>4, WriterMoves DEF MergePullRequest, counters
<1>7. CASE CommitOpenApi(w)
  <2>1. writer[w] \in Middle /\ writer[w].want.spec \in OpenApis
    BY <1>7, WriterShape DEF CommitOpenApi, Middle, Payload
  <2>2. [q EXCEPT !.pc = "select"] \in WriterState
    BY <2>1, PcType, WriterParts
  <2>3. Extends(log')
    BY <1>0, <1>7, <2>1, HeadType, Appended DEF CommitOpenApi, CommitTree
  <2>4. writer' = [writer EXCEPT ![w] = [q EXCEPT !.pc = "select"]]
    BY <1>7 DEF CommitOpenApi
  <2> HIDE DEF q
  <2> QED BY <1>0, <1>7, <2>2, <2>3, <2>4, WriterMoves DEF CommitOpenApi, counters
<1>8. CASE SelectRow(w)
  <2> DEFINE c == log[writer[w].at].api
             n == [pc |-> "flush", insert |-> ~row.live, img |-> Row(c, writer[w].want.spec, writer[w].at)]
  <2>1. writer[w] \in Middle /\ writer[w].want.spec \in OpenApis
    BY <1>8, WriterShape DEF SelectRow, Middle, Payload
  <2>2. row.live \in BOOLEAN
    <3>1. Absent.live = FALSE /\ \A r \in LiveRows : r.live = TRUE
      BY DEF Absent, LiveRows
    <3>2. CASE row = Absent
      BY <3>1, <3>2
    <3>3. CASE row \in LiveRows
      BY <3>1, <3>3
    <3> QED BY <1>0, <3>2, <3>3
  <2>3. c \in Contents => n \in WriterState
    <3> SUFFICES ASSUME c \in Contents PROVE n \in Late
      BY WriterParts
    <3>1. Row(c, writer[w].want.spec, writer[w].at) \in Image
      BY <2>1 DEF Row, Image, Middle
    <3> QED BY <2>2, <3>1 DEF Late
  <2>4. \/ c \in Contents /\ writer' = [writer EXCEPT ![w] = n] /\ lock' = lock
        \/ writer' = [writer EXCEPT ![w] = Idle] /\ lock' = None
    BY <1>8 DEF SelectRow
  <2>5. UNCHANGED <<mode, log, branches, row, tx, worker, cache, deployed, creates, events, excused>>
    BY <1>8 DEF SelectRow, counters
  <2> HIDE DEF n, c
  <2>6. CASE c \in Contents /\ writer' = [writer EXCEPT ![w] = n] /\ lock' = lock
    BY <1>0, <2>3, <2>5, <2>6, WriterMoves
  <2>7. CASE writer' = [writer EXCEPT ![w] = Idle] /\ lock' = None
    BY <1>0, <2>5, <2>7, WriterMoves
  <2> QED BY <2>4, <2>6, <2>7
<1>9. CASE FlushRow(w)
  <2>1. [q EXCEPT !.pc = "unlock"] \in WriterState
    BY <1>9, WriterShape, PcType, WriterParts DEF FlushRow
  <2>2. /\ \E n \in {[q EXCEPT !.pc = "unlock"], Idle} : writer' = [writer EXCEPT ![w] = n]
        /\ lock' \in {lock, Lost} /\ tx' \in {tx, w}
    BY <1>9 DEF FlushRow
  <2> HIDE DEF q
  <2> QED BY <1>0, <1>9, <2>1, <2>2, WriterMoves DEF FlushRow, counters
<1>10. CASE ReleaseLock(w)
  <2>1. [q EXCEPT !.pc = "commit"] \in WriterState
    BY <1>10, WriterShape, PcType, WriterParts DEF ReleaseLock
  <2>2. writer' = [writer EXCEPT ![w] = [q EXCEPT !.pc = "commit"]]
    BY <1>10 DEF ReleaseLock
  <2> HIDE DEF q
  <2> QED BY <1>0, <1>10, <2>1, <2>2, WriterMoves DEF ReleaseLock, counters
<1>11. CASE CommitCreate(w)
  <2>1. writer[w].img \in LiveRows
    BY <1>11, WriterShape, ImageIsRow DEF CommitCreate, Late
  <2>2. row' \in {Absent} \cup LiveRows
    BY <1>0, <1>11, <2>1 DEF CommitCreate
  <2> QED BY <1>0, <1>11, <2>2, WriterMoves DEF CommitCreate, counters
<1>12. CASE CreateFails(w)
  <2>1. events' \in 0 .. MaxEvents
    BY <1>0, <1>12, CatalogBounds DEF CreateFails
  <2>2. tx' \in {tx, None} /\ lock' \in {lock, None}
    BY <1>12 DEF CreateFails
  <2> QED BY <1>0, <1>12, <2>1, <2>2, WriterMoves DEF CreateFails
<1> QED BY <1>1, <1>2, <1>3, <1>4, <1>5, <1>6, <1>7, <1>8, <1>9, <1>10, <1>11, <1>12 DEF WriterStep

(* A step of the worker replaces its state.                                *)
LEMMA WorkerMoves ==
    ASSUME TypeOK, worker' \in WorkerState, UNCHANGED <<mode, log, branches, writer, creates>>,
           events' \in 0 .. MaxEvents, row' \in {Absent} \cup LiveRows,
           tx' \in Actors \cup {None}, lock' \in Actors \cup {None, Lost}, cache' \in Key \cup {None},
           deployed' \in Contents \cup {Edited, None}, excused' \in BOOLEAN
    PROVE  TypeOK'
BY DEF TypeOK, LiveRows

(* Every step of the reconciler keeps the types.                           *)
LEMMA WorkerStepType ==
    ASSUME TypeOK, WorkerStep \/ WorkerFails
    PROVE  TypeOK'
<1>0. /\ row \in {Absent} \cup LiveRows /\ events \in 0 .. MaxEvents
      /\ tx \in Actors \cup {None} /\ lock \in Actors \cup {None, Lost} /\ cache \in Key \cup {None}
      /\ deployed \in Contents \cup {Edited, None} /\ excused \in BOOLEAN
      /\ Idle \in WorkerState /\ worker \in WorkerState /\ Worker \in Actors
  BY RowType, WorkerParts DEF TypeOK, Actors
<1>a. row.live \in BOOLEAN
  <2>1. Absent.live = FALSE /\ \A r \in LiveRows : r.live = TRUE
    BY DEF Absent, LiveRows
  <2>2. CASE row = Absent
    BY <2>1, <2>2
  <2>3. CASE row \in LiveRows
    BY <2>1, <2>3
  <2> QED BY <1>0, <2>2, <2>3
<1>b. row.api \in Contents \cup {Edited, None}
  <2>1. Absent.api = None /\ \A r \in LiveRows : r.api \in Contents \cup {Edited}
    BY DEF Absent, LiveRows
  <2>2. CASE row = Absent
    BY <2>1, <2>2
  <2>3. CASE row \in LiveRows
    BY <2>1, <2>3
  <2> QED BY <1>0, <2>2, <2>3
<1>1. CASE ListFiles
  <2> DEFINE n == [pc |-> "listed", api |-> HEAD.api, commit |-> Len(log)]
  <2>1. HEAD.api # None => n \in WorkerState
    <3> SUFFICES ASSUME HEAD.api # None PROVE n \in Listed
      BY WorkerParts
    <3> QED BY HeadType DEF Listed
  <2>2. worker' \in WorkerState /\ cache' \in Key \cup {None}
    BY <1>0, <1>1, <2>1 DEF ListFiles
  <2> QED BY <1>0, <1>1, <2>2, WorkerMoves DEF ListFiles, counters
<1>2. CASE ListOpenApi
  <2> DEFINE n == [pc |-> "get", key |-> <<worker.api, HEAD.spec>>, commit |-> worker.commit]
  <2>1. n \in WorkerState
    <3>1. worker \in Listed
      BY <1>2, WorkerShape DEF ListOpenApi
    <3>2. <<worker.api, HEAD.spec>> \in Key /\ worker.commit \in Commits
      BY <3>1, HeadType DEF Listed, Key
    <3>3. n \in Getting
      BY <3>2 DEF Getting
    <3> QED BY <3>3, WorkerParts
  <2>2. worker' \in WorkerState
    BY <1>0, <1>2, <2>1 DEF ListOpenApi
  <2> QED BY <1>0, <1>2, <2>2, WorkerMoves DEF ListOpenApi, counters
<1>3. CASE GetApiYaml
  <2> DEFINE n == [pc |-> "spec", key |-> worker.key, commit |-> worker.commit, api |-> HEAD.api]
  <2>1. worker.key \in Key /\ worker.commit \in Commits
    BY <1>3, WorkerShape DEF GetApiYaml, Getting
  <2>2. HEAD.api \in Contents => n \in WorkerState
    <3> SUFFICES ASSUME HEAD.api \in Contents PROVE n \in Loading
      BY WorkerParts
    <3> QED BY <2>1 DEF Loading
  <2>3. worker' \in WorkerState /\ cache' \in Key \cup {None} /\ excused' \in BOOLEAN
    BY <1>0, <1>3, <2>1, <2>2 DEF GetApiYaml, Remember
  <2> QED BY <1>0, <1>3, <2>3, WorkerMoves DEF GetApiYaml, counters
<1>4. CASE LoadOpenApi
  <2> DEFINE s == IF worker.key[2] = None THEN None ELSE HEAD.spec
             n == [pc |-> "row", key |-> worker.key, img |-> Row(worker.api, s, worker.commit)]
  <2>1. worker.key \in Key /\ worker.commit \in Commits /\ worker.api \in Contents
    BY <1>4, WorkerShape DEF LoadOpenApi, Loading
  <2>2. s \in OpenApis \cup {None}
    BY HeadType
  <2>3. worker' = n
    BY <1>4 DEF LoadOpenApi
  <2> HIDE DEF s
  <2>4. n \in WorkerState
    <3>1. Row(worker.api, s, worker.commit) \in Image
      BY <2>1, <2>2 DEF Row, Image
    <3>2. n \in Deciding
      BY <2>1, <3>1 DEF Deciding
    <3> QED BY <3>2, WorkerParts
  <2> QED BY <1>0, <1>4, <2>3, <2>4, WorkerMoves DEF LoadOpenApi, counters
<1>5. CASE ReadRow
  <2>1. worker \in Deciding /\ worker.key \in Key
    BY <1>5, WorkerShape DEF ReadRow, Deciding
  <2>2. [worker EXCEPT !.pc = "trylock"] \in WorkerState
    <3>1. [worker EXCEPT !.pc = "trylock"] \in Deciding
      BY <2>1 DEF Deciding
    <3> QED BY <3>1, WorkerParts
  <2>3. worker' \in WorkerState /\ cache' \in Key \cup {None} /\ excused' \in BOOLEAN
    BY <1>0, <1>5, <2>1, <2>2 DEF ReadRow, Remember
  <2>4. deployed' \in Contents \cup {Edited, None}
    BY <1>0, <1>b, <1>5 DEF ReadRow
  <2> QED BY <1>0, <1>5, <2>3, <2>4, WorkerMoves DEF ReadRow, counters
<1>6. CASE TryLock
  <2> DEFINE n == [pc |-> "flush", key |-> worker.key, img |-> worker.img, insert |-> ~row.live]
  <2>1. worker \in Deciding /\ worker.key \in Key /\ worker.img \in Image
    BY <1>6, WorkerShape DEF TryLock, Deciding
  <2>2. n \in WorkerState
    <3>1. n \in Writing
      BY <1>a, <2>1 DEF Writing
    <3> QED BY <3>1, WorkerParts
  <2>3. worker' \in WorkerState /\ cache' \in Key \cup {None} /\ excused' \in BOOLEAN
    BY <1>0, <1>6, <2>1, <2>2 DEF TryLock, Remember
  <2>4. lock' \in {Worker, lock}
    BY <1>6 DEF TryLock
  <2> QED BY <1>0, <1>6, <2>3, <2>4, WorkerMoves DEF TryLock, counters
<1>7. CASE WorkerFlush
  <2>1. [worker EXCEPT !.pc = "commit"] \in WorkerState
    <3>1. worker \in Writing
      BY <1>7, WorkerShape DEF WorkerFlush
    <3>2. [worker EXCEPT !.pc = "commit"] \in Writing
      BY <3>1 DEF Writing
    <3> QED BY <3>2, WorkerParts
  <2>2. worker' \in WorkerState /\ lock' \in {lock, None} /\ tx' \in {tx, Worker}
    BY <1>0, <1>7, <2>1 DEF WorkerFlush
  <2> QED BY <1>0, <1>7, <2>2, WorkerMoves DEF WorkerFlush, counters
<1>8. CASE WorkerCommit
  <2>1. worker.img \in Image /\ worker.key \in Key
    BY <1>8, WorkerShape DEF WorkerCommit, Writing
  <2>2. worker.img \in LiveRows /\ worker.img.api \in Contents
    BY <2>1, ImageIsRow DEF Image
  <2>3. row' \in {Absent} \cup LiveRows /\ deployed' \in Contents \cup {Edited, None}
    BY <1>0, <1>8, <2>2 DEF WorkerCommit
  <2>4. worker' = Idle /\ cache' = worker.key /\ excused' \in BOOLEAN
    BY <1>a, <1>8 DEF WorkerCommit, Remember
  <2> QED BY <1>0, <1>8, <2>1, <2>3, <2>4, WorkerMoves DEF WorkerCommit, counters
<1>9. CASE WorkerFails
  <2>1. events' \in 0 .. MaxEvents
    BY <1>0, <1>9, CatalogBounds DEF WorkerFails
  <2> QED BY <1>0, <1>9, <2>1, WorkerMoves DEF WorkerFails
<1> QED BY <1>1, <1>2, <1>3, <1>4, <1>5, <1>6, <1>7, <1>8, <1>9 DEF WorkerStep

(* The other requests, commits by hand and restarts.                       *)
LEMMA OtherStepType ==
    ASSUME TypeOK,
           RecycleConnection \/ UpdateApi \/ DeleteApi \/ (\E t \in Tree : EditGit(t)) \/ Restart
    PROVE  TypeOK'
<1>0. Idle \in WriterState /\ Idle \in WorkerState
  BY WriterParts, WorkerParts
<1>1. CASE RecycleConnection
  BY <1>1 DEF RecycleConnection, TypeOK, counters
<1>2. CASE UpdateApi
  <2>1. row \in LiveRows
    BY <1>2, RowType DEF UpdateApi, Absent
  <2>2. [row EXCEPT !.api = Edited] \in LiveRows
    BY <2>1 DEF LiveRows
  <2>3. events' \in 0 .. MaxEvents
    BY <1>2, CatalogBounds DEF UpdateApi, TypeOK
  <2> QED BY <1>2, <2>2, <2>3 DEF UpdateApi, TypeOK, LiveRows
<1>3. CASE DeleteApi
  BY <1>3, CatalogBounds DEF DeleteApi, TypeOK
<1>4. ASSUME NEW t \in Tree, EditGit(t) PROVE TypeOK'
  <2>1. log' \in Seq(Tree) /\ Len(log') \in Commits
    BY <1>4, Appended DEF EditGit, CommitTree, Extends
  <2>2. events' \in 0 .. MaxEvents
    BY <1>4, CatalogBounds DEF EditGit, TypeOK
  <2> QED BY <1>4, <2>1, <2>2 DEF EditGit, TypeOK
<1>5. CASE Restart
  <2>1. writer' \in [Writers -> WriterState] /\ events' \in 0 .. MaxEvents
    BY <1>0, <1>5, CatalogBounds DEF Restart, TypeOK
  <2> QED BY <1>0, <1>5, <2>1 DEF Restart, TypeOK
<1> QED BY <1>1, <1>2, <1>3, <1>4, <1>5

(* Every step keeps the types.                                             *)
LEMMA NextType == TypeOK /\ GitInvariant /\ [Next]_vars => TypeOK'
<1> SUFFICES ASSUME TypeOK, GitInvariant, [Next]_vars PROVE TypeOK'
  OBVIOUS
<1>1. LogSound /\ \A w \in Writers : WriterSound(w)
  BY DEF GitInvariant
<1>2. ASSUME NEW w \in Writers, \/ \E p \in [api : Contents, spec : OpenApis] : BeginCreate(w, p)
                                \/ WriterStep(w)
                                \/ CreateFails(w)
      PROVE  TypeOK'
  BY <1>1, <1>2, BeginCreateType, WriterStepType
<1>3. CASE UNCHANGED vars
  BY <1>3 DEF vars, TypeOK
<1> QED BY <1>2, <1>3, WorkerStepType, OtherStepType DEF Next

(* The types hold at the start.                                            *)
LEMMA InitType == Init => TypeOK
<1> SUFFICES ASSUME Init PROVE TypeOK
  OBVIOUS
<1>1. [api |-> None, spec |-> None] \in Tree
  BY DEF Tree
<1>2. log \in Seq(Tree) /\ Len(log) \in Commits
  BY <1>1 DEF Init, Commits
<1>3. row \in {Absent} \cup LiveRows
  <2>1. \A a \in Contents : Row(a, None, None) \in LiveRows
    BY DEF Row, LiveRows
  <2> QED BY <2>1 DEF Init
<1>4. writer \in [Writers -> WriterState] /\ worker \in WorkerState
  BY WriterParts, WorkerParts DEF Init
<1>5. creates \in 0 .. MaxCreates /\ events \in 0 .. MaxEvents
  BY CatalogBounds DEF Init
<1> QED BY <1>2, <1>3, <1>4, <1>5 DEF Init, TypeOK, LiveRows

-----------------------------------------------------------------------------
(* What Git had.                                                           *)

(* A commit that Git had since i it has had since i ever after.            *)
LEMMA SinceKept ==
    ASSUME TypeOK, Extends(log')
    PROVE  /\ 1 .. Len(log) \subseteq 1 .. Len(log')
           /\ \A i \in 1 .. Len(log) : log'[i] = log[i]
           /\ \A c, i : i \in Commits /\ (\E j \in i .. Len(log) : log[j].api = c)
                  => \E j \in i .. Len(log') : log'[j].api = c
           /\ \A c, i : i \in Commits /\ (\E j \in i .. Len(log) : log[j].spec = c)
                  => \E j \in i .. Len(log') : log'[j].spec = c
<1>1. Len(log) \in Nat /\ Len(log') \in Nat /\ Len(log) <= Len(log')
      /\ \A i \in 1 .. Len(log) : log'[i] = log[i]
  BY DEF TypeOK, Extends, Commits
<1>2. \A i \in Commits : \A j \in i .. Len(log) : j \in i .. Len(log') /\ log'[j] = log[j]
  <2> SUFFICES ASSUME NEW i \in Commits, NEW j \in i .. Len(log)
               PROVE  j \in i .. Len(log') /\ log'[j] = log[j]
    OBVIOUS
  <2>1. j \in 1 .. Len(log) /\ j \in i .. Len(log')
    BY <1>1 DEF Commits
  <2> QED BY <1>1, <2>1
<1>3. 1 .. Len(log) \subseteq 1 .. Len(log')
  BY <1>1
<1> QED BY <1>1, <1>2, <1>3

(* The steps change the default branch by at most one commit.              *)
LEMMA LogStep ==
    ASSUME TypeOK, NEW w \in Writers, WriterStep(w) \/ CreateFails(w)
    PROVE  log' = log \/ \E t \in Tree : log' = Append(log, t)
<1>1. CASE CreateFile(w)
  <2>1. writer[w].want.api \in Contents
    BY <1>1, WriterShape DEF CreateFile, Early, Payload
  <2> QED BY <1>1, <2>1, HeadType DEF CreateFile, CommitTree
<1>2. CASE MergePullRequest(w)
  <2>1. writer[w].want \in Tree
    BY <1>2, WriterShape DEF MergePullRequest, Early, Payload, Tree
  <2> QED BY <1>2, <2>1 DEF MergePullRequest, CommitTree
<1>3. CASE CommitOpenApi(w)
  <2>1. writer[w].want.spec \in OpenApis
    BY <1>3, WriterShape DEF CommitOpenApi, Middle, Payload
  <2> QED BY <1>3, <2>1, HeadType DEF CommitOpenApi, CommitTree
<1> QED BY <1>1, <1>2, <1>3
        DEF WriterStep, CreateFails, AcquireLock, GetFile, LatestFileCommit, OpenPullRequest, SelectRow,
            FlushRow, ReleaseLock, CommitCreate

(* A commit on the default branch keeps the log sound.                     *)
LEMMA AppendSound ==
    ASSUME TypeOK, LogSound, NEW t \in Tree, log' = Append(log, t)
    PROVE  LogSound'
<1>1. Len(log) \in Nat \ {0} /\ Len(log') = Len(log) + 1 /\ log'[Len(log) + 1] = t
      /\ \A i \in 1 .. Len(log) : log'[i] = log[i]
  BY Appended DEF Extends, TypeOK, Commits
<1>2. HEAD' = t /\ HEAD = log[Len(log)]
  BY <1>1 DEF HEAD
<1>3. CASE t.api # HEAD.api
  <2> DEFINE i == Len(log) + 1
  <2>1. i \in 2 .. Len(log') /\ log'[i].api # log'[i - 1].api
    BY <1>1, <1>2, <1>3
  <2>2. \A j \in i .. Len(log') : log'[j].api = HEAD'.api
    BY <1>1, <1>2
  <2> QED BY <2>1, <2>2 DEF LogSound, Changed
<1>4. CASE t.api = HEAD.api /\ \A i \in 1 .. Len(log) : log[i].api = None
  <2>1. HEAD.api = None
    BY <1>1, <1>2, <1>4
  <2>2. \A i \in 1 .. Len(log') : i = Len(log) + 1 \/ i \in 1 .. Len(log)
    BY <1>1
  <2>3. \A i \in 1 .. Len(log') : log'[i].api = None
    BY <1>1, <1>4, <2>1, <2>2
  <2> QED BY <2>3 DEF LogSound
<1>5. CASE t.api = HEAD.api /\ \E i \in 2 .. Len(log) : Changed(i)
  <2>1. PICK i \in 2 .. Len(log) : Changed(i)
    BY <1>5
  <2>2. i \in 2 .. Len(log') /\ i \in 1 .. Len(log) /\ i - 1 \in 1 .. Len(log)
    BY <1>1
  <2>3. log'[i].api # log'[i - 1].api
    BY <1>1, <2>1, <2>2 DEF Changed
  <2>4. ASSUME NEW j \in i .. Len(log') PROVE log'[j].api = HEAD'.api
    <3>1. j = Len(log) + 1 \/ (j \in 1 .. Len(log) /\ j \in i .. Len(log))
      BY <1>1, <2>2
    <3> QED BY <1>1, <1>2, <1>5, <2>1, <3>1 DEF Changed
  <2> QED BY <2>2, <2>3, <2>4 DEF LogSound, Changed
<1> QED BY <1>3, <1>4, <1>5 DEF LogSound

(* Actors that a step leaves alone, and the row, keep their facts.         *)
LEMMA WriterKept ==
    ASSUME TypeOK, Extends(log'), mode' = mode, NEW w \in Writers, WriterSound(w), writer'[w] = writer[w]
    PROVE  WriterSound(w)'
<1>1. writer[w].pc \in {"spec", "select"} => writer[w].at \in Commits
  BY WriterShape DEF Middle
<1>2. writer[w].pc \in {"flush", "unlock", "commit"} => writer[w].img.commit \in Commits
  BY WriterShape DEF Late, Image
<1>3. writer'[w].pc = "latest" => \E i \in 1 .. Len(log') : log'[i].api # None
  BY SinceKept DEF WriterSound
<1>4. writer'[w].pc = "merge" => mode' = "pull_request"
  BY DEF WriterSound
<1>5. /\ writer'[w].pc \in {"spec", "select"} => writer'[w].at \in 1 .. Len(log')
      /\ writer'[w].pc = "select" /\ mode' = "direct" => SpecSince(writer[w].want.spec, writer[w].at)'
  BY <1>1, SinceKept DEF WriterSound, SpecSince
<1>6. writer'[w].pc \in {"flush", "unlock", "commit"} => ImageSound(writer[w].img)'
  BY <1>2, SinceKept DEF WriterSound, ImageSound, CommittedSince, SpecSince
<1> QED BY <1>3, <1>4, <1>5, <1>6 DEF WriterSound

(* What the reconciler holds stays true when the log grows.                *)
LEMMA WorkerKept ==
    ASSUME TypeOK, Extends(log'), mode' = mode, WorkerSound, worker' = worker
    PROVE  WorkerSound'
<1>1. worker.pc \in {"listed", "get", "spec"} => worker.commit \in Commits
  BY WorkerShape DEF Listed, Getting, Loading
<1>2. worker.pc \in {"row", "trylock", "flush", "commit"} => worker.img.commit \in Commits
  BY WorkerShape DEF Deciding, Writing, Image
<1>3. /\ worker.pc \in {"listed", "get", "spec"} => worker.commit \in 1 .. Len(log')
      /\ worker.pc = "spec" => CommittedSince(worker.api, worker.commit)'
  BY <1>1, SinceKept DEF WorkerSound, CommittedSince
<1>4. worker.pc \in {"row", "trylock", "flush", "commit"} => ImageSound(worker.img)'
  BY <1>2, SinceKept DEF WorkerSound, ImageSound, CommittedSince, SpecSince
<1> QED BY <1>3, <1>4 DEF WorkerSound

(* What the row names stays committed when the log grows.                  *)
LEMMA RowKept ==
    ASSUME TypeOK, Extends(log'), mode' = mode, RowSound, row' = row
    PROVE  RowSound'
<1>1. row.live /\ row.commit # None => row.commit \in Commits
  <2>1. CASE row = Absent
    BY <2>1 DEF Absent
  <2>2. CASE row \in LiveRows
    BY <2>2 DEF LiveRows
  <2> QED BY <2>1, <2>2, RowType
<1>2. row'.live /\ row'.commit # None => row'.commit \in 1 .. Len(log')
  BY <1>1, SinceKept DEF RowSound
<1>3. ProjectsCommitted'
  BY <1>1, SinceKept DEF RowSound, ProjectsCommitted, CommittedSince
<1>4. SpecFromGit'
  BY <1>1, SinceKept DEF RowSound, SpecFromGit
<1> QED BY <1>2, <1>3, <1>4 DEF RowSound

(* What writer w knows after its step.                                     *)
LEMMA WriterStepSound ==
    ASSUME TypeOK, GitInvariant, NEW w \in Writers, WriterStep(w) \/ CreateFails(w), Extends(log'), mode' = mode
    PROVE  WriterSound(w)'
<1> DEFINE q == writer[w]
<1>0. WriterSound(w) /\ LogSound /\ Len(log) \in Nat \ {0} /\ writer \in [Writers -> WriterState]
  BY DEF GitInvariant, TypeOK, Commits
<1>i. writer'[w] = Idle => WriterSound(w)'
  BY DEF WriterSound, Idle
<1>1. CASE AcquireLock(w)
  <2>1. writer'[w].pc = "get"
    BY <1>0, <1>1, WriterShape DEF AcquireLock, Early
  <2> QED BY <2>1 DEF WriterSound
<1>2. CASE GetFile(w)
  <2>1. writer[w] \in Early
    BY <1>2, WriterShape DEF GetFile
  <2>2. CASE HEAD.api = None /\ writer' = [writer EXCEPT ![w].pc = "create"]
    <3>1. writer'[w].pc = "create"
      BY <1>0, <2>1, <2>2 DEF Early
    <3> QED BY <3>1 DEF WriterSound
  <2>3. CASE HEAD.api = q.want.api /\ writer' = [writer EXCEPT ![w].pc = "latest"]
    <3>1. writer'[w].pc = "latest" /\ q.want.api \in Contents
      BY <1>0, <2>1, <2>3 DEF Early, Payload
    <3>2. log[Len(log)].api # None /\ Len(log) \in 1 .. Len(log) /\ log' = log
      BY <1>0, <1>2, <2>3, <3>1, CatalogValues DEF GetFile, HEAD
    <3> QED BY <3>1, <3>2 DEF WriterSound
  <2>4. CASE writer' = [writer EXCEPT ![w] = Idle]
    BY <1>0, <1>i, <2>4
  <2> QED BY <1>2, <2>2, <2>3, <2>4 DEF GetFile
<1>3. CASE LatestFileCommit(w)
  <2>1. latest_file_commit \in 2 .. Len(log) /\ log' = log
    BY <1>0, <1>3, LatestFound DEF WriterSound, LatestFileCommit
  <2>2. writer'[w] = [pc |-> IF mode = "direct" THEN "spec" ELSE "select",
                      want |-> q.want, at |-> latest_file_commit]
    BY <1>0, <1>3 DEF LatestFileCommit
  <2>3. /\ writer'[w].pc = (IF mode = "direct" THEN "spec" ELSE "select")
        /\ writer'[w].at = latest_file_commit
    BY <2>2
  <2> QED BY <2>1, <2>3, <1>0 DEF WriterSound
<1>4. CASE CreateFile(w)
  <2>1. CASE HEAD.api = None
    <3>1. writer'[w] = [pc |-> "spec", want |-> q.want, at |-> Len(log) + 1]
      BY <1>0, <1>4, <2>1 DEF CreateFile
    <3>2. writer'[w].pc = "spec" /\ writer'[w].at = Len(log) + 1
      BY <3>1
    <3>3. q.want.api \in Contents
      BY <1>4, WriterShape DEF CreateFile, Early, Payload
    <3>4. Len(log') = Len(log) + 1
      BY <1>4, <2>1, <3>3, HeadType, Appended DEF CreateFile, CommitTree
    <3> QED BY <1>0, <3>2, <3>4 DEF WriterSound
  <2>2. CASE HEAD.api # None /\ q.tries + 1 < MAX_RACE_RETRIES
    <3>1. writer'[w] = [q EXCEPT !.pc = "get", !.tries = q.tries + 1] /\ q \in Early
      BY <1>0, <1>4, <2>2, WriterShape DEF CreateFile
    <3>2. writer'[w].pc = "get"
      BY <3>1 DEF Early
    <3> QED BY <3>2 DEF WriterSound
  <2>3. CASE HEAD.api # None /\ ~(q.tries + 1 < MAX_RACE_RETRIES)
    BY <1>0, <1>i, <1>4, <2>3 DEF CreateFile
  <2> QED BY <2>1, <2>2, <2>3
<1>5. CASE OpenPullRequest(w)
  <2>1. CASE writer' = [writer EXCEPT ![w].pc = "merge"]
    <3>1. writer'[w].pc = "merge"
      BY <1>0, <1>5, <2>1, WriterShape DEF OpenPullRequest, Early
    <3> QED BY <1>5, <3>1 DEF WriterSound, OpenPullRequest
  <2>2. CASE writer' = [writer EXCEPT ![w] = Idle]
    BY <1>0, <1>i, <2>2
  <2> QED BY <1>5, <2>1, <2>2 DEF OpenPullRequest
<1>6. CASE MergePullRequest(w)
  <2>1. CASE HEAD = [api |-> None, spec |-> None]
    <3>1. writer'[w] = [pc |-> "select", want |-> q.want, at |-> Len(log) + 1]
      BY <1>0, <1>6, <2>1 DEF MergePullRequest
    <3>2. writer'[w].pc = "select" /\ writer'[w].at = Len(log) + 1
      BY <3>1
    <3>3. q.want \in Tree
      BY <1>6, WriterShape DEF MergePullRequest, Early, Payload, Tree
    <3>4. Len(log') = Len(log) + 1
      BY <1>6, <2>1, <3>3, Appended DEF MergePullRequest, CommitTree
    <3>5. mode = "pull_request"
      BY <1>0, <1>6 DEF WriterSound, MergePullRequest
    <3> QED BY <1>0, <3>2, <3>4, <3>5 DEF WriterSound
  <2>2. CASE HEAD # [api |-> None, spec |-> None]
    BY <1>0, <1>i, <1>6, <2>2 DEF MergePullRequest
  <2> QED BY <2>1, <2>2
<1>7. CASE CommitOpenApi(w)
  <2>1. q \in Middle /\ q.at \in 1 .. Len(log) /\ q.want.spec \in OpenApis
    BY <1>0, <1>7, WriterShape DEF CommitOpenApi, WriterSound, Middle, Payload
  <2>2. writer'[w] = [q EXCEPT !.pc = "select"]
    BY <1>0, <1>7 DEF CommitOpenApi
  <2>3. writer'[w].pc = "select" /\ writer'[w].at = q.at /\ writer'[w].want = q.want
    BY <2>1, <2>2 DEF Middle
  <2>4. q.at \in 1 .. Len(log') /\ Len(log') \in q.at .. Len(log')
    BY <1>0, <2>1, SinceKept DEF Extends, Commits
  <2>5. log'[Len(log')].spec = q.want.spec
    <3>1. CASE HEAD.spec = q.want.spec
      BY <1>7, <3>1 DEF CommitOpenApi, HEAD
    <3>2. CASE HEAD.spec # q.want.spec
      <4>1. log' = Append(log, [HEAD EXCEPT !.spec = q.want.spec])
        BY <1>7, <3>2 DEF CommitOpenApi, CommitTree
      <4>2. [HEAD EXCEPT !.spec = q.want.spec] \in Tree /\ HEAD \in Tree
        BY <2>1, HeadType
      <4>3. log'[Len(log')] = [HEAD EXCEPT !.spec = q.want.spec]
        BY <4>1, <4>2, Appended
      <4> QED BY <4>2, <4>3 DEF Tree
    <3> QED BY <3>1, <3>2
  <2> QED BY <2>3, <2>4, <2>5 DEF WriterSound, SpecSince
<1>8. CASE SelectRow(w)
  <2> DEFINE c == log[q.at].api
  <2>1. log' = log /\ q.at \in 1 .. Len(log)
        /\ (mode = "direct" => SpecSince(q.want.spec, q.at))
    BY <1>0, <1>8 DEF SelectRow, WriterSound
  <2>2. CASE c \in Contents
    <3>1. writer'[w] = [pc |-> "flush", insert |-> ~row.live, img |-> Row(c, q.want.spec, q.at)]
      BY <1>0, <1>8, <2>2 DEF SelectRow
    <3>2. writer'[w].pc = "flush" /\ writer'[w].img = Row(c, q.want.spec, q.at)
      BY <3>1
    <3>3. writer'[w].img.api = c /\ writer'[w].img.spec = q.want.spec /\ writer'[w].img.commit = q.at
      BY <3>2 DEF Row
    <3>4. q.at \in q.at .. Len(log)
      BY <1>0, <2>1
    <3>5. ImageSound(writer[w].img)'
      BY <2>1, <3>3, <3>4 DEF ImageSound, CommittedSince, SpecSince
    <3> QED BY <3>2, <3>5 DEF WriterSound
  <2>3. CASE c \notin Contents
    BY <1>0, <1>i, <1>8, <2>3 DEF SelectRow
  <2> QED BY <2>2, <2>3
<1>9. CASE FlushRow(w) \/ ReleaseLock(w)
  <2>1. log' = log /\ q \in Late /\ ImageSound(q.img)
    BY <1>0, <1>9, WriterShape DEF FlushRow, ReleaseLock, WriterSound
  <2>2. ASSUME NEW c \in {"unlock", "commit"}, writer' = [writer EXCEPT ![w].pc = c] PROVE WriterSound(w)'
    <3>1. writer'[w] = [q EXCEPT !.pc = c]
      BY <1>0, <2>2
    <3>2. writer'[w].pc = c /\ writer'[w].img = q.img
      BY <2>1, <3>1 DEF Late
    <3>3. ImageSound(writer[w].img)'
      BY <2>1, <3>2 DEF ImageSound, CommittedSince, SpecSince
    <3> QED BY <2>2, <3>2, <3>3 DEF WriterSound
  <2>3. CASE writer' = [writer EXCEPT ![w] = Idle]
    BY <1>0, <1>i, <2>3
  <2> QED BY <1>9, <2>2, <2>3 DEF FlushRow, ReleaseLock
<1>10. CASE CommitCreate(w) \/ CreateFails(w)
  BY <1>0, <1>i, <1>10 DEF CommitCreate, CreateFails
<1> QED BY <1>1, <1>2, <1>3, <1>4, <1>5, <1>6, <1>7, <1>8, <1>9, <1>10 DEF WriterStep

(* A writer's step leaves the others alone.                                *)
LEMMA WriterFrame ==
    ASSUME TypeOK, NEW w \in Writers, WriterStep(w) \/ CreateFails(w)
    PROVE  /\ Extends(log') /\ UNCHANGED <<mode, worker>>
           /\ \A v \in Writers \ {w} : writer'[v] = writer[v]
           /\ ~CommitCreate(w) => row' = row
<1>1. Extends(log')
  BY LogStep, Appended, Unextended
<1>2. UNCHANGED <<mode, worker>> /\ (~CommitCreate(w) => row' = row)
  BY DEF WriterStep, CreateFails, AcquireLock, GetFile, LatestFileCommit, CreateFile, OpenPullRequest,
         MergePullRequest, CommitOpenApi, SelectRow, FlushRow, ReleaseLock, CommitCreate
<1>3. \E n : writer' = [writer EXCEPT ![w] = n]
  BY DEF WriterStep, CreateFails, AcquireLock, GetFile, LatestFileCommit, CreateFile, OpenPullRequest,
         MergePullRequest, CommitOpenApi, SelectRow, FlushRow, ReleaseLock, CommitCreate
<1> QED BY <1>1, <1>2, <1>3 DEF TypeOK

(* A step of a create keeps the row and every copy committed in Git.       *)
LEMMA WriterStepGit ==
    ASSUME TypeOK, GitInvariant, NEW w \in Writers, WriterStep(w) \/ CreateFails(w)
    PROVE  GitInvariant'
<1>1. Extends(log') /\ UNCHANGED <<mode, worker>> /\ \A v \in Writers \ {w} : writer'[v] = writer[v]
  BY WriterFrame
<1>2. LogSound'
  <2>1. CASE log' = log
    BY <2>1 DEF GitInvariant, LogSound, Changed, HEAD
  <2> QED BY <2>1, LogStep, AppendSound DEF GitInvariant
<1>3. \A v \in Writers : WriterSound(v)'
  <2>1. WriterSound(w)'
    BY <1>1, WriterStepSound
  <2>2. \A v \in Writers \ {w} : WriterSound(v)'
    BY <1>1, WriterKept DEF GitInvariant
  <2> QED BY <2>1, <2>2
<1>4. WorkerSound'
  BY <1>1, WorkerKept DEF GitInvariant
<1>5. RowSound'
  <2>1. CASE row' = row
    BY <1>1, <2>1, RowKept DEF GitInvariant
  <2>2. CASE CommitCreate(w) /\ row' # row
    <3>1. row' = writer[w].img /\ log' = log /\ mode' = mode
      BY <2>2 DEF CommitCreate
    <3>2. writer[w].img \in Image /\ ImageSound(writer[w].img)
      BY <2>2, WriterShape DEF CommitCreate, GitInvariant, WriterSound, Late
    <3> QED BY <3>1, <3>2 DEF RowSound, ImageSound, ProjectsCommitted, SpecFromGit, SpecSince, CommittedSince, Image
  <2> QED BY <2>1, <2>2, WriterFrame
<1> QED BY <1>2, <1>3, <1>4, <1>5 DEF GitInvariant

(* So does a step of the reconciler.                                       *)
LEMMA WorkerStepGit ==
    ASSUME TypeOK, GitInvariant, WorkerStep \/ WorkerFails
    PROVE  GitInvariant'
<1>0. /\ UNCHANGED <<mode, log, writer>> /\ Extends(log') /\ Len(log) \in Nat \ {0}
      /\ (~WorkerCommit => row' = row)
  BY Unextended DEF WorkerStep, WorkerFails, ListFiles, ListOpenApi, GetApiYaml, LoadOpenApi, ReadRow, TryLock,
         WorkerFlush, WorkerCommit, TypeOK, Commits
<1>1. LogSound'
  BY <1>0 DEF GitInvariant, LogSound, Changed, HEAD
<1>2. \A v \in Writers : WriterSound(v)'
  BY <1>0, WriterKept DEF GitInvariant
<1>3. WorkerSound'
  <2>i. worker' = Idle => WorkerSound'
    BY DEF WorkerSound, Idle
  <2>k. WorkerSound
    BY DEF GitInvariant
  <2>u. worker' = worker => WorkerSound'
    BY <1>0, <2>k, WorkerKept
  <2>1. CASE ListFiles
    <3>1. CASE worker' = [pc |-> "listed", api |-> HEAD.api, commit |-> Len(log)]
      <4>1. worker'.pc = "listed" /\ worker'.commit = Len(log)
        BY <3>1
      <4> QED BY <1>0, <4>1 DEF WorkerSound
    <3> QED BY <2>u, <2>1, <3>1 DEF ListFiles
  <2>2. CASE ListOpenApi
    <3>1. CASE worker' = [pc |-> "get", key |-> <<worker.api, HEAD.spec>>, commit |-> worker.commit]
      <4>1. worker'.pc = "get" /\ worker'.commit = worker.commit
        BY <3>1
      <4> QED BY <1>0, <2>k, <2>2, <4>1 DEF WorkerSound, ListOpenApi
    <3> QED BY <2>i, <2>2, <3>1 DEF ListOpenApi
  <2>3. CASE GetApiYaml
    <3>1. CASE worker' = [pc |-> "spec", key |-> worker.key, commit |-> worker.commit, api |-> HEAD.api]
      <4>1. worker'.pc = "spec" /\ worker'.commit = worker.commit /\ worker'.api = HEAD.api
        BY <3>1
      <4>2. worker.commit \in 1 .. Len(log)
        BY <2>k, <2>3 DEF WorkerSound, GetApiYaml
      <4>3. Len(log) \in worker.commit .. Len(log) /\ log[Len(log)].api = HEAD.api
        BY <1>0, <4>2 DEF HEAD
      <4> QED BY <1>0, <4>1, <4>2, <4>3 DEF WorkerSound, CommittedSince
    <3> QED BY <2>i, <2>3, <3>1 DEF GetApiYaml, Remember
  <2>4. CASE LoadOpenApi
    <3> DEFINE s == IF worker.key[2] = None THEN None ELSE HEAD.spec
    <3>1. worker' = [pc |-> "row", key |-> worker.key, img |-> Row(worker.api, s, worker.commit)]
      BY <2>4 DEF LoadOpenApi
    <3>2. s = None \/ s = HEAD.spec
      OBVIOUS
    <3> HIDE DEF s
    <3>3. worker'.pc = "row" /\ worker'.img = Row(worker.api, s, worker.commit)
      BY <3>1
    <3>4. worker'.img.api = worker.api /\ worker'.img.spec = s /\ worker'.img.commit = worker.commit
      BY <3>3 DEF Row
    <3>5. worker.commit \in 1 .. Len(log) /\ CommittedSince(worker.api, worker.commit)
      BY <2>k, <2>4 DEF WorkerSound, LoadOpenApi
    <3>6. Len(log) \in worker.commit .. Len(log) /\ log[Len(log)].spec = HEAD.spec
      BY <1>0, <3>5 DEF HEAD
    <3>7. ImageSound(worker.img)'
      BY <1>0, <3>2, <3>4, <3>5, <3>6 DEF ImageSound, CommittedSince, SpecSince
    <3> QED BY <3>3, <3>7 DEF WorkerSound
  <2>5. CASE ReadRow \/ TryLock \/ WorkerFlush
    <3>1. ImageSound(worker.img)
      BY <2>k, <2>5 DEF WorkerSound, ReadRow, TryLock, WorkerFlush
    <3>2. ASSUME worker'.pc \in {"trylock", "flush", "commit"}, worker'.img = worker.img PROVE WorkerSound'
      <4>1. ImageSound(worker.img)'
        BY <1>0, <3>1, <3>2 DEF ImageSound, CommittedSince, SpecSince
      <4> QED BY <3>2, <4>1 DEF WorkerSound
    <3>3. CASE worker' = [worker EXCEPT !.pc = "trylock"]
      <4>1. worker \in Deciding \cup Writing
        BY <2>5, WorkerShape DEF ReadRow, TryLock, WorkerFlush
      <4>2. worker'.pc = "trylock" /\ worker'.img = worker.img
        BY <3>3, <4>1 DEF Deciding, Writing
      <4> QED BY <3>2, <4>2
    <3>4. CASE worker' = [worker EXCEPT !.pc = "commit"]
      <4>1. worker \in Deciding \cup Writing
        BY <2>5, WorkerShape DEF ReadRow, TryLock, WorkerFlush
      <4>2. worker'.pc = "commit" /\ worker'.img = worker.img
        BY <3>4, <4>1 DEF Deciding, Writing
      <4> QED BY <3>2, <4>2
    <3>5. CASE worker' = [pc |-> "flush", key |-> worker.key, img |-> worker.img, insert |-> ~row.live]
      <4>1. worker'.pc = "flush" /\ worker'.img = worker.img
        BY <3>5
      <4> QED BY <3>2, <4>1
    <3> QED BY <2>i, <2>5, <3>3, <3>4, <3>5 DEF ReadRow, TryLock, WorkerFlush, Remember
  <2>6. CASE WorkerCommit \/ WorkerFails
    BY <2>i, <2>6 DEF WorkerCommit, WorkerFails, Remember
  <2> QED BY <2>1, <2>2, <2>3, <2>4, <2>5, <2>6 DEF WorkerStep
<1>4. RowSound'
  <2>1. CASE row' = row
    BY <1>0, <2>1, RowKept DEF GitInvariant
  <2>2. CASE WorkerCommit /\ row' # row
    <3>1. row' = worker.img
      BY <2>2 DEF WorkerCommit
    <3>2. worker.img \in Image /\ ImageSound(worker.img)
      BY <2>2, WorkerShape DEF WorkerCommit, GitInvariant, WorkerSound, Writing
    <3> QED BY <1>0, <3>1, <3>2
            DEF RowSound, ImageSound, ProjectsCommitted, SpecFromGit, SpecSince, CommittedSince, Image
  <2> QED BY <1>0, <2>1, <2>2
<1> QED BY <1>1, <1>2, <1>3, <1>4 DEF GitInvariant

(* PUT keeps the commit and the OpenAPI document, DELETE leaves no row.    *)
LEMMA RowChanged ==
    ASSUME TypeOK, RowSound, UNCHANGED <<mode, log>>, UpdateApi \/ DeleteApi
    PROVE  RowSound'
<1>1. CASE UpdateApi
  <2>1. row \in LiveRows
    BY <1>1, RowType DEF UpdateApi, Absent
  <2>2. row'.live = row.live /\ row'.commit = row.commit /\ row'.spec = row.spec /\ row'.api = Edited
    BY <1>1, <2>1 DEF UpdateApi, LiveRows
  <2> QED BY <2>2 DEF RowSound, ProjectsCommitted, SpecFromGit
<1>2. CASE DeleteApi
  <2>1. ~row'.live
    BY <1>2 DEF DeleteApi, Absent
  <2> QED BY <2>1 DEF RowSound, ProjectsCommitted, SpecFromGit
<1> QED BY <1>1, <1>2

(* Every step does.                                                        *)
LEMMA NextGit == TypeOK /\ GitInvariant /\ [Next]_vars => GitInvariant'
<1> SUFFICES ASSUME TypeOK, GitInvariant, [Next]_vars PROVE GitInvariant'
  OBVIOUS
<1>0. LogSound /\ RowSound /\ WorkerSound /\ (\A v \in Writers : WriterSound(v)) /\ Extends(log)
  BY Unextended DEF GitInvariant
<1>u. log' = log => LogSound'
  BY <1>0 DEF LogSound, Changed, HEAD
<1>1. ASSUME NEW w \in Writers, NEW p \in [api : Contents, spec : OpenApis], BeginCreate(w, p) PROVE GitInvariant'
  <2>1. UNCHANGED <<mode, log, worker, row>> /\ \A v \in Writers \ {w} : writer'[v] = writer[v]
    BY <1>1 DEF BeginCreate, TypeOK
  <2>2. writer'[w].pc = "lock"
    <3>1. writer'[w] = [pc |-> "lock", want |-> p, tries |-> 0]
      BY <1>1 DEF BeginCreate, TypeOK
    <3> QED BY <3>1
  <2>3. \A v \in Writers : WriterSound(v)'
    <3>1. WriterSound(w)'
      BY <2>2 DEF WriterSound
    <3> QED BY <1>0, <2>1, <3>1, WriterKept
  <2> QED BY <1>0, <1>u, <2>1, <2>3, WorkerKept, RowKept DEF GitInvariant
<1>2. ASSUME UNCHANGED <<mode, log, writer, worker>>, row' = row \/ UpdateApi \/ DeleteApi PROVE GitInvariant'
  <2>1. RowSound'
    BY <1>0, <1>2, RowKept, RowChanged
  <2> QED BY <1>0, <1>u, <1>2, <2>1, WriterKept, WorkerKept DEF GitInvariant
<1>3. ASSUME RecycleConnection \/ UpdateApi \/ DeleteApi \/ UNCHANGED vars PROVE GitInvariant'
  BY <1>2, <1>3 DEF RecycleConnection, UpdateApi, DeleteApi, vars
<1>4. ASSUME NEW t \in Tree, EditGit(t) PROVE GitInvariant'
  <2>1. log' = Append(log, t) /\ UNCHANGED <<mode, writer, worker, row>>
    BY <1>4 DEF EditGit, CommitTree
  <2>2. Extends(log') /\ LogSound'
    BY <1>0, <2>1, Appended, AppendSound
  <2> QED BY <1>0, <2>1, <2>2, WriterKept, WorkerKept, RowKept DEF GitInvariant
<1>5. CASE Restart
  <2>1. UNCHANGED <<mode, log, row>> /\ worker'.pc = "idle" /\ \A w \in Writers : writer'[w].pc = "idle"
    BY <1>5 DEF Restart, Idle
  <2>2. WorkerSound' /\ \A w \in Writers : WriterSound(w)'
    BY <2>1 DEF WorkerSound, WriterSound
  <2> QED BY <1>0, <1>u, <2>1, <2>2, RowKept DEF GitInvariant
<1> QED BY <1>1, <1>3, <1>4, <1>5, WriterStepGit, WorkerStepGit DEF Next

(* At the start no row names a commit and nobody holds a copy.             *)
LEMMA InitGit == Init => GitInvariant
<1> SUFFICES ASSUME Init PROVE GitInvariant
  OBVIOUS
<1>1. Len(log) = 1 /\ log[1].api = None
  BY DEF Init
<1>2. LogSound
  BY <1>1 DEF LogSound
<1>3. worker.pc = "idle" /\ \A w \in Writers : writer[w].pc = "idle"
  BY DEF Init, Idle
<1>4. WorkerSound /\ \A w \in Writers : WriterSound(w)
  BY <1>3 DEF WorkerSound, WriterSound
<1>5. row.commit = None
  BY DEF Init, Absent, Row
<1>6. RowSound
  BY <1>5 DEF RowSound, ProjectsCommitted, SpecFromGit
<1> QED BY <1>2, <1>4, <1>6 DEF GitInvariant

(* Every variable of the catalog keeps its shape: in particular the commit *)
(* that an idempotent create asks Git for exists.                          *)
THEOREM TypeCorrect == Spec => []TypeOK
BY InitType, InitGit, NextType, NextGit, PTL DEF Spec

(* Git-first: a projected row shows an api.yaml that Git has had since the *)
(* commit the row names, whatever the order of creates, passes of the      *)
(* reconciler, commits by hand, failures and restarts.                     *)
THEOREM RowsWereCommitted == Spec => []ProjectsCommitted
<1>1. GitInvariant => ProjectsCommitted
  BY DEF GitInvariant, RowSound
<1> QED BY <1>1, InitType, InitGit, NextType, NextGit, PTL DEF Spec

(* In direct mode the OpenAPI document of a projected row is one that Git  *)
(* has had since that commit (_commit_openapi_spec, _load_openapi_spec).   *)
THEOREM SpecsWereCommitted == Spec => []SpecFromGit
<1>1. GitInvariant => SpecFromGit
  BY DEF GitInvariant, RowSound
<1> QED BY <1>1, InitType, InitGit, NextType, NextGit, PTL DEF Spec

-----------------------------------------------------------------------------
(* What a create may do.                                                   *)

(* POST /apis creates api.yaml or leaves it as it is, also when the file   *)
(* appears between its read and its write (_commit_or_noop).               *)
THEOREM CreatesOverwriteNothing == Spec => CreateNeverOverwrites
<1> DEFINE A == \A w \in Writers : WriterStep(w) => HEAD'.api = HEAD.api \/ HEAD.api = None
<1>1. TypeOK /\ [Next]_vars => [A]_vars
  <2> SUFFICES ASSUME TypeOK, NEW w \in Writers, WriterStep(w), HEAD.api # None PROVE HEAD'.api = HEAD.api
    OBVIOUS
  <2>1. CASE log' = log
    BY <2>1 DEF HEAD
  <2>2. CASE CreateFile(w)
    BY <2>1, <2>2 DEF CreateFile
  <2>3. CASE MergePullRequest(w)
    BY <2>1, <2>3 DEF MergePullRequest
  <2>4. CASE CommitOpenApi(w) /\ log' # log
    <3>1. HEAD \in Tree /\ writer[w].want.spec \in OpenApis
      BY <2>4, HeadType, WriterShape DEF CommitOpenApi, Middle, Payload
    <3>2. log' = Append(log, [HEAD EXCEPT !.spec = writer[w].want.spec])
      BY <2>4 DEF CommitOpenApi, CommitTree
    <3>3. HEAD' = [HEAD EXCEPT !.spec = writer[w].want.spec]
      BY <3>1, <3>2, HeadType, Appended DEF HEAD
    <3> QED BY <3>1, <3>3 DEF Tree
  <2> QED BY <2>1, <2>2, <2>3, <2>4
          DEF WriterStep, AcquireLock, GetFile, LatestFileCommit, OpenPullRequest, SelectRow,
              FlushRow, ReleaseLock, CommitCreate
<1> QED BY <1>1, TypeCorrect, PTL DEF Spec, CreateNeverOverwrites

(* How the step of writer w passes the lock and the row on.                *)
LEMMA WriterLocks ==
    ASSUME TypeOK, Locking, NEW w \in Writers, WriterStep(w) \/ CreateFails(w)
    PROVE  /\ writer'[w].pc \in Locked => lock' = w
           /\ lock' # lock => lock \in {None, w}
           /\ writer'[w].pc \in {"unlock", "commit"} => tx' = w
           /\ tx' # tx => tx \in {None, w}
<1>0. /\ writer \in [Writers -> WriterState] /\ Idle.pc = "idle"
      /\ writer[w].pc \in Locked => lock = w
      /\ writer[w].pc \in {"unlock", "commit"} => tx = w
  BY DEF TypeOK, Locking, Idle
<1>1. CASE AcquireLock(w)
  <2>1. writer'[w].pc = "get"
    BY <1>0, <1>1, WriterShape DEF AcquireLock, Early
  <2> QED BY <1>1, <2>1 DEF AcquireLock
<1>2. CASE GetFile(w) \/ OpenPullRequest(w)
  <2>1. lock = w /\ tx' = tx /\ writer[w] \in Early
    BY <1>0, <1>2, WriterShape DEF GetFile, OpenPullRequest, Locked
  <2>2. ASSUME NEW c \in {"create", "latest", "merge"}, writer' = [writer EXCEPT ![w].pc = c]
        PROVE  writer'[w].pc = c
    BY <1>0, <2>1, <2>2 DEF Early
  <2>3. \/ writer'[w].pc \in {"create", "latest", "merge"} /\ lock' = lock
        \/ writer'[w] = Idle /\ lock' = None
    BY <1>0, <1>2, <2>2 DEF GetFile, OpenPullRequest
  <2> QED BY <1>0, <2>1, <2>3 DEF Locked
<1>3. CASE LatestFileCommit(w) \/ MergePullRequest(w)
  <2>1. lock = w /\ tx' = tx
    BY <1>0, <1>3 DEF LatestFileCommit, MergePullRequest, Locked
  <2>2. \/ writer'[w].pc \in {"spec", "select"} /\ lock' = lock
        \/ writer'[w] = Idle /\ lock' = None
    BY <1>0, <1>3 DEF LatestFileCommit, MergePullRequest
  <2> QED BY <1>0, <2>1, <2>2 DEF Locked
<1>4. CASE CreateFile(w)
  <2>1. lock = w /\ tx' = tx /\ writer[w] \in Early
    BY <1>0, <1>4, WriterShape DEF CreateFile, Locked
  <2>2. [writer[w] EXCEPT !.pc = "get", !.tries = writer[w].tries + 1].pc = "get"
    BY <2>1 DEF Early
  <2>3. \/ writer'[w].pc \in {"spec", "get"} /\ lock' = lock
        \/ writer'[w] = Idle /\ lock' = None
    <3>1. CASE HEAD.api = None
      <4>1. writer'[w] = [pc |-> "spec", want |-> writer[w].want, at |-> Len(log) + 1] /\ lock' = lock
        BY <1>0, <1>4, <3>1 DEF CreateFile
      <4> QED BY <4>1
    <3>2. CASE HEAD.api # None /\ writer[w].tries + 1 < MAX_RACE_RETRIES
      <4>1. lock' = lock /\ writer'[w] = [writer[w] EXCEPT !.pc = "get", !.tries = writer[w].tries + 1]
        BY <1>0, <1>4, <3>2 DEF CreateFile
      <4> QED BY <2>2, <4>1
    <3>3. CASE HEAD.api # None /\ ~(writer[w].tries + 1 < MAX_RACE_RETRIES)
      BY <1>0, <1>4, <3>3 DEF CreateFile
    <3> QED BY <3>1, <3>2, <3>3
  <2> QED BY <1>0, <2>1, <2>3 DEF Locked
<1>5. CASE CommitOpenApi(w)
  <2>1. lock = w /\ tx' = tx /\ lock' = lock /\ writer'[w].pc = "select"
    BY <1>0, <1>5, WriterShape DEF CommitOpenApi, Locked, Middle
  <2> QED BY <2>1
<1>6. CASE SelectRow(w)
  <2>1. lock = w /\ tx' = tx
    BY <1>0, <1>6 DEF SelectRow, Locked
  <2>2. \/ writer'[w].pc = "flush" /\ lock' = lock
        \/ writer'[w] = Idle /\ lock' = None
    BY <1>0, <1>6 DEF SelectRow
  <2> QED BY <1>0, <2>1, <2>2 DEF Locked
<1>7. CASE FlushRow(w)
  <2>1. lock = w /\ tx = None /\ writer[w] \in Late
    BY <1>0, <1>7, WriterShape DEF FlushRow, Locked
  <2>2. \/ writer'[w].pc = "unlock" /\ lock' = lock /\ tx' = w
        \/ writer'[w] = Idle /\ lock' = Lost /\ tx' = tx
    BY <1>0, <1>7, <2>1 DEF FlushRow, Late
  <2> QED BY <1>0, <2>1, <2>2 DEF Locked
<1>8. CASE ReleaseLock(w)
  <2>1. lock = w /\ tx = w /\ tx' = tx /\ lock' = None /\ writer'[w].pc = "commit"
    BY <1>0, <1>8, WriterShape DEF ReleaseLock, Locked, Late
  <2> QED BY <2>1 DEF Locked
<1>9. CASE CommitCreate(w) \/ CreateFails(w)
  <2>1. writer'[w] = Idle
    BY <1>0, <1>9 DEF CommitCreate, CreateFails
  <2>2. (lock' # lock => lock = w) /\ (tx' # tx => tx = w)
    BY <1>0, <1>9 DEF CommitCreate, CreateFails, Locked
  <2> QED BY <1>0, <2>1, <2>2 DEF Locked
<1> QED BY <1>1, <1>2, <1>3, <1>4, <1>5, <1>6, <1>7, <1>8, <1>9 DEF WriterStep

(* A create holds the advisory lock while it works on Git, and the row     *)
(* lock from its flush to its commit.                                      *)
LEMMA NextLocking == TypeOK /\ Locking /\ [Next]_vars => Locking'
<1> SUFFICES ASSUME TypeOK, Locking, [Next]_vars PROVE Locking'
  OBVIOUS
<1>1. ASSUME NEW w \in Writers, WriterStep(w) \/ CreateFails(w) PROVE Locking'
  <2>1. worker' = worker /\ \A v \in Writers \ {w} : writer'[v] = writer[v]
    BY <1>1, WriterFrame
  <2>2. \A v \in Writers \ {w} : v \notin {None, w} /\ Worker \notin {None, w}
    BY CatalogValues
  <2>3. \A v \in Writers \ {w} : /\ writer'[v].pc \in Locked => lock' = v
                                 /\ writer'[v].pc \in {"unlock", "commit"} => tx' = v
    BY <1>1, <2>1, <2>2, WriterLocks DEF Locking
  <2>4. worker.pc \in {"flush", "commit"} => lock' = Worker
    BY <1>1, CatalogValues, WriterLocks DEF Locking
  <2>5. worker.pc = "commit" => tx' = Worker
    BY <1>1, CatalogValues, WriterLocks DEF Locking
  <2> QED BY <1>1, <2>1, <2>3, <2>4, <2>5, WriterLocks DEF Locking
<1>2. ASSUME NEW w \in Writers, NEW p \in [api : Contents, spec : OpenApis], BeginCreate(w, p) PROVE Locking'
  <2>1. UNCHANGED <<lock, tx, worker>> /\ \A v \in Writers \ {w} : writer'[v] = writer[v]
    BY <1>2 DEF BeginCreate, TypeOK
  <2>2. writer'[w].pc = "lock"
    <3>1. writer'[w] = [pc |-> "lock", want |-> p, tries |-> 0]
      BY <1>2 DEF BeginCreate, TypeOK
    <3> QED BY <3>1
  <2>3. \A v \in Writers : /\ writer'[v].pc \in Locked => lock' = v
                           /\ writer'[v].pc \in {"unlock", "commit"} => tx' = v
    BY <2>1, <2>2 DEF Locking, Locked
  <2> QED BY <2>1, <2>3 DEF Locking
<1>3. CASE WorkerStep \/ WorkerFails
  <2>0. writer' = writer /\ worker \in WorkerState /\ Idle.pc = "idle"
    BY <1>3 DEF WorkerStep, WorkerFails, ListFiles, ListOpenApi, GetApiYaml, LoadOpenApi, ReadRow, TryLock,
                WorkerFlush, WorkerCommit, TypeOK, Idle
  <2>1. (lock' # lock => lock \in {None, Worker}) /\ (tx' # tx => tx \in {None, Worker})
    BY <1>3 DEF WorkerStep, WorkerFails, ListFiles, ListOpenApi, GetApiYaml, LoadOpenApi, ReadRow, TryLock,
                WorkerFlush, WorkerCommit, Locking
  <2>2. \A v \in Writers : /\ writer'[v].pc \in Locked => lock' = v
                           /\ writer'[v].pc \in {"unlock", "commit"} => tx' = v
    <3>1. \A v \in Writers : v \notin {None, Worker}
      BY CatalogValues
    <3> QED BY <2>0, <2>1, <3>1 DEF Locking
  <2>3. /\ worker'.pc \in {"flush", "commit"} => lock' = Worker
        /\ worker'.pc = "commit" => tx' = Worker
    <3>1. CASE ListFiles \/ ListOpenApi \/ GetApiYaml \/ LoadOpenApi
      <4>1. worker'.pc \notin {"flush", "commit"}
        BY <2>0, <3>1 DEF ListFiles, ListOpenApi, GetApiYaml, LoadOpenApi, Remember
      <4> QED BY <4>1
    <3>2. CASE ReadRow
      <4>1. worker \in Deciding
        BY <3>2, WorkerShape DEF ReadRow
      <4>2. [worker EXCEPT !.pc = "trylock"].pc = "trylock"
        BY <4>1 DEF Deciding
      <4> QED BY <2>0, <3>2, <4>2 DEF ReadRow, Remember
    <3>3. CASE TryLock
      <4>1. (worker'.pc = "flush" /\ lock' = Worker) \/ worker' = Idle
        BY <3>3 DEF TryLock, Remember
      <4> QED BY <2>0, <4>1
    <3>4. CASE WorkerFlush
      <4>1. worker \in Writing /\ lock = Worker
        BY <3>4, WorkerShape DEF WorkerFlush, Locking
      <4>2. [worker EXCEPT !.pc = "commit"].pc = "commit"
        BY <4>1 DEF Writing
      <4> QED BY <2>0, <3>4, <4>1, <4>2 DEF WorkerFlush
    <3>5. CASE WorkerCommit \/ WorkerFails
      BY <2>0, <3>5 DEF WorkerCommit, WorkerFails, Remember
    <3> QED BY <1>3, <3>1, <3>2, <3>3, <3>4, <3>5 DEF WorkerStep
  <2> QED BY <2>2, <2>3 DEF Locking
<1>4. CASE RecycleConnection
  <2>1. Lost \notin Writers \cup {Worker}
    BY CatalogValues
  <2>2. UNCHANGED <<writer, worker, tx>> /\ lock = Lost
    BY <1>4 DEF RecycleConnection
  <2> QED BY <2>1, <2>2 DEF Locking
<1>5. ASSUME UpdateApi \/ DeleteApi \/ (\E t \in Tree : EditGit(t)) \/ UNCHANGED vars PROVE Locking'
  <2>1. UNCHANGED <<writer, worker, tx, lock>>
    BY <1>5 DEF UpdateApi, DeleteApi, EditGit, vars
  <2> QED BY <2>1 DEF Locking
<1>6. CASE Restart
  <2>1. worker'.pc = "idle" /\ \A w \in Writers : writer'[w].pc = "idle"
    BY <1>6 DEF Restart, Idle
  <2> QED BY <2>1 DEF Locking, Locked
<1> QED BY <1>1, <1>2, <1>3, <1>4, <1>5, <1>6 DEF Next

(* What writer v read stays fresh when the row keeps its commit or takes   *)
(* the one of a transaction that v knew of.                                *)
LEMMA FreshKept ==
    ASSUME TypeOK, Extends(log'), NEW v \in Writers, NEW c, Fresh(c, v),
           \A u \in Writers \ {v} : writer'[u].pc = "commit" => writer'[u] = writer[u],
           row'.live /\ row'.commit # None =>
               \/ row.live /\ row.commit # None /\ row'.commit = row.commit
               \/ \E u \in Writers \ {v} : writer[u].pc = "commit" /\ row' = writer[u].img
    PROVE  Fresh(c, v)'
<1>1. row.live /\ row.commit # None => row.commit \in Commits
  <2>1. CASE row = Absent
    BY <2>1 DEF Absent
  <2>2. CASE row \in LiveRows
    BY <2>2 DEF LiveRows
  <2> QED BY <2>1, <2>2, RowType
<1>2. \A u \in Writers : writer[u].pc = "commit" => writer[u].img.commit \in Commits
  BY WriterShape DEF Late, Image
<1>3. ASSUME NEW i \in Commits, CommittedSince(c, i) PROVE \E j \in i .. Len(log') : log'[j].api = c
  BY <1>3, SinceKept DEF CommittedSince
<1>4. row'.live /\ row'.commit # None => \E j \in row'.commit .. Len(log') : log'[j].api = c
  BY <1>1, <1>2, <1>3 DEF Fresh
<1>5. \A u \in Writers \ {v} : writer'[u].pc = "commit" =>
          \E j \in writer'[u].img.commit .. Len(log') : log'[j].api = c
  BY <1>2, <1>3 DEF Fresh
<1> QED BY <1>4, <1>5 DEF Fresh, CommittedSince

(* The content of HEAD is fresh for whoever reads it.                      *)
LEMMA HeadFresh ==
    ASSUME TypeOK, GitInvariant, NEW v \in Writers, Extends(log'), row' = row,
           \A u \in Writers \ {v} : writer'[u] = writer[u], NEW c, log'[Len(log')].api = c
    PROVE  Fresh(c, v)'
<1>1. row.live /\ row.commit # None => row.commit \in 1 .. Len(log)
  BY DEF GitInvariant, RowSound
<1>2. \A u \in Writers : writer[u].pc = "commit" => writer[u].img.commit \in 1 .. Len(log)
  BY DEF GitInvariant, WriterSound, ImageSound
<1>3. \A i \in 1 .. Len(log) : \E j \in i .. Len(log') : log'[j].api = c
  <2>1. \A i \in 1 .. Len(log) : Len(log') \in i .. Len(log')
    BY DEF Extends, TypeOK, Commits
  <2> QED BY <2>1
<1> QED BY <1>1, <1>2, <1>3 DEF Fresh, CommittedSince

(* A writer that a step leaves alone.                                      *)
LEMMA WriterFreshKept ==
    ASSUME TypeOK, GitInvariant, Extends(log'), NEW v \in Writers, WriterFresh(v), writer'[v] = writer[v],
           \A u \in Writers \ {v} : writer'[u].pc = "commit" => writer'[u] = writer[u],
           row'.live /\ row'.commit # None =>
               \/ row.live /\ row.commit # None /\ row'.commit = row.commit
               \/ \E u \in Writers \ {v} : writer[u].pc = "commit" /\ row' = writer[u].img
    PROVE  WriterFresh(v)'
<1>1. writer[v].pc \in {"spec", "select"} => log'[writer'[v].at].api = log[writer[v].at].api
  BY SinceKept DEF GitInvariant, WriterSound
<1>2. \A c : Fresh(c, v) => Fresh(c, v)'
  BY FreshKept
<1>3. writer'[v].pc \in {"spec", "select"} => Fresh(log[writer[v].at].api, v)'
  BY <1>1, <1>2 DEF WriterFresh, Fresh
<1>4. writer'[v].pc \in {"flush", "unlock", "commit"} => Fresh(writer[v].img.api, v)'
  BY <1>2 DEF WriterFresh, Fresh
<1> QED BY <1>3, <1>4 DEF WriterFresh

(* Writer w itself: it reads HEAD, and then keeps what it read.            *)
LEMMA WriterStepFresh ==
    ASSUME TypeOK, GitInvariant, NEW w \in Writers, WriterFresh(w), WriterStep(w) \/ CreateFails(w)
    PROVE  WriterFresh(w)'
<1> DEFINE q == writer[w]
<1>0. /\ writer \in [Writers -> WriterState] /\ Extends(log') /\ LogSound /\ WriterSound(w)
      /\ \A u \in Writers \ {w} : writer'[u] = writer[u]
  BY WriterFrame DEF TypeOK, GitInvariant
<1>e. writer'[w].pc \in {"idle", "lock", "get", "latest", "create", "merge"} => WriterFresh(w)'
  BY DEF WriterFresh
<1>i. writer'[w] = Idle => WriterFresh(w)'
  BY <1>e DEF Idle
<1>k. ASSUME row' = row, NEW c, Fresh(c, w) PROVE Fresh(c, w)'
  BY <1>0, <1>k, FreshKept
<1>1. CASE AcquireLock(w) \/ GetFile(w) \/ OpenPullRequest(w)
  <2>1. writer[w] \in Early
    BY <1>1, WriterShape DEF AcquireLock, GetFile, OpenPullRequest
  <2>2. ASSUME NEW c \in {"get", "create", "latest", "merge"}, writer' = [writer EXCEPT ![w].pc = c]
        PROVE  writer'[w].pc = c
    BY <1>0, <2>1, <2>2 DEF Early
  <2>3. writer'[w].pc \in {"get", "create", "latest", "merge"} \/ writer'[w] = Idle
    BY <1>0, <1>1, <2>2 DEF AcquireLock, GetFile, OpenPullRequest
  <2> QED BY <1>e, <1>i, <2>3
<1>2. CASE LatestFileCommit(w)
  <2>1. latest_file_commit \in 2 .. Len(log) /\ log[latest_file_commit].api = HEAD.api
    BY <1>0, <1>2, LatestFound DEF WriterSound, LatestFileCommit
  <2>2. writer'[w].pc \in {"spec", "select"} /\ writer'[w].at = latest_file_commit /\ log' = log /\ row' = row
    BY <1>0, <1>2 DEF LatestFileCommit
  <2>3. log'[writer'[w].at].api = log'[Len(log')].api
    BY <2>1, <2>2 DEF HEAD
  <2>4. Fresh(log[writer[w].at].api, w)'
    BY <1>0, <2>2, <2>3, HeadFresh
  <2> QED BY <2>2, <2>4 DEF WriterFresh
<1>3. CASE CreateFile(w)
  <2>1. CASE HEAD.api = None
    <3>1. writer'[w] = [pc |-> "spec", want |-> q.want, at |-> Len(log) + 1] /\ row' = row
      BY <1>0, <1>3, <2>1 DEF CreateFile
    <3>2. writer'[w].pc = "spec" /\ writer'[w].at = Len(log) + 1
      BY <3>1
    <3>3. q.want.api \in Contents
      BY <1>3, WriterShape DEF CreateFile, Early, Payload
    <3>4. Len(log') = Len(log) + 1
      BY <1>3, <2>1, <3>3, HeadType, Appended DEF CreateFile, CommitTree
    <3>5. Fresh(log[writer[w].at].api, w)'
      BY <1>0, <3>1, <3>2, <3>4, HeadFresh
    <3> QED BY <3>2, <3>5 DEF WriterFresh
  <2>2. CASE HEAD.api # None /\ q.tries + 1 < MAX_RACE_RETRIES
    <3>1. writer'[w] = [q EXCEPT !.pc = "get", !.tries = q.tries + 1] /\ q \in Early
      BY <1>0, <1>3, <2>2, WriterShape DEF CreateFile
    <3>2. writer'[w].pc = "get"
      BY <3>1 DEF Early
    <3> QED BY <1>e, <3>2
  <2>3. CASE HEAD.api # None /\ ~(q.tries + 1 < MAX_RACE_RETRIES)
    BY <1>0, <1>i, <1>3, <2>3 DEF CreateFile
  <2> QED BY <2>1, <2>2, <2>3
<1>4. CASE MergePullRequest(w)
  <2>1. CASE HEAD = [api |-> None, spec |-> None]
    <3>1. writer'[w] = [pc |-> "select", want |-> q.want, at |-> Len(log) + 1] /\ row' = row
      BY <1>0, <1>4, <2>1 DEF MergePullRequest
    <3>2. writer'[w].pc = "select" /\ writer'[w].at = Len(log) + 1
      BY <3>1
    <3>3. q.want \in Tree
      BY <1>4, WriterShape DEF MergePullRequest, Early, Payload, Tree
    <3>4. Len(log') = Len(log) + 1
      BY <1>4, <2>1, <3>3, Appended DEF MergePullRequest, CommitTree
    <3>5. Fresh(log[writer[w].at].api, w)'
      BY <1>0, <3>1, <3>2, <3>4, HeadFresh
    <3> QED BY <3>2, <3>5 DEF WriterFresh
  <2>2. CASE HEAD # [api |-> None, spec |-> None]
    BY <1>0, <1>i, <1>4, <2>2 DEF MergePullRequest
  <2> QED BY <2>1, <2>2
<1>5. CASE CommitOpenApi(w)
  <2>1. q \in Middle /\ q.at \in 1 .. Len(log) /\ row' = row /\ Fresh(log[q.at].api, w)
    BY <1>0, <1>5, WriterShape DEF CommitOpenApi, WriterSound, WriterFresh
  <2>2. writer'[w] = [q EXCEPT !.pc = "select"]
    BY <1>0, <1>5 DEF CommitOpenApi
  <2>3. writer'[w].pc = "select" /\ writer'[w].at = q.at
    BY <2>1, <2>2 DEF Middle
  <2>4. log'[writer'[w].at].api = log[q.at].api
    BY <1>0, <2>1, <2>3, SinceKept
  <2>5. Fresh(log[writer[w].at].api, w)'
    BY <1>k, <2>1, <2>4 DEF Fresh
  <2> QED BY <2>3, <2>5 DEF WriterFresh
<1>6. CASE SelectRow(w)
  <2> DEFINE c == log[q.at].api
  <2>1. row' = row /\ Fresh(c, w)
    BY <1>6 DEF SelectRow, WriterFresh
  <2>2. CASE c \in Contents
    <3>1. writer'[w] = [pc |-> "flush", insert |-> ~row.live, img |-> Row(c, q.want.spec, q.at)]
      BY <1>0, <1>6, <2>2 DEF SelectRow
    <3>2. writer'[w].pc = "flush" /\ writer'[w].img = Row(c, q.want.spec, q.at)
      BY <3>1
    <3>3. writer'[w].img.api = c
      BY <3>2 DEF Row
    <3>4. Fresh(writer[w].img.api, w)'
      BY <1>k, <2>1, <3>3 DEF Fresh
    <3> QED BY <3>2, <3>4 DEF WriterFresh
  <2>3. CASE c \notin Contents
    BY <1>0, <1>i, <1>6, <2>3 DEF SelectRow
  <2> QED BY <2>2, <2>3
<1>7. CASE FlushRow(w) \/ ReleaseLock(w)
  <2>1. q \in Late /\ row' = row /\ Fresh(q.img.api, w)
    BY <1>7, WriterShape DEF FlushRow, ReleaseLock, WriterFresh
  <2>2. ASSUME NEW c \in {"unlock", "commit"}, writer' = [writer EXCEPT ![w].pc = c] PROVE WriterFresh(w)'
    <3>1. writer'[w] = [q EXCEPT !.pc = c]
      BY <1>0, <2>2
    <3>2. writer'[w].pc = c /\ writer'[w].img = q.img
      BY <2>1, <3>1 DEF Late
    <3>3. Fresh(writer[w].img.api, w)'
      BY <1>k, <2>1, <3>2 DEF Fresh
    <3> QED BY <2>2, <3>2, <3>3 DEF WriterFresh
  <2>3. CASE writer' = [writer EXCEPT ![w] = Idle]
    BY <1>0, <1>i, <2>3
  <2> QED BY <1>7, <2>2, <2>3 DEF FlushRow, ReleaseLock
<1>8. CASE CommitCreate(w) \/ CreateFails(w)
  BY <1>0, <1>i, <1>8 DEF CommitCreate, CreateFails
<1> QED BY <1>1, <1>2, <1>3, <1>4, <1>5, <1>6, <1>7, <1>8 DEF WriterStep

(* Only ReleaseLock leads to the commit.                                   *)
LEMMA WriterNotCommitting ==
    ASSUME TypeOK, NEW w \in Writers, WriterStep(w) \/ CreateFails(w), ~ReleaseLock(w)
    PROVE  writer'[w].pc # "commit"
<1>0. writer \in [Writers -> WriterState] /\ Idle.pc = "idle"
  BY DEF TypeOK, Idle
<1>1. CASE AcquireLock(w) \/ GetFile(w) \/ OpenPullRequest(w)
  <2>1. writer[w] \in Early
    BY <1>1, WriterShape DEF AcquireLock, GetFile, OpenPullRequest
  <2>2. ASSUME NEW c \in {"get", "create", "latest", "merge"}, writer' = [writer EXCEPT ![w].pc = c]
        PROVE  writer'[w].pc = c
    BY <1>0, <2>1, <2>2 DEF Early
  <2> QED BY <1>0, <1>1, <2>2 DEF AcquireLock, GetFile, OpenPullRequest
<1>2. CASE CreateFile(w)
  <2>1. [writer[w] EXCEPT !.pc = "get", !.tries = writer[w].tries + 1].pc = "get"
    BY <1>2, WriterShape DEF CreateFile, Early
  <2>2. CASE HEAD.api = None
    <3>1. writer'[w] = [pc |-> "spec", want |-> writer[w].want, at |-> Len(log) + 1]
      BY <1>0, <1>2, <2>2 DEF CreateFile
    <3> QED BY <3>1
  <2>3. CASE HEAD.api # None /\ writer[w].tries + 1 < MAX_RACE_RETRIES
    <3>1. writer'[w] = [writer[w] EXCEPT !.pc = "get", !.tries = writer[w].tries + 1]
      BY <1>0, <1>2, <2>3 DEF CreateFile
    <3> QED BY <2>1, <3>1
  <2>4. CASE HEAD.api # None /\ ~(writer[w].tries + 1 < MAX_RACE_RETRIES)
    BY <1>0, <1>2, <2>4 DEF CreateFile
  <2> QED BY <2>2, <2>3, <2>4
<1>3. CASE LatestFileCommit(w) \/ MergePullRequest(w) \/ SelectRow(w)
  BY <1>0, <1>3 DEF LatestFileCommit, MergePullRequest, SelectRow
<1>4. CASE CommitOpenApi(w)
  BY <1>0, <1>4, WriterShape DEF CommitOpenApi, Middle
<1>5. CASE FlushRow(w)
  <2>1. writer[w] \in Late
    BY <1>5, WriterShape DEF FlushRow
  <2> QED BY <1>0, <1>5, <2>1 DEF FlushRow, Late
<1>6. CASE CommitCreate(w) \/ CreateFails(w)
  BY <1>0, <1>6 DEF CommitCreate, CreateFails
<1> QED BY <1>1, <1>2, <1>3, <1>4, <1>5, <1>6 DEF WriterStep

(* What a create read of Git is not older than any commit the row names.   *)
LEMMA NextFresh ==
    TypeOK /\ GitInvariant /\ Locking /\ Freshness /\ [Next]_vars => Freshness'
<1> SUFFICES ASSUME TypeOK, GitInvariant, Locking, Freshness, [Next]_vars PROVE Freshness'
  OBVIOUS
<1>0. (\A v \in Writers : WriterFresh(v)) /\ Extends(log)
  BY Unextended DEF Freshness
<1> SUFFICES \A v \in Writers : WriterFresh(v)'
  BY DEF Freshness
<1> SUFFICES ASSUME NEW v \in Writers PROVE WriterFresh(v)'
  OBVIOUS
<1>1. ASSUME NEW w \in Writers, WriterStep(w) \/ CreateFails(w) PROVE WriterFresh(v)'
  <2>0. Extends(log') /\ \A u \in Writers \ {w} : writer'[u] = writer[u]
    BY <1>1, WriterFrame
  <2>1. CASE v = w
    BY <1>0, <1>1, <2>1, WriterStepFresh
  <2>2. CASE v # w /\ writer'[w].pc = "commit"
    <3>1. writer[w].pc = "unlock"
      <4>1. CASE ReleaseLock(w)
        BY <4>1 DEF ReleaseLock
      <4>2. CASE ~ReleaseLock(w)
        BY <1>1, <2>2, <4>2, WriterNotCommitting
      <4> QED BY <4>1, <4>2
    <3>2. lock = w /\ tx = w
      BY <3>1 DEF Locking, Locked
    <3>3. writer[v].pc \notin Locked /\ writer[v].pc # "commit"
      BY <2>2, <3>2 DEF Locking
    <3> QED BY <2>0, <2>2, <3>3 DEF WriterFresh, Locked
  <2>3. CASE v # w /\ writer'[w].pc # "commit"
    <3>1. \A u \in Writers \ {v} : writer'[u].pc = "commit" => writer'[u] = writer[u]
      BY <2>0, <2>3
    <3>2. row' = row \/ (writer[w].pc = "commit" /\ row' = writer[w].img)
      BY <1>1, WriterFrame DEF CommitCreate
    <3> QED BY <1>0, <2>0, <2>3, <3>1, <3>2, WriterFreshKept
  <2> QED BY <2>1, <2>2, <2>3
<1>2. ASSUME NEW w \in Writers, NEW p \in [api : Contents, spec : OpenApis], BeginCreate(w, p)
      PROVE  WriterFresh(v)'
  <2>1. UNCHANGED <<log, row>> /\ \A u \in Writers \ {w} : writer'[u] = writer[u]
    BY <1>2 DEF BeginCreate, TypeOK
  <2>2. writer'[w].pc = "lock"
    <3>1. writer'[w] = [pc |-> "lock", want |-> p, tries |-> 0]
      BY <1>2 DEF BeginCreate, TypeOK
    <3> QED BY <3>1
  <2>3. CASE v = w
    BY <2>2, <2>3 DEF WriterFresh
  <2>4. CASE v # w
    BY <1>0, <2>1, <2>2, <2>4, WriterFreshKept
  <2> QED BY <2>3, <2>4
<1>3. ASSUME UNCHANGED <<log, writer>>,
             row'.live /\ row'.commit # None => row.live /\ row.commit # None /\ row'.commit = row.commit
      PROVE  WriterFresh(v)'
  BY <1>0, <1>3, WriterFreshKept
<1>4. CASE WorkerStep \/ WorkerFails
  <2>1. UNCHANGED <<log, writer>> /\ (~WorkerCommit => row' = row)
    BY <1>4 DEF WorkerStep, WorkerFails, ListFiles, ListOpenApi, GetApiYaml, LoadOpenApi, ReadRow, TryLock,
                WorkerFlush, WorkerCommit
  <2>2. CASE WorkerCommit
    <3>1. lock = Worker /\ tx = Worker
      BY <2>2 DEF WorkerCommit, Locking
    <3>2. writer[v].pc \notin Locked /\ writer[v].pc # "commit"
      BY <3>1, CatalogValues DEF Locking
    <3> QED BY <2>1, <3>2 DEF WriterFresh, Locked
  <2> QED BY <1>3, <2>1, <2>2
<1>5. CASE RecycleConnection \/ UNCHANGED vars
  BY <1>3, <1>5 DEF RecycleConnection, vars
<1>6. CASE UpdateApi
  <2>1. row \in LiveRows
    BY <1>6, RowType DEF UpdateApi, Absent
  <2>2. row'.live = row.live /\ row'.commit = row.commit
    BY <1>6, <2>1 DEF UpdateApi, LiveRows
  <2> QED BY <1>3, <1>6, <2>2 DEF UpdateApi
<1>7. CASE DeleteApi
  <2>1. ~row'.live
    BY <1>7 DEF DeleteApi, Absent
  <2> QED BY <1>3, <1>7, <2>1 DEF DeleteApi
<1>8. ASSUME NEW t \in Tree, EditGit(t) PROVE WriterFresh(v)'
  <2>1. Extends(log') /\ UNCHANGED <<writer, row>>
    BY <1>8, Appended DEF EditGit, CommitTree
  <2> QED BY <1>0, <2>1, WriterFreshKept
<1>9. CASE Restart
  <2>1. writer'[v].pc = "idle"
    BY <1>9 DEF Restart, Idle
  <2> QED BY <2>1 DEF WriterFresh
<1> QED BY <1>1, <1>2, <1>4, <1>5, <1>6, <1>7, <1>8, <1>9 DEF Next

(* At the start no lock is held and no create is under way.                *)
LEMMA InitLocks == Init => Locking /\ Freshness
<1> SUFFICES ASSUME Init PROVE Locking /\ Freshness
  OBVIOUS
<1>1. worker.pc = "idle" /\ \A w \in Writers : writer[w].pc = "idle"
  BY DEF Init, Idle
<1> QED BY <1>1 DEF Locking, Locked, Freshness, WriterFresh

(* The lock covers the read of Git and the write of the row: the           *)
(* transaction of a create never puts the row back to a content that Git   *)
(* had left before the commit the row already named.                       *)
THEOREM CreatesRegressNothing == Spec => CreateNeverRegresses
<1> DEFINE A == \A w \in Writers :
                    CommitCreate(w) /\ row.live /\ row.commit # None =>
                        CommittedSince(writer[w].img.api, row.commit)
<1>1. Freshness => A
  BY DEF Freshness, WriterFresh, Fresh, CommitCreate
<1>2. Freshness /\ [Next]_vars => [A]_vars
  BY <1>1
<1>3. Spec => []Freshness
  BY InitType, InitGit, InitLocks, NextType, NextGit, NextLocking, NextFresh, PTL DEF Spec
<1> QED BY <1>2, <1>3, PTL DEF Spec, CreateNeverRegresses
=============================================================================
