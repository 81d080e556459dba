------------------------- MODULE ApiLifecycle_proofs -------------------------
(***************************************************************************)
(* Proofs about the lifecycle of an API: types, what the publication       *)
(* records say, and which promotion the row of an environment belongs to.  *)
(* The parts of the invariant take the tables they are about as            *)
(* parameters, so that a step that leaves a table alone keeps them.        *)
(***************************************************************************)
EXTENDS ApiLifecycle, WellFoundedInduction, TLAPS

(* The requests that write a deployment row, and the row's environment.    *)
Writes(q) == q.op \in {"deploy", "promote"}
Target(q) == IF q.op = "deploy" THEN q.env ELSE q.chain[2]

LinkedTo(ps, i, e) == i \in DOMAIN ps /\ ps[i].dst = e /\ ps[i].linked

(* Promotions: a linked one is a lifecycle promotion and no longer waits.  *)
PromosSound(ps) ==
    /\ IndexHolds(ps)
    /\ \A i \in DOMAIN ps :
        ps[i].linked => ps[i].status # "PENDING" /\ <<ps[i].src, ps[i].dst>> \in Chains

(* A row d belongs to a promotion of its environment.  Where no generation *)
(* was counted twice, its desired state names that promotion or none, and  *)
(* the gateway has served it when the generations agree.                   *)
RowSound(d, e, ps, sv, cl) ==
    d # NoRow =>
        /\ d.promo # 0 => LinkedTo(ps, d.promo, e)
        /\ e \notin cl =>
            /\ d.via \in {0, d.promo}
            /\ d.synced <= d.desired
            /\ d.synced = d.desired => d.spec \in sv[e]

(* The open promotion of a target has its row.                             *)
OpenRows(ps, dp, rv, cl) ==
    \A i \in DOMAIN ps \ rv :
        ps[i].linked /\ ps[i].status \in Active /\ ps[i].dst \notin cl =>
            dp[ps[i].dst] # NoRow /\ dp[ps[i].dst].promo = i

(* The row d of e that a request read is an earlier one, or the one there  *)
(* is now: a generation names one desired state.                           *)
Earlier(d, now) ==
    /\ d.desired <= now.desired
    /\ d.desired = now.desired => d.spec = now.spec /\ d.via = now.via /\ d.promo = now.promo

SeenSound(q, dp, ps, cl) ==
    Writes(q) /\ q.seen # NoRow =>
        /\ dp[Target(q)] # NoRow
        /\ q.seen.promo # 0 => LinkedTo(ps, q.seen.promo, Target(q))
        /\ Target(q) \notin cl => Earlier(q.seen, dp[Target(q)])

(* What a deployment will write.                                           *)
DeploySound(q) ==
    q.op = "deploy" =>
        IF q.seen = NoRow THEN q.row.via = 0 /\ q.row.promo = 0 /\ q.row.desired = 1 /\ q.row.synced = 0
        ELSE /\ q.row.promo = q.seen.promo /\ q.row.synced = q.seen.synced
             /\ q.row = q.seen \/ (q.row.desired = q.seen.desired + 1 /\ q.row.via = 0)

(* The promotion a request goes on with, and those it knows of.            *)
PromoteSound(q, ps) ==
    q.op \in {"chosen", "promote"} =>
        /\ 1 .. q.known \subseteq DOMAIN ps
        /\ IF q.id = 0 THEN q.status = "PROMOTING"
           ELSE /\ q.id \in DOMAIN ps /\ ps[q.id].src = q.chain[1] /\ ps[q.id].dst = q.chain[2]
                /\ q.status # "PENDING" => ps[q.id].status # "PENDING"

(* The other promotions it knows of had ended, and are not open again      *)
(* unless revived.                                                         *)
OthersEnded(q, ps, rv) ==
    q.op \in {"chosen", "promote"} /\ q.id # 0 =>
        \A i \in 1 .. q.known :
            i # q.id /\ ps[i].src = q.chain[1] /\ ps[i].dst = q.chain[2]
                => ps[i].status \notin Active \/ i \in rv

ChangeSound(q, ps) ==
    q.op = "change" =>
        /\ IF q.id = 0 THEN q.status = None
           ELSE q.id \in DOMAIN ps /\ q.status \in {"PROMOTING", "PROMOTED", "ROLLED_BACK"}
        /\ \A k \in DOMAIN q.new : ~q.new[k].linked

(* Publication records, in the catalog and in requests.                    *)
Served(p, sv, cl) == \A e \in Environments \ cl : p[e] # None => p[e] \in sv[e]
PublishSound(q, sv, cl) ==
    /\ q.op \in {"update", "publish"} => Served(q.pubs, sv, cl)
    /\ q.op = "publish" => q.env \in cl \/ q.spec \in sv[q.env]

RequestSound(q, dp, ps, sv, rv, cl) ==
    /\ SeenSound(q, dp, ps, cl)
    /\ DeploySound(q)
    /\ PromoteSound(q, ps)
    /\ OthersEnded(q, ps, rv)
    /\ ChangeSound(q, ps)
    /\ PublishSound(q, sv, cl)

CheckSound(c, ps) == c.op \in {"read", "write"} => c.promo \in DOMAIN ps

CatalogSound(a) == a.status # "absent" => a.spec # None

LifecycleInvariant ==
    /\ CatalogSound(api)
    /\ PromosSound(promos)
    /\ \A e \in Environments : RowSound(dep[e], e, promos, served, clashed)
    /\ OpenRows(promos, dep, Excused, clashed)
    /\ \A r \in Slots : RequestSound(req[r], dep, promos, served, Excused, clashed)
    /\ Served(api.pubs, served, clashed)
    /\ \A e \in Environments : CheckSound(check[e], promos)

------------------------------------------------------------------------------
(* Shapes.                                                                 *)

Updates == [op : {"update"}, spec : Specs, pubs : Publications]
Deploys == [op : {"deploy"}, env : Environments, seen : Row \cup {NoRow}, row : Row]
Publishes == [op : {"publish"}, env : Environments, spec : Specs, pubs : Publications, known : BOOLEAN]
Choices == [op : {"chosen"}, chain : Chains, by : Users, force : BOOLEAN, id : Nat,
            status : PromotionStatus, spec : Specs, known : Nat]
Promotes == [op : {"promote"}, chain : Chains, by : Users, force : BOOLEAN, id : Nat,
             status : PromotionStatus, spec : Specs, known : Nat, seen : Row \cup {NoRow}]
Changes == [op : {"change"}, id : Nat, status : PromotionStatus \cup {None},
            approved : Users \cup {None}, new : Seq(PromotionRow)]
Checks == {Idle} \cup [op : {"read"}, promo : Nat]
                 \cup [op : {"write"}, promo : Nat, verdict : {"PROMOTED", "FAILED"}]
CatalogRow == [status : {"absent", "draft", "ready"}, spec : Specs \cup {None}, published : BOOLEAN,
               git : BOOLEAN, pubs : Publications]

(* The operation of a request tells its fields.                            *)
LEMMA RequestShape ==
    ASSUME NEW q \in Request
    PROVE  /\ q.op = "update" => q \in Updates
           /\ q.op = "deploy" => q \in Deploys
           /\ q.op = "publish" => q \in Publishes
           /\ q.op = "chosen" => q \in Choices
           /\ q.op = "promote" => q \in Promotes
           /\ q.op = "change" => q \in Changes
<1>1. q \in {Idle} => q.op = "idle"
  BY DEF Idle
<1>2. /\ q \in Updates => q.op = "update"
      /\ q \in Deploys => q.op = "deploy"
      /\ q \in Publishes => q.op = "publish"
      /\ q \in Choices => q.op = "chosen"
      /\ q \in Promotes => q.op = "promote"
      /\ q \in Changes => q.op = "change"
  BY DEF Updates, Deploys, Publishes, Choices, Promotes, Changes
<1>3. q \in {Idle} \/ q \in Updates \/ q \in Deploys \/ q \in Publishes \/ q \in Choices
      \/ q \in Promotes \/ q \in Changes
  BY Zenon DEF Request, Updates, Deploys, Publishes, Choices, Promotes, Changes
<1> QED BY <1>1, <1>2, <1>3

(* Each kind of request is a request, and so is the idle slot.             *)
LEMMA RequestSets ==
    /\ Idle \in Request
    /\ Updates \subseteq Request /\ Deploys \subseteq Request /\ Publishes \subseteq Request
    /\ Choices \subseteq Request /\ Promotes \subseteq Request /\ Changes \subseteq Request
BY Zenon DEF Request, Updates, Deploys, Publishes, Choices, Promotes, Changes

(* The step of a completion check tells its fields.                        *)
LEMMA CheckShape ==
    ASSUME NEW c \in Checks
    PROVE  /\ c.op = "read" => c \in [op : {"read"}, promo : Nat]
           /\ c.op = "write" => c \in [op : {"write"}, promo : Nat, verdict : {"PROMOTED", "FAILED"}]
BY DEF Checks, Idle

(* The absence of a deployment row is told apart from every row.           *)
LEMMA NoRowIsNotARow == NoRow \notin Row
BY DEF NoRow, Row

(* A slot without a request has nothing to keep.                           *)
LEMMA IdleIsSound ==
    ASSUME NEW dp, NEW ps, NEW sv, NEW rv, NEW cl
    PROVE  RequestSound(Idle, dp, ps, sv, rv, cl)
BY DEF RequestSound, SeenSound, DeploySound, PromoteSound, OthersEnded, ChangeSound, PublishSound,
       Writes, Idle

(* A promotion chain is a pair of environments.                            *)
LEMMA ChainShape ==
    ASSUME NEW c \in Chains
    PROVE  c[1] \in Environments /\ c[2] \in Environments /\ c = <<c[1], c[2]>>
BY DEF Chains

(* A target has one source.                                                *)
LEMMA ChainSource ==
    ASSUME NEW c \in Chains, NEW d \in Chains, c[2] = d[2]
    PROVE  c[1] = d[1]
BY DEF Chains, VALID_PROMOTION_CHAINS

(* A request that writes a deployment row names its environment and what   *)
(* it read.                                                                *)
LEMMA TargetShape ==
    ASSUME NEW q \in Request, Writes(q)
    PROVE  Target(q) \in Environments /\ q.seen \in Row \cup {NoRow}
<1>1. CASE q.op = "deploy"
  BY <1>1, RequestShape DEF Deploys, Target
<1>2. CASE q.op = "promote"
  <2>1. q \in Promotes
    BY <1>2, RequestShape
  <2>2. q.chain \in Chains /\ q.seen \in Row \cup {NoRow}
    BY <2>1 DEF Promotes
  <2> QED BY <1>2, <2>2, ChainShape DEF Target
<1> QED BY <1>1, <1>2 DEF Writes

------------------------------------------------------------------------------
(* Upserts and flushes.                                                    *)

(* The upsert of a missing row starts at generation 1, not synced.         *)
LEMMA UpsertedNew ==
    ASSUME NEW s \in Specs, NEW p \in Nat, NEW force \in BOOLEAN
    PROVE  LET up == Upserted(NoRow, s, p, force) IN
           /\ up \in Row
           /\ up.via = p /\ up.promo = p /\ up.desired = 1 /\ up.synced = 0
BY DEF Upserted, Row

(* An existing row is left alone, only linked, or gets its next generation. *)
LEMMA UpsertedOld ==
    ASSUME NEW d \in Row, NEW s \in Specs, NEW p \in Nat, NEW force \in BOOLEAN
    PROVE  LET up == Upserted(d, s, p, force) IN
           /\ up \in Row
           /\ up.via = p /\ up.synced = d.synced
           /\ up.promo = IF p = 0 THEN d.promo ELSE p
           /\ \/ up.desired = d.desired + 1
              \/ up.desired = d.desired /\ d.via = p /\ up.spec = d.spec /\ up.status = d.status
<1>1. d # NoRow
  BY NoRowIsNotARow
<1> DEFINE pr == IF p = 0 THEN d.promo ELSE p
<1>2. pr \in Nat
  BY DEF Row
<1>3. CASE d.spec = s /\ d.via = p /\ ~force
  <2>1. Upserted(d, s, p, force) = [d EXCEPT !.promo = pr]
    BY <1>1, <1>3 DEF Upserted
  <2> QED BY <1>2, <1>3, <2>1 DEF Row
<1>4. CASE ~(d.spec = s /\ d.via = p /\ ~force)
  <2>1. Upserted(d, s, p, force) = [d EXCEPT !.status = "PENDING", !.spec = s, !.via = p,
                                             !.desired = d.desired + 1, !.promo = pr]
    BY <1>1, <1>4 DEF Upserted
  <2>2. pr = IF p = 0 THEN d.promo ELSE p
    OBVIOUS
  <2> HIDE DEF pr
  <2>3. Upserted(d, s, p, force) = [status |-> "PENDING", spec |-> s, via |-> p, promo |-> pr,
                                    desired |-> d.desired + 1, synced |-> d.synced]
    BY <2>1 DEF Row
  <2>4. d.desired + 1 \in Nat /\ d.synced \in Nat
    BY DEF Row
  <2> QED BY <1>2, <2>2, <2>3, <2>4 DEF Row
<1> QED BY <1>3, <1>4

(* A row is its six fields.                                                *)
LEMMA RowEquality ==
    ASSUME NEW a \in Row, NEW b \in Row,
           a.status = b.status, a.spec = b.spec, a.via = b.via, a.promo = b.promo,
           a.desired = b.desired, a.synced = b.synced
    PROVE  a = b
BY DEF Row

(* A flush writes the columns that the session changed.                    *)
LEMMA FlushFacts ==
    ASSUME NEW now \in Row, NEW seen \in Row, NEW new \in Row
    PROVE  LET f == Flushed(now, seen, new) IN
           /\ f \in Row
           /\ f.spec = IF new.spec # seen.spec THEN new.spec ELSE now.spec
           /\ f.via = IF new.via # seen.via THEN new.via ELSE now.via
           /\ f.promo = IF new.promo # seen.promo THEN new.promo ELSE now.promo
           /\ f.desired = IF new.desired # seen.desired THEN new.desired ELSE now.desired
           /\ f.synced = IF new.synced # seen.synced THEN new.synced ELSE now.synced
<1> DEFINE v(c) == IF new[c] # seen[c] THEN new[c] ELSE now[c]
<1>1. Flushed(now, seen, new) = [c \in DOMAIN new |-> v(c)]
  BY DEF Flushed
<1>2. DOMAIN new = {"status", "spec", "via", "promo", "desired", "synced"}
  BY DEF Row
<1>3. Flushed(now, seen, new) = [status |-> v("status"), spec |-> v("spec"), via |-> v("via"),
                                 promo |-> v("promo"), desired |-> v("desired"), synced |-> v("synced")]
  BY <1>1, <1>2
<1>4. /\ v("status") = IF new.status # seen.status THEN new.status ELSE now.status
      /\ v("spec") = IF new.spec # seen.spec THEN new.spec ELSE now.spec
      /\ v("via") = IF new.via # seen.via THEN new.via ELSE now.via
      /\ v("promo") = IF new.promo # seen.promo THEN new.promo ELSE now.promo
      /\ v("desired") = IF new.desired # seen.desired THEN new.desired ELSE now.desired
      /\ v("synced") = IF new.synced # seen.synced THEN new.synced ELSE now.synced
  OBVIOUS
<1> HIDE DEF v
<1> QED BY <1>3, <1>4 DEF Row

(* A session that changed nothing leaves the row as it is.                 *)
LEMMA FlushNothing ==
    ASSUME NEW now \in Row, NEW seen \in Row
    PROVE  Flushed(now, seen, seen) = now
<1>1. Flushed(now, seen, seen) = [c \in DOMAIN seen |-> now[c]]
  BY DEF Flushed
<1> QED BY <1>1 DEF Row

(* A non-empty set of positions has a last one.                           *)
LEMMA LatestExists ==
    ASSUME NEW n \in Nat, NEW T \in SUBSET (1 .. n), T # {}
    PROVE  \E i \in T : \A j \in T : j <= i
<1> DEFINE R == OpToRel(<, Nat)
           S == {n - i : i \in T}
<1>1. IsWellFoundedOn(R, Nat)
  BY NatLessThanWellFounded
<1>2. \A x, y \in Nat : x < y => <<x, y>> \in R
  BY DEF OpToRel
<1> HIDE DEF R
<1>3. S \subseteq Nat /\ S # {}
  <2>1. \A i \in T : n - i \in Nat
    BY SMT
  <2>2. PICK i \in T : TRUE
    BY Zenon
  <2>3. n - i \in S
    BY Zenon
  <2> QED BY <2>1, <2>3, Zenon
<1>4. PICK x \in S : \A y \in S : ~(<<y, x>> \in R)
  BY <1>1, <1>3, WFMin
<1>5. PICK i \in T : x = n - i
  BY <1>4
<1>6. ASSUME NEW j \in T PROVE j <= i
  <2>1. n - j \in S /\ n - j \in Nat /\ n - i \in Nat
    OBVIOUS
  <2>2. ~(n - j < n - i)
    BY <1>2, <1>4, <1>5, <2>1
  <2> QED BY <2>2
<1> QED BY <1>6

------------------------------------------------------------------------------
(* What the writes to the promotions do.                                   *)

(* Replacing one promotion leaves the others alone.                        *)
LEMMA OneChanged ==
    ASSUME NEW ps \in Seq(PromotionRow), NEW k \in DOMAIN ps, NEW v \in PromotionRow
    PROVE  LET qs == [ps EXCEPT ![k] = v] IN
           /\ qs \in Seq(PromotionRow) /\ DOMAIN qs = DOMAIN ps /\ Len(qs) = Len(ps)
           /\ qs[k] = v
           /\ \A i \in DOMAIN ps : i # k => qs[i] = ps[i]
OBVIOUS

(* The types of a promotion read from the table.                           *)
LEMMA PromotionFields ==
    ASSUME NEW ps \in Seq(PromotionRow), NEW i \in DOMAIN ps
    PROVE  /\ ps[i] \in PromotionRow /\ i \in Nat /\ i # 0
           /\ ps[i].src \in Environments /\ ps[i].dst \in Environments
           /\ ps[i].status \in PromotionStatus /\ ps[i].linked \in BOOLEAN
<1>1. ps[i] \in PromotionRow /\ i \in Nat /\ i # 0
  OBVIOUS
<1> QED BY <1>1 DEF PromotionRow

(* Writing the status of a promotion leaves its other fields alone.        *)
LEMMA StatusWrite ==
    ASSUME NEW ps \in Seq(PromotionRow), NEW k \in DOMAIN ps, NEW st \in PromotionStatus
    PROVE  LET qs == [ps EXCEPT ![k].status = st] IN
           /\ qs \in Seq(PromotionRow) /\ DOMAIN qs = DOMAIN ps
           /\ qs[k].status = st
           /\ qs[k].src = ps[k].src /\ qs[k].dst = ps[k].dst /\ qs[k].linked = ps[k].linked
           /\ \A i \in DOMAIN ps : i # k => qs[i] = ps[i]
<1> DEFINE v == [ps[k] EXCEPT !.status = st]
<1>1. ps[k] \in PromotionRow
  BY PromotionFields
<1>2. /\ v \in PromotionRow /\ v.status = st
      /\ v.src = ps[k].src /\ v.dst = ps[k].dst /\ v.linked = ps[k].linked
  BY <1>1 DEF PromotionRow
<1>3. [ps EXCEPT ![k].status = st] = [ps EXCEPT ![k] = v]
  OBVIOUS
<1> HIDE DEF v
<1> QED BY <1>2, <1>3, OneChanged

(* Adding promotions leaves the ones on record alone.                      *)
LEMMA Appended ==
    ASSUME NEW ps \in Seq(PromotionRow), NEW new \in Seq(PromotionRow)
    PROVE  /\ ps \o new \in Seq(PromotionRow)
           /\ DOMAIN ps \subseteq DOMAIN (ps \o new)
           /\ \A i \in DOMAIN ps : (ps \o new)[i] = ps[i]
           /\ \A i \in DOMAIN (ps \o new) \ DOMAIN ps :
                \E k \in DOMAIN new : (ps \o new)[i] = new[k]
<1>1. /\ ps \o new \in Seq(PromotionRow) /\ Len(ps \o new) = Len(ps) + Len(new)
      /\ \A i \in DOMAIN ps : (ps \o new)[i] = ps[i]
  OBVIOUS
<1>2. DOMAIN ps = 1 .. Len(ps) /\ DOMAIN (ps \o new) = 1 .. Len(ps \o new)
      /\ Len(ps) \in Nat /\ Len(new) \in Nat /\ DOMAIN new = 1 .. Len(new)
  BY <1>1
<1>3. ASSUME NEW i \in DOMAIN (ps \o new) \ DOMAIN ps
      PROVE  i - Len(ps) \in DOMAIN new /\ (ps \o new)[i] = new[i - Len(ps)]
  <2>1. i \in Nat /\ i > Len(ps) /\ i <= Len(ps) + Len(new)
    BY <1>1, <1>2
  <2>2. i - Len(ps) \in 1 .. Len(new)
    BY <1>2, <2>1
  <2>3. (ps \o new)[i] = new[i - Len(ps)]
    BY <2>1
  <2> QED BY <1>2, <2>2, <2>3
<1> QED BY <1>1, <1>2, <1>3

------------------------------------------------------------------------------
(* How the tables change, and what that keeps.                             *)

(* Promotions are added, never forgotten; they do not wait again.          *)
Grows(ps, qs) ==
    /\ DOMAIN ps \subseteq DOMAIN qs
    /\ \A i \in DOMAIN ps :
        /\ qs[i].src = ps[i].src /\ qs[i].dst = ps[i].dst
        /\ ps[i].linked => qs[i].linked
        /\ qs[i].status = "PENDING" => ps[i].status = "PENDING"

(* Besides, none is linked, and none is opened again but by an approval.   *)
Settles(ps, qs, rv) ==
    /\ Grows(ps, qs)
    /\ \A i \in DOMAIN ps : qs[i].status \in Active => ps[i].status \in Active \/ i \in rv
    /\ \A i \in DOMAIN qs : qs[i].linked => i \in DOMAIN ps /\ ps[i].linked
    /\ IndexHolds(qs)

(* Ending promotions keeps the table of promotions sound.                  *)
LEMMA SettlePromos ==
    ASSUME NEW ps, NEW qs, NEW rv, PromosSound(ps), Settles(ps, qs, rv)
    PROVE  PromosSound(qs)
BY DEF PromosSound, Settles, Grows

(* A link to a promotion outlives every change of the table.               *)
LEMMA GrowLinks ==
    ASSUME NEW ps, NEW qs, NEW i, NEW e, Grows(ps, qs), LinkedTo(ps, i, e)
    PROVE  LinkedTo(qs, i, e)
BY DEF Grows, LinkedTo

(* A deployment row stays sound when the table of promotions grows.        *)
LEMMA GrowRow ==
    ASSUME NEW ps, NEW qs, NEW d, NEW e, NEW sv, NEW cl, Grows(ps, qs), RowSound(d, e, ps, sv, cl)
    PROVE  RowSound(d, e, qs, sv, cl)
BY GrowLinks DEF RowSound

(* Ending promotions keeps the rows of the open ones.                      *)
LEMMA SettleOpen ==
    ASSUME NEW ps, NEW qs, NEW rv, NEW rv2, NEW cl, NEW dp, rv \subseteq rv2,
           Settles(ps, qs, rv2), OpenRows(ps, dp, rv, cl)
    PROVE  OpenRows(qs, dp, rv2, cl)
<1> SUFFICES ASSUME NEW i \in DOMAIN qs \ rv2, qs[i].linked, qs[i].status \in Active, qs[i].dst \notin cl
             PROVE  dp[qs[i].dst] # NoRow /\ dp[qs[i].dst].promo = i
  BY DEF OpenRows
<1>1. i \in DOMAIN ps \ rv /\ ps[i].linked /\ qs[i].dst = ps[i].dst /\ ps[i].status \in Active
  BY DEF Settles, Grows
<1> QED BY <1>1 DEF OpenRows

(* Growth keeps what the requests rely on, but for the promotions they     *)
(* take to have ended.                                                     *)
LEMMA GrowRequest ==
    ASSUME NEW q, NEW ps, NEW qs, NEW dp, NEW sv, NEW rv, NEW rv2, NEW cl, Grows(ps, qs),
           RequestSound(q, dp, ps, sv, rv, cl), OthersEnded(q, qs, rv2)
    PROVE  RequestSound(q, dp, qs, sv, rv2, cl)
<1>1. SeenSound(q, dp, qs, cl)
  BY GrowLinks DEF RequestSound, SeenSound
<1>2. PromoteSound(q, qs)
  BY DEF RequestSound, PromoteSound, Grows
<1>3. ChangeSound(q, qs)
  BY DEF RequestSound, ChangeSound, Grows
<1> QED BY <1>1, <1>2, <1>3 DEF RequestSound

(* A request stays sound when promotions end.                              *)
LEMMA SettleRequest ==
    ASSUME NEW q, NEW ps, NEW qs, NEW dp, NEW sv, NEW rv, NEW rv2, NEW cl, rv \subseteq rv2,
           Settles(ps, qs, rv2), RequestSound(q, dp, ps, sv, rv, cl)
    PROVE  RequestSound(q, dp, qs, sv, rv2, cl)
<1>1. OthersEnded(q, qs, rv2)
  <2> SUFFICES ASSUME q.op \in {"chosen", "promote"}, q.id # 0, NEW i \in 1 .. q.known, i # q.id,
                      qs[i].src = q.chain[1], qs[i].dst = q.chain[2]
               PROVE  qs[i].status \notin Active \/ i \in rv2
    BY DEF OthersEnded
  <2>1. i \in DOMAIN ps
    BY DEF RequestSound, PromoteSound
  <2>2. ps[i].src = q.chain[1] /\ ps[i].dst = q.chain[2]
    BY <2>1 DEF Settles, Grows
  <2>3. ps[i].status \notin Active \/ i \in rv
    BY <2>2 DEF RequestSound, OthersEnded
  <2> QED BY <2>1, <2>3 DEF Settles
<1> QED BY <1>1, GrowRequest DEF Settles

(* A completion check goes on with a promotion that is still on record.    *)
LEMMA GrowCheck ==
    ASSUME NEW ps, NEW qs, NEW c, Grows(ps, qs), CheckSound(c, ps)
    PROVE  CheckSound(c, qs)
BY DEF Grows, CheckSound

(* A table that does not change settles.                                   *)
LEMMA SettleNothing ==
    ASSUME NEW ps, NEW rv, PromosSound(ps)
    PROVE  Settles(ps, ps, rv)
BY DEF Settles, Grows, PromosSound

(* Less is said about clashed environments, and what was served stays.     *)
LEMMA ServedStays ==
    ASSUME NEW p, NEW sv, NEW cl, NEW sv2, NEW cl2, cl \subseteq cl2,
           \A e \in Environments : sv[e] \subseteq sv2[e], Served(p, sv, cl)
    PROVE  Served(p, sv2, cl2)
BY DEF Served

(* A row stays sound when more has been served or more has clashed.        *)
LEMMA RowStays ==
    ASSUME NEW d, NEW e \in Environments, NEW ps, NEW sv, NEW cl, NEW sv2, NEW cl2, cl \subseteq cl2,
           sv[e] \subseteq sv2[e], RowSound(d, e, ps, sv, cl)
    PROVE  RowSound(d, e, ps, sv2, cl2)
BY DEF RowSound

(* Open promotions keep their rows when more has clashed.                  *)
LEMMA OpenStays ==
    ASSUME NEW dp, NEW ps, NEW rv, NEW cl, NEW cl2, cl \subseteq cl2, OpenRows(ps, dp, rv, cl)
    PROVE  OpenRows(ps, dp, rv, cl2)
BY DEF OpenRows

(* A request stays sound when more has been served or more has clashed.    *)
LEMMA RequestStays ==
    ASSUME NEW q \in Request, NEW dp, NEW ps, NEW sv, NEW rv, NEW cl, NEW sv2, NEW cl2,
           cl \subseteq cl2, \A e \in Environments : sv[e] \subseteq sv2[e],
           RequestSound(q, dp, ps, sv, rv, cl)
    PROVE  RequestSound(q, dp, ps, sv2, rv, cl2)
<1>1. SeenSound(q, dp, ps, cl2)
  BY DEF RequestSound, SeenSound
<1>3. PublishSound(q, sv2, cl2)
  <2>1. q.op = "publish" => q.env \in Environments
    BY RequestShape DEF Publishes
  <2> QED BY <2>1, ServedStays DEF RequestSound, PublishSound
<1> QED BY <1>1, <1>3 DEF RequestSound

(* The row of t is new, of a later generation, or as it was but for its    *)
(* status.                                                                 *)
Advances(old, new) ==
    \/ old = NoRow
    \/ old.desired < new.desired
    \/ Earlier(old, new) /\ new.desired = old.desired

(* A request stays sound when another one writes a deployment row.         *)
LEMMA RowWritten ==
    ASSUME NEW q \in Request, NEW dp \in [Environments -> Row \cup {NoRow}], NEW ps, NEW sv, NEW rv,
           NEW cl, NEW t \in Environments, NEW row \in Row, t \in cl \/ Advances(dp[t], row),
           RequestSound(q, dp, ps, sv, rv, cl)
    PROVE  RequestSound(q, [dp EXCEPT ![t] = row], ps, sv, rv, cl)
<1> DEFINE dp2 == [dp EXCEPT ![t] = row]
<1>1. dp2[t] = row /\ \A e \in Environments : e # t => dp2[e] = dp[e]
  OBVIOUS
<1>2. row # NoRow
  BY NoRowIsNotARow
<1> HIDE DEF dp2
<1>3. SeenSound(q, dp2, ps, cl)
  <2> SUFFICES ASSUME Writes(q), q.seen # NoRow
               PROVE  /\ dp2[Target(q)] # NoRow
                      /\ q.seen.promo # 0 => LinkedTo(ps, q.seen.promo, Target(q))
                      /\ Target(q) \notin cl => Earlier(q.seen, dp2[Target(q)])
    BY DEF SeenSound
  <2>1. Target(q) \in Environments /\ q.seen \in Row
    BY TargetShape
  <2>2. /\ dp[Target(q)] # NoRow
        /\ q.seen.promo # 0 => LinkedTo(ps, q.seen.promo, Target(q))
        /\ Target(q) \notin cl => Earlier(q.seen, dp[Target(q)])
    BY DEF RequestSound, SeenSound
  <2>3. CASE Target(q) # t
    BY <1>1, <2>1, <2>2, <2>3
  <2>4. CASE Target(q) = t
    <3>1. dp[t] \in Row
      BY <2>2, <2>4
    <3>2. ASSUME t \notin cl PROVE Earlier(q.seen, row)
      <4>1. Earlier(q.seen, dp[t]) /\ Advances(dp[t], row)
        BY <2>2, <2>4, <3>2
      <4> QED BY <2>1, <2>2, <2>4, <3>1, <4>1 DEF Advances, Earlier, Row
    <3> QED BY <1>1, <1>2, <2>2, <2>4, <3>2
  <2> QED BY <2>3, <2>4
<1> QED BY <1>3 DEF RequestSound, dp2

------------------------------------------------------------------------------
(* Steps.                                                                  *)

Good == TypeOK /\ LifecycleInvariant

(* The parts of the type invariant.                                        *)
LEMMA GoodType ==
    ASSUME Good
    PROVE  /\ api \in CatalogRow
           /\ dep \in [Environments -> Row \cup {NoRow}]
           /\ promos \in Seq(PromotionRow)
           /\ req \in [Slots -> Request]
           /\ check \in [Environments -> Checks]
           /\ requests \in 0 .. MaxRequests /\ faults \in 0 .. MaxFaults
           /\ served \in [Environments -> SUBSET Specs]
           /\ revived \subseteq DOMAIN promos /\ taken \subseteq DOMAIN promos
           /\ Excused \subseteq DOMAIN promos /\ clashed \subseteq Environments
BY Zenon DEF Good, TypeOK, CatalogRow, Checks, Excused

(* The parts of the invariant, to be shown of the next state.              *)
LEMMA GoodNext ==
    ASSUME api' \in CatalogRow,
           dep' \in [Environments -> Row \cup {NoRow}],
           promos' \in Seq(PromotionRow),
           req' \in [Slots -> Request],
           check' \in [Environments -> Checks],
           requests' \in 0 .. MaxRequests, faults' \in 0 .. MaxFaults,
           served' \in [Environments -> SUBSET Specs],
           revived' \subseteq DOMAIN promos', taken' \subseteq DOMAIN promos', clashed' \subseteq Environments,
           CatalogSound(api'),
           PromosSound(promos'),
           \A e \in Environments : RowSound(dep'[e], e, promos', served', clashed'),
           OpenRows(promos', dep', Excused', clashed'),
           \A r \in Slots : RequestSound(req'[r], dep', promos', served', Excused', clashed'),
           Served(api'.pubs, served', clashed'),
           \A e \in Environments : CheckSound(check'[e], promos')
    PROVE  Good'
BY Zenon DEF Good, TypeOK, LifecycleInvariant, CatalogRow, Checks

(* The parts of the invariant besides the types.                           *)
LEMMA GoodFacts ==
    ASSUME Good
    PROVE  /\ CatalogSound(api)
           /\ PromosSound(promos)
           /\ \A e \in Environments : RowSound(dep[e], e, promos, served, clashed)
           /\ OpenRows(promos, dep, Excused, clashed)
           /\ \A r \in Slots : RequestSound(req[r], dep, promos, served, Excused, clashed)
           /\ Served(api.pubs, served, clashed)
           /\ \A e \in Environments : CheckSound(check[e], promos)
BY Zenon DEF Good, LifecycleInvariant

(* A request that begins reads the tables.                                 *)
LEMMA BeginKeeps ==
    ASSUME Good, NEW r \in Slots, NEW o \in Request, Begin(r, o),
           RequestSound(o, dep, promos, served, Excused, clashed)
    PROVE  Good'
<1>1. /\ api' = api /\ dep' = dep /\ promos' = promos /\ check' = check /\ faults' = faults
      /\ served' = served /\ revived' = revived /\ taken' = taken /\ Excused' = Excused /\ clashed' = clashed
      /\ req' = [req EXCEPT ![r] = o]
      /\ requests' = requests + 1 /\ requests < MaxRequests
  BY DEF Begin, tables, history, Excused
<1>2. req' \in [Slots -> Request] /\ requests' \in 0 .. MaxRequests
  BY <1>1, GoodType, LifecycleBounds
<1>3. \A x \in Slots : RequestSound(req'[x], dep', promos', served', Excused', clashed')
  BY <1>1, GoodType, GoodFacts
<1> QED BY <1>1, <1>2, <1>3, GoodType, GoodFacts, GoodNext

(* A request that ends leaves its slot.                                    *)
LEMMA EndKeeps ==
    ASSUME Good, NEW r \in Slots, End(r),
           \A x \in Slots : x # r => RequestSound(req[x], dep', promos', served', Excused', clashed')
    PROVE  /\ \A x \in Slots : RequestSound(req'[x], dep', promos', served', Excused', clashed')
           /\ req' \in [Slots -> Request]
           /\ check' = check /\ requests' = requests /\ faults' = faults /\ served' = served
<1>1. /\ req' = [req EXCEPT ![r] = Idle]
      /\ check' = check /\ requests' = requests /\ faults' = faults /\ served' = served
  BY DEF End
<1>2. req' \in [Slots -> Request]
  BY <1>1, GoodType, RequestSets
<1>3. req'[r] = Idle /\ \A x \in Slots : x # r => req'[x] = req[x]
  BY <1>1, GoodType
<1> QED BY <1>1, <1>2, <1>3, IdleIsSound

(* create_draft starts from an absent API: nothing has been published.     *)
LEMMA CreateDraftKeeps ==
    ASSUME Good, NEW r \in Slots, NEW s \in Specs, CreateDraft(r, s)
    PROVE  Good'
<1>1. /\ dep' = dep /\ promos' = promos /\ req' = req /\ check' = check /\ faults' = faults
      /\ served' = served /\ revived' = revived /\ taken' = taken /\ Excused' = Excused /\ clashed' = clashed
      /\ api' = Catalog("draft", s, FALSE)
      /\ requests' = requests + 1 /\ requests < MaxRequests
  BY DEF CreateDraft, history, Excused
<1>2. api' \in CatalogRow /\ CatalogSound(api') /\ requests' \in 0 .. MaxRequests
  BY <1>1, GoodType, LifecycleValues, LifecycleBounds DEF Catalog, CatalogRow, CatalogSound, Publications
<1>3. Served(api'.pubs, served', clashed')
  BY <1>1 DEF Catalog, Served
<1> QED BY <1>1, <1>2, <1>3, GoodType, GoodFacts, GoodNext

(* validate_draft changes the lifecycle status only.                       *)
LEMMA ValidateDraftKeeps ==
    ASSUME Good, NEW r \in Slots, ValidateDraft(r)
    PROVE  Good'
<1>1. /\ dep' = dep /\ promos' = promos /\ req' = req /\ check' = check /\ faults' = faults
      /\ served' = served /\ revived' = revived /\ taken' = taken /\ Excused' = Excused /\ clashed' = clashed
      /\ api' = [api EXCEPT !.status = "ready"] /\ api.status = "draft"
      /\ requests' = requests + 1 /\ requests < MaxRequests
  BY DEF ValidateDraft, history, Excused
<1>2. api \in CatalogRow
  BY GoodType
<1>3. api' \in CatalogRow /\ api'.spec = api.spec /\ api'.pubs = api.pubs
  BY <1>1, <1>2 DEF CatalogRow
<1>4. requests' \in 0 .. MaxRequests /\ CatalogSound(api')
  BY <1>1, <1>3, GoodType, GoodFacts, LifecycleBounds DEF CatalogSound
<1> QED BY <1>1, <1>3, <1>4, GoodType, GoodFacts, GoodNext

(* An update reads the publications, which were served.                    *)
LEMMA BeginUpdateKeeps ==
    ASSUME Good, NEW r \in Slots, NEW s \in Specs, BeginUpdate(r, s)
    PROVE  Good'
<1> DEFINE o == [op |-> "update", spec |-> s, pubs |-> api.pubs]
<1>1. Begin(r, o)
  BY DEF BeginUpdate
<1>2. o \in Updates
  BY GoodType DEF Updates, CatalogRow
<1>3. RequestSound(o, dep, promos, served, Excused, clashed)
  BY GoodFacts DEF RequestSound, SeenSound, DeploySound, PromoteSound, OthersEnded, ChangeSound,
                   PublishSound, Writes
<1> HIDE DEF o
<1> QED BY <1>1, <1>2, <1>3, RequestSets, BeginKeeps

(* The commit of an update writes back the publications it read.           *)
LEMMA CommitUpdateKeeps ==
    ASSUME Good, NEW r \in Slots, CommitUpdate(r)
    PROVE  Good'
<1>1. /\ req[r].op = "update"
      /\ api' = [api EXCEPT !.spec = req[r].spec, !.pubs = req[r].pubs]
      /\ dep' = dep /\ promos' = promos /\ revived' = revived /\ taken' = taken /\ Excused' = Excused /\ clashed' = clashed
      /\ End(r)
  BY DEF CommitUpdate, Excused
<1>2. served' = served
  BY <1>1 DEF End
<1>3. /\ \A x \in Slots : RequestSound(req'[x], dep', promos', served', Excused', clashed')
      /\ req' \in [Slots -> Request]
      /\ check' = check /\ requests' = requests /\ faults' = faults
  BY <1>1, <1>2, GoodFacts, EndKeeps
<1>4. req[r] \in Updates
  BY <1>1, GoodType, RequestShape
<1>5. req[r].spec \in Specs /\ req[r].pubs \in Publications /\ api \in CatalogRow
  BY <1>4, GoodType DEF Updates
<1>6. api' \in CatalogRow /\ api'.spec = req[r].spec /\ api'.pubs = req[r].pubs
  BY <1>1, <1>5 DEF CatalogRow
<1>7. CatalogSound(api')
  BY <1>5, <1>6, LifecycleValues DEF CatalogSound
<1>8. Served(api'.pubs, served', clashed')
  BY <1>1, <1>2, <1>6, GoodFacts DEF RequestSound, PublishSound
<1> QED BY <1>1, <1>2, <1>3, <1>6, <1>7, <1>8, GoodType, GoodFacts, GoodNext

(* publish_to_portal reads a row that is SYNCED at its desired generation. *)
LEMMA BeginPublishKeeps ==
    ASSUME Good, NEW r \in Slots, NEW e \in Environments, NEW force \in BOOLEAN, BeginPublish(r, e, force)
    PROVE  Good'
<1> DEFINE o == [op |-> "publish", env |-> e, spec |-> api.spec, pubs |-> api.pubs,
                 known |-> api.published /\ api.pubs[e] = api.spec /\ ~force]
<1>1. /\ api.status = "ready" /\ dep[e] # NoRow /\ dep[e].synced = dep[e].desired
      /\ dep[e].spec = api.spec /\ Begin(r, o)
  BY DEF BeginPublish
<1>2. api.spec \in Specs /\ api.pubs \in Publications
  BY <1>1, GoodType, GoodFacts DEF CatalogRow, CatalogSound
<1>3. o \in Publishes
  BY <1>2 DEF Publishes
<1>4. e \in clashed \/ api.spec \in served[e]
  BY <1>1, GoodFacts DEF RowSound
<1>5. o.op = "publish" /\ o.pubs = api.pubs /\ o.env = e /\ o.spec = api.spec
  OBVIOUS
<1> HIDE DEF o
<1>6. RequestSound(o, dep, promos, served, Excused, clashed)
  BY <1>4, <1>5, GoodFacts DEF RequestSound, SeenSound, DeploySound, PromoteSound, OthersEnded,
                               ChangeSound, PublishSound, Writes
<1> QED BY <1>1, <1>3, <1>6, RequestSets, BeginKeeps

(* A deployment computes what it will write from the row it read.          *)
LEMMA BeginDeployKeeps ==
    ASSUME Good, NEW r \in Slots, NEW e \in Environments, NEW force \in BOOLEAN, BeginDeploy(r, e, force)
    PROVE  Good'
<1> DEFINE up == Upserted(dep[e], api.spec, 0, force)
           o == [op |-> "deploy", env |-> e, seen |-> dep[e], row |-> up]
<1>1. api.status = "ready" /\ Begin(r, o)
  BY DEF BeginDeploy
<1>2. api.spec \in Specs /\ dep[e] \in Row \cup {NoRow}
  BY <1>1, GoodType, GoodFacts DEF CatalogRow, CatalogSound
<1>3. /\ up \in Row
      /\ IF dep[e] = NoRow THEN up.via = 0 /\ up.promo = 0 /\ up.desired = 1 /\ up.synced = 0
         ELSE /\ up.promo = dep[e].promo /\ up.synced = dep[e].synced
              /\ up = dep[e] \/ (up.desired = dep[e].desired + 1 /\ up.via = 0)
  <2>1. CASE dep[e] = NoRow
    BY <1>2, <2>1, UpsertedNew
  <2>2. CASE dep[e] # NoRow
    <3>1. dep[e] \in Row
      BY <1>2, <2>2
    <3>2. /\ up \in Row /\ up.via = 0 /\ up.synced = dep[e].synced /\ up.promo = dep[e].promo
          /\ \/ up.desired = dep[e].desired + 1
             \/ up.desired = dep[e].desired /\ dep[e].via = 0 /\ up.spec = dep[e].spec
                /\ up.status = dep[e].status
      BY <1>2, <3>1, UpsertedOld
    <3> HIDE DEF up
    <3> QED BY <2>2, <3>1, <3>2, RowEquality
  <2> QED BY <2>1, <2>2
<1> HIDE DEF up
<1>4. o.op = "deploy" /\ o.env = e /\ o.seen = dep[e] /\ o.row = up /\ o \in Deploys
  BY <1>2, <1>3 DEF Deploys
<1> HIDE DEF o
<1>5. Writes(o) /\ Target(o) = e
  BY <1>4 DEF Writes, Target
<1>6. SeenSound(o, dep, promos, clashed)
  <2>1. dep[e] # NoRow => Earlier(dep[e], dep[e])
    BY <1>2 DEF Earlier, Row
  <2> QED BY <1>4, <1>5, <2>1, GoodFacts DEF SeenSound, RowSound
<1>7. DeploySound(o)
  BY <1>3, <1>4 DEF DeploySound
<1>8. RequestSound(o, dep, promos, served, Excused, clashed)
  BY <1>4, <1>6, <1>7 DEF RequestSound, PromoteSound, OthersEnded, ChangeSound, PublishSound
<1> QED BY <1>1, <1>4, <1>8, RequestSets, BeginKeeps

(* A promotion that goes on with a known one goes on with the one that is  *)
(* open, so that the one the row belongs to is that one or has ended.      *)
LEMMA BeginPromoteKeeps ==
    ASSUME Good, NEW r \in Slots, NEW c \in Chains, NEW u \in Users, NEW force \in BOOLEAN,
           BeginPromote(r, c, u, force)
    PROVE  Good'
<1> DEFINE active == Found(promos, c[1], c[2], Active)
           promoted == Found(promos, c[1], c[2], {"PROMOTED"})
           p == IF active # {} THEN CHOOSE i \in active : TRUE
                ELSE IF promoted # {} /\ ~force THEN CHOOSE i \in promoted : \A j \in promoted : j <= i
                ELSE 0
           st == IF p = 0 THEN "PROMOTING" ELSE promos[p].status
           o == [op |-> "chosen", chain |-> c, by |-> u, force |-> force, id |-> p,
                 status |-> st, spec |-> api.spec, known |-> Len(promos)]
<1>1. api.status = "ready" /\ Begin(r, o)
  BY DEF BeginPromote
<1>2. /\ api.spec \in Specs /\ c[2] \in Environments
      /\ promos \in Seq(PromotionRow) /\ Len(promos) \in Nat /\ DOMAIN promos = 1 .. Len(promos)
  BY <1>1, GoodType, GoodFacts, ChainShape DEF CatalogRow, CatalogSound
<1>3. active \subseteq DOMAIN promos /\ promoted \subseteq DOMAIN promos
  BY DEF Found
<1>4. active # {} => p \in active
  OBVIOUS
<1>5. active = {} /\ p # 0 => p \in promoted
  <2>1. promoted \subseteq 1 .. Len(promos) /\ Len(promos) \in Nat
    BY <1>2, <1>3
  <2>2. promoted # {} => \E i \in promoted : \A j \in promoted : j <= i
    BY <2>1, LatestExists
  <2> HIDE DEF promoted, active
  <2> QED BY <2>2
<1>6. p # 0 => p \in DOMAIN promos /\ promos[p].src = c[1] /\ promos[p].dst = c[2]
  <2> HIDE DEF p
  <2> QED BY <1>4, <1>5 DEF Found
<1>7. active # {} => p # 0 /\ promos[p].status \in Active
  <2> HIDE DEF p
  <2>1. ASSUME active # {} PROVE p \in DOMAIN promos /\ promos[p].status \in Active
    BY <1>4, <2>1 DEF Found
  <2> QED BY <1>2, <2>1, PromotionFields
<1>8. p = 0 \/ p \in active \/ p \in promoted
  BY <1>4, <1>5
<1> HIDE DEF p
<1>9. p \in Nat /\ st \in PromotionStatus
  <2>1. CASE p = 0
    BY <2>1 DEF PromotionStatus
  <2>2. CASE p # 0
    BY <1>2, <1>6, <2>2, PromotionFields
  <2> QED BY <2>1, <2>2
<1>10. (p = 0 => st = "PROMOTING") /\ (p # 0 => st = promos[p].status)
  OBVIOUS
<1> HIDE DEF st
<1>11. /\ o \in Choices
       /\ o.op = "chosen" /\ o.chain = c /\ o.id = p /\ o.status = st /\ o.known = Len(promos)
  BY <1>2, <1>9 DEF Choices
<1> HIDE DEF o
<1>12. PromoteSound(o, promos)
  BY <1>2, <1>6, <1>10, <1>11 DEF PromoteSound
<1>13. OthersEnded(o, promos, Excused)
  <2> SUFFICES ASSUME p # 0, NEW k \in DOMAIN promos, k # p, promos[k].src = c[1], promos[k].dst = c[2],
                      promos[k].status \in Active
               PROVE  FALSE
    BY <1>2, <1>11 DEF OthersEnded
  <2>1. k \in active
    BY DEF Found
  <2>2. p \in DOMAIN promos /\ promos[p].dst = c[2] /\ promos[p].status \in Active
    BY <1>6, <1>7, <2>1
  <2>3. IndexHolds(promos)
    BY GoodFacts DEF PromosSound
  <2> QED BY <2>2, <2>3 DEF IndexHolds
<1>14. RequestSound(o, dep, promos, served, Excused, clashed)
  BY <1>11, <1>12, <1>13 DEF RequestSound, SeenSound, Writes, DeploySound, ChangeSound, PublishSound
<1> QED BY <1>1, <1>11, <1>14, RequestSets, BeginKeeps

(* The target row that a promotion request reads is the one there is.      *)
LEMMA ReadTargetKeeps ==
    ASSUME Good, NEW r \in Slots, ReadTarget(r)
    PROVE  Good'
<1> DEFINE q == req[r]
           t == q.chain[2]
           o == [op |-> "promote", chain |-> q.chain, by |-> q.by, force |-> q.force, id |-> q.id,
                 status |-> q.status, spec |-> q.spec, known |-> q.known, seen |-> dep[t]]
<1>1. /\ q.op = "chosen" /\ req' = [req EXCEPT ![r] = o]
      /\ api' = api /\ dep' = dep /\ promos' = promos /\ check' = check
      /\ requests' = requests /\ faults' = faults /\ served' = served
      /\ revived' = revived /\ taken' = taken /\ Excused' = Excused /\ clashed' = clashed
  BY DEF ReadTarget, tables, history, Excused
<1>2. q \in Choices /\ RequestSound(q, dep, promos, served, Excused, clashed)
  BY <1>1, GoodType, GoodFacts, RequestShape
<1>3. t \in Environments /\ dep[t] \in Row \cup {NoRow}
  BY <1>2, ChainShape, GoodType DEF Choices
<1>4. /\ o \in Promotes
      /\ o.op = "promote" /\ o.chain = q.chain /\ o.id = q.id /\ o.status = q.status
      /\ o.known = q.known /\ o.seen = dep[t]
  BY <1>2, <1>3 DEF Choices, Promotes
<1>5. t = q.chain[2]
  OBVIOUS
<1> HIDE DEF q, t, o
<1>6. SeenSound(o, dep, promos, clashed)
  <2>1. Writes(o) /\ Target(o) = t
    BY <1>4, <1>5 DEF Writes, Target
  <2>2. dep[t] # NoRow => Earlier(dep[t], dep[t])
    BY <1>3 DEF Earlier, Row
  <2> QED BY <1>3, <1>4, <2>1, <2>2, GoodFacts DEF SeenSound, RowSound
<1>7. PromoteSound(o, promos) /\ OthersEnded(o, promos, Excused)
  BY <1>1, <1>2, <1>4 DEF RequestSound, PromoteSound, OthersEnded
<1>8. RequestSound(o, dep, promos, served, Excused, clashed)
  BY <1>4, <1>6, <1>7 DEF RequestSound, DeploySound, ChangeSound, PublishSound
<1>9. /\ req' \in [Slots -> Request]
      /\ \A x \in Slots : RequestSound(req'[x], dep', promos', served', Excused', clashed')
  BY <1>1, <1>4, <1>8, GoodType, GoodFacts, RequestSets
<1> QED BY <1>1, <1>9, GoodType, GoodFacts, GoodNext

(* A promotion request that reads a record has found it on record.         *)
LEMMA BeginChangeKeeps ==
    ASSUME Good, NEW r \in Slots, NEW p \in Nat, NEW st \in PromotionStatus \cup {None},
           NEW u \in Users \cup {None}, NEW new \in Seq(PromotionRow), BeginChange(r, p, st, u, new),
           IF p = 0 THEN st = None ELSE p \in DOMAIN promos /\ st \in {"PROMOTING", "PROMOTED", "ROLLED_BACK"},
           \A k \in DOMAIN new : ~new[k].linked
    PROVE  Good'
<1> DEFINE o == [op |-> "change", id |-> p, status |-> st, approved |-> u, new |-> new]
<1>1. Begin(r, o)
  BY DEF BeginChange
<1>2. o \in Changes /\ o.op = "change" /\ o.id = p /\ o.status = st /\ o.new = new
  BY DEF Changes
<1> HIDE DEF o
<1>3. RequestSound(o, dep, promos, served, Excused, clashed)
  BY <1>2 DEF RequestSound, SeenSound, DeploySound, PromoteSound, OthersEnded, ChangeSound,
              PublishSound, Writes
<1> QED BY <1>1, <1>2, <1>3, RequestSets, BeginKeeps

(* A new promotion that is not linked, as a sequence.                      *)
LEMMA OneNew ==
    ASSUME NEW x \in PromotionRow, ~x.linked
    PROVE  <<x>> \in Seq(PromotionRow) /\ \A k \in DOMAIN <<x>> : ~(<<x>>[k]).linked
OBVIOUS

(* No new promotion, as a sequence.                                        *)
LEMMA NoneNew == <<>> \in Seq(PromotionRow) /\ \A k \in DOMAIN <<>> : ~(<<>>[k]).linked
OBVIOUS

(* What the promotion endpoints read and decide is sound.                  *)
LEMMA EditingKeeps ==
    ASSUME Good, NEW r \in Editors, Editing(r)
    PROVE  Good'
<1>0. r \in Slots
  BY DEF Slots
<1>1. CASE ValidateDraft(r)
  BY <1>0, <1>1, ValidateDraftKeeps
<1>2. CASE \E s \in Specs : CreateDraft(r, s) \/ BeginUpdate(r, s)
  BY <1>0, <1>2, CreateDraftKeeps, BeginUpdateKeeps
<1>3. ASSUME NEW c \in Chains, NEW u \in Users, BeginCreatePromotion(r, c, u) PROVE Good'
  <2> DEFINE x == Promotion(c[1], c[2], "PENDING", u, None)
  <2>1. x \in PromotionRow /\ ~x.linked
    BY ChainShape DEF Promotion, PromotionRow, PromotionStatus
  <2>2. BeginChange(r, 0, None, None, <<x>>)
    BY <1>3 DEF BeginCreatePromotion
  <2> HIDE DEF x
  <2> QED BY <1>0, <2>1, <2>2, OneNew, BeginChangeKeeps
<1>4. ASSUME NEW p \in DOMAIN promos, BeginComplete(r, p) PROVE Good'
  <2>1. p \in Nat /\ p # 0
    BY GoodType, PromotionFields
  <2>2. BeginChange(r, p, "PROMOTED", None, <<>>)
    BY <1>4 DEF BeginComplete
  <2>3. "PROMOTED" \in PromotionStatus
    BY DEF PromotionStatus
  <2> QED BY <1>0, <2>1, <2>2, <2>3, NoneNew, BeginChangeKeeps
<1>5. ASSUME NEW p \in DOMAIN promos, NEW u \in Users, BeginApprove(r, p, u) PROVE Good'
  <2>1. p \in Nat /\ p # 0
    BY GoodType, PromotionFields
  <2>2. BeginChange(r, p, "PROMOTING", u, <<>>)
    BY <1>5 DEF BeginApprove
  <2>3. "PROMOTING" \in PromotionStatus
    BY DEF PromotionStatus
  <2> QED BY <1>0, <2>1, <2>2, <2>3, NoneNew, BeginChangeKeeps
<1>6. ASSUME NEW p \in DOMAIN promos, NEW u \in Users, BeginRollback(r, p, u) PROVE Good'
  <2> DEFINE x == [Promotion(promos[p].dst, promos[p].src, "PROMOTING", u, None) EXCEPT !.gateways = FALSE]
  <2>1. p \in Nat /\ p # 0 /\ promos[p].dst \in Environments /\ promos[p].src \in Environments
    BY GoodType, PromotionFields
  <2>2. x \in PromotionRow /\ ~x.linked
    BY <2>1 DEF Promotion, PromotionRow, PromotionStatus
  <2>3. BeginChange(r, p, "ROLLED_BACK", None, <<x>>)
    BY <1>6 DEF BeginRollback
  <2>4. "ROLLED_BACK" \in PromotionStatus
    BY DEF PromotionStatus
  <2> HIDE DEF x
  <2> QED BY <1>0, <2>1, <2>2, <2>3, <2>4, OneNew, BeginChangeKeeps
<1> QED BY <1>1, <1>2, <1>3, <1>4, <1>5, <1>6 DEF Editing

(* What a change of the promotions alone keeps.                            *)
LEMMA SettleKeeps ==
    ASSUME Good, dep' = dep, clashed' = clashed, served' = served, Excused \subseteq Excused',
           Settles(promos, promos', Excused')
    PROVE  /\ PromosSound(promos')
           /\ \A e \in Environments : RowSound(dep'[e], e, promos', served', clashed')
           /\ OpenRows(promos', dep', Excused', clashed')
           /\ \A x \in Slots : RequestSound(req[x], dep', promos', served', Excused', clashed')
           /\ \A e \in Environments : CheckSound(check[e], promos')
<1>1. Grows(promos, promos')
  BY DEF Settles
<1>2. PromosSound(promos')
  BY GoodFacts, SettlePromos
<1>3. \A e \in Environments : RowSound(dep'[e], e, promos', served', clashed')
  BY <1>1, GoodFacts, GrowRow
<1>4. OpenRows(promos', dep', Excused', clashed')
  BY GoodFacts, SettleOpen
<1>5. \A x \in Slots : RequestSound(req[x], dep', promos', served', Excused', clashed')
  BY GoodFacts, SettleRequest
<1>6. \A e \in Environments : CheckSound(check[e], promos')
  BY <1>1, GoodFacts, GrowCheck
<1> QED BY <1>2, <1>3, <1>4, <1>5, <1>6

(* The commit of a promotion endpoint; one that opens a promotion again    *)
(* revives it.                                                             *)
LEMMA CommitChangeKeeps ==
    ASSUME Good, NEW r \in Slots, CommitChange(r)
    PROVE  Good'
<1> DEFINE q == req[r]
           set == IF q.id = 0 THEN promos
                  ELSE [promos EXCEPT ![q.id].status = q.status,
                                      ![q.id].approved = IF q.approved = None THEN @ ELSE q.approved]
           after == set \o q.new
<1>1. /\ q.op = "change"
      /\ promos' = IF IndexHolds(after) THEN after ELSE promos
      /\ revived' = IF q.status = "PROMOTING" /\ promos[q.id].status \notin Active /\ IndexHolds(after)
                    THEN revived \cup {q.id} ELSE revived
      /\ api' = api /\ dep' = dep /\ taken' = taken /\ clashed' = clashed /\ End(r)
      /\ Excused' = revived' \cup taken'
  BY DEF CommitChange, Excused
<1>2. served' = served
  BY <1>1 DEF End
<1>3. /\ q.id \in Nat /\ q.status \in PromotionStatus \cup {None} /\ q.approved \in Users \cup {None}
      /\ q.new \in Seq(PromotionRow)
  BY <1>1, GoodType, RequestShape DEF Changes
<1>4. /\ IF q.id = 0 THEN q.status = None
         ELSE q.id \in DOMAIN promos /\ q.status \in {"PROMOTING", "PROMOTED", "ROLLED_BACK"}
      /\ \A k \in DOMAIN q.new : ~q.new[k].linked
  BY <1>1, GoodFacts DEF RequestSound, ChangeSound
<1>5. promos \in Seq(PromotionRow) /\ Excused \subseteq DOMAIN promos /\ PromosSound(promos)
  BY GoodType, GoodFacts
<1>6. /\ set \in Seq(PromotionRow) /\ DOMAIN set = DOMAIN promos
      /\ \A i \in DOMAIN promos :
            /\ set[i].src = promos[i].src /\ set[i].dst = promos[i].dst
            /\ set[i].linked = promos[i].linked
            /\ i # q.id => set[i].status = promos[i].status
            /\ i = q.id => set[i].status = q.status
  <2>1. CASE q.id = 0
    <3>1. set = promos
      BY <2>1
    <3>2. \A i \in DOMAIN promos : i # 0
      BY <1>5
    <3> HIDE DEF set, q
    <3> QED BY <1>5, <2>1, <3>1, <3>2
  <2>2. CASE q.id # 0
    <3>1. set = [promos EXCEPT ![q.id].status = q.status,
                               ![q.id].approved = IF q.approved = None THEN @ ELSE q.approved]
      BY <2>2
    <3>2. q.id \in DOMAIN promos /\ q.status \in PromotionStatus
      BY <1>4, <2>2 DEF PromotionStatus
    <3>3. /\ set \in Seq(PromotionRow) /\ DOMAIN set = DOMAIN promos
          /\ set[q.id].status = q.status
          /\ set[q.id].src = promos[q.id].src /\ set[q.id].dst = promos[q.id].dst
          /\ set[q.id].linked = promos[q.id].linked
          /\ \A i \in DOMAIN promos : i # q.id => set[i] = promos[i]
      <4> DEFINE k == q.id
                 st == q.status
                 u == q.approved
      <4>1. set = [promos EXCEPT ![k].status = st, ![k].approved = IF u = None THEN @ ELSE u]
        BY <3>1
      <4>2. k \in DOMAIN promos /\ st \in PromotionStatus /\ u \in Users \cup {None}
        BY <1>3, <3>2
      <4>3. k = q.id /\ st = q.status
        OBVIOUS
      <4> HIDE DEF set, q, k, st, u
      <4> DEFINE w == IF u = None THEN promos[k].approved ELSE u
                 v == [promos[k] EXCEPT !.status = st, !.approved = w]
      <4>4. promos[k] \in PromotionRow
        BY <1>5, <4>2, PromotionFields
      <4>5. w \in Users \cup {None}
        BY <4>2, <4>4 DEF PromotionRow
      <4>6. set = [promos EXCEPT ![k] = v]
        <5>1. CASE u = None
          BY <1>5, <4>1, <4>2, <4>4, <5>1 DEF PromotionRow
        <5>2. CASE u # None
          BY <1>5, <4>1, <4>2, <4>4, <5>2 DEF PromotionRow
        <5> QED BY <5>1, <5>2
      <4> HIDE DEF w
      <4>7. /\ v \in PromotionRow /\ v.status = st
            /\ v.src = promos[k].src /\ v.dst = promos[k].dst /\ v.linked = promos[k].linked
        BY <4>2, <4>4, <4>5 DEF PromotionRow
      <4> HIDE DEF v
      <4>8. /\ set \in Seq(PromotionRow) /\ DOMAIN set = DOMAIN promos /\ set[k] = v
            /\ \A i \in DOMAIN promos : i # k => set[i] = promos[i]
        BY <1>5, <4>2, <4>6, <4>7, OneChanged
      <4> QED BY <4>3, <4>7, <4>8
    <3> HIDE DEF set, q
    <3> QED BY <3>3
  <2> QED BY <2>1, <2>2
<1> HIDE DEF set, q
<1>7. /\ after \in Seq(PromotionRow) /\ DOMAIN promos \subseteq DOMAIN after
      /\ \A i \in DOMAIN promos : after[i] = set[i]
      /\ \A i \in DOMAIN after \ DOMAIN promos : ~after[i].linked
  <2>1. /\ after \in Seq(PromotionRow) /\ DOMAIN set \subseteq DOMAIN after
        /\ \A i \in DOMAIN set : after[i] = set[i]
        /\ \A i \in DOMAIN after \ DOMAIN set : \E k \in DOMAIN q.new : after[i] = q.new[k]
    BY <1>3, <1>6, Appended
  <2> HIDE DEF after
  <2> QED BY <1>4, <1>6, <2>1
<1> HIDE DEF after
<1>8. /\ Excused \subseteq Excused' /\ promos' \in Seq(PromotionRow)
      /\ revived' \subseteq DOMAIN promos' /\ taken' \subseteq DOMAIN promos'
  <2>1. q.status = "PROMOTING" => q.id \in DOMAIN promos
    BY <1>4, LifecycleValues
  <2>2. revived \subseteq DOMAIN promos /\ taken \subseteq DOMAIN promos /\ Excused = revived \cup taken
    BY GoodType DEF Excused
  <2> QED BY <1>1, <1>5, <1>7, <2>1, <2>2
<1>9. Settles(promos, promos', Excused')
  <2>1. CASE ~IndexHolds(after)
    BY <1>1, <1>5, <2>1, SettleNothing
  <2>2. CASE IndexHolds(after)
    <3>1. promos' = after
      BY <1>1, <2>2
    <3>2. Grows(promos, after)
      <4> SUFFICES ASSUME NEW i \in DOMAIN promos
                   PROVE  /\ after[i].src = promos[i].src /\ after[i].dst = promos[i].dst
                          /\ promos[i].linked => after[i].linked
                          /\ after[i].status = "PENDING" => promos[i].status = "PENDING"
        BY <1>7 DEF Grows
      <4> QED BY <1>4, <1>6, <1>7, LifecycleValues
    <3>3. ASSUME NEW i \in DOMAIN promos, after[i].status \in Active
          PROVE  promos[i].status \in Active \/ i \in Excused'
      <4>1. CASE i # q.id
        BY <1>6, <1>7, <3>3, <4>1
      <4>2. CASE i = q.id
        <5>1. i # 0
          BY <1>5
        <5>2. q.status = "PROMOTING"
          BY <1>4, <1>6, <1>7, <3>3, <4>2, <5>1 DEF Active
        <5> QED BY <1>1, <2>2, <4>2, <5>2
      <4> QED BY <4>1, <4>2
    <3>4. \A i \in DOMAIN after : after[i].linked => i \in DOMAIN promos /\ promos[i].linked
      BY <1>6, <1>7
    <3> QED BY <2>2, <3>1, <3>2, <3>3, <3>4 DEF Settles
  <2> QED BY <2>1, <2>2
<1>10. /\ PromosSound(promos')
       /\ \A e \in Environments : RowSound(dep'[e], e, promos', served', clashed')
       /\ OpenRows(promos', dep', Excused', clashed')
       /\ \A x \in Slots : RequestSound(req[x], dep', promos', served', Excused', clashed')
       /\ \A e \in Environments : CheckSound(check[e], promos')
  BY <1>1, <1>2, <1>8, <1>9, SettleKeeps
<1>11. /\ \A x \in Slots : RequestSound(req'[x], dep', promos', served', Excused', clashed')
       /\ req' \in [Slots -> Request]
       /\ check' = check /\ requests' = requests /\ faults' = faults
  BY <1>1, <1>10, EndKeeps
<1> QED BY <1>1, <1>2, <1>8, <1>10, <1>11, GoodType, GoodFacts, GoodNext

(* The commit of a publication records what was served when it was read.   *)
LEMMA CommitPublishKeeps ==
    ASSUME Good, NEW r \in Slots, CommitPublish(r)
    PROVE  Good'
<1> DEFINE q == req[r]
           done == {i \in DOMAIN promos : /\ promos[i].dst = q.env /\ promos[i].linked
                                          /\ promos[i].status \in Active}
           after == [i \in DOMAIN promos |->
                       IF i \in done THEN [promos[i] EXCEPT !.status = "PROMOTED"] ELSE promos[i]]
<1>1. /\ q.op = "publish"
      /\ api' = IF q.known THEN api
                ELSE [api EXCEPT !.published = TRUE, !.pubs = [q.pubs EXCEPT ![q.env] = q.spec]]
      /\ promos' = after
      /\ dep' = dep /\ revived' = revived /\ taken' = taken /\ Excused' = Excused /\ clashed' = clashed /\ End(r)
  BY DEF CommitPublish, Excused
<1>2. served' = served
  BY <1>1 DEF End
<1>3. promos \in Seq(PromotionRow) /\ Excused \subseteq DOMAIN promos /\ PromosSound(promos)
  BY GoodType, GoodFacts
<1>4. q.env \in Environments /\ q.spec \in Specs /\ q.pubs \in Publications /\ q.known \in BOOLEAN
  BY <1>1, GoodType, RequestShape DEF Publishes
<1>5. Served(q.pubs, served, clashed) /\ (q.env \in clashed \/ q.spec \in served[q.env])
  BY <1>1, GoodFacts DEF RequestSound, PublishSound
<1>6. api' \in CatalogRow /\ CatalogSound(api') /\ Served(api'.pubs, served', clashed')
  <2>0. api \in CatalogRow /\ CatalogSound(api) /\ Served(api.pubs, served, clashed)
    BY GoodType, GoodFacts
  <2>1. CASE q.known
    BY <1>1, <1>2, <2>0, <2>1
  <2>2. CASE ~q.known
    <3> DEFINE pubs == [q.pubs EXCEPT ![q.env] = q.spec]
    <3>1. pubs \in Publications /\ Served(pubs, served, clashed)
      BY <1>4, <1>5 DEF Publications, Served
    <3>2. api' = [api EXCEPT !.published = TRUE, !.pubs = pubs]
      BY <1>1, <2>2
    <3> HIDE DEF pubs
    <3>3. api' \in CatalogRow /\ api'.pubs = pubs /\ api'.spec = api.spec /\ api'.status = api.status
      BY <2>0, <3>1, <3>2 DEF CatalogRow
    <3> QED BY <1>1, <1>2, <2>0, <3>1, <3>3 DEF CatalogSound
  <2> QED BY <1>4, <2>1, <2>2
<1>7. /\ DOMAIN after = DOMAIN promos
      /\ \A i \in DOMAIN promos :
            /\ after[i] \in PromotionRow
            /\ after[i].src = promos[i].src /\ after[i].dst = promos[i].dst
            /\ after[i].linked = promos[i].linked
            /\ after[i].status \in {promos[i].status, "PROMOTED"}
  <2>1. DOMAIN after = DOMAIN promos
    OBVIOUS
  <2>2. ASSUME NEW i \in DOMAIN promos
        PROVE  /\ after[i] \in PromotionRow
               /\ after[i].src = promos[i].src /\ after[i].dst = promos[i].dst
               /\ after[i].linked = promos[i].linked
               /\ after[i].status \in {promos[i].status, "PROMOTED"}
    <3>1. promos[i] \in PromotionRow
      BY <1>3, PromotionFields
    <3>2. after[i] = IF i \in done THEN [promos[i] EXCEPT !.status = "PROMOTED"] ELSE promos[i]
      OBVIOUS
    <3> HIDE DEF after, done
    <3>3. CASE i \in done
      <4>1. after[i] = [promos[i] EXCEPT !.status = "PROMOTED"]
        BY <3>2, <3>3
      <4> QED BY <3>1, <4>1 DEF PromotionRow, PromotionStatus
    <3>4. CASE i \notin done
      BY <3>1, <3>2, <3>4
    <3> QED BY <3>3, <3>4
  <2> HIDE DEF after
  <2> QED BY <2>1, <2>2
<1>8. after \in Seq(PromotionRow)
  <2>1. after = [i \in DOMAIN promos |-> after[i]]
    OBVIOUS
  <2> HIDE DEF after
  <2>2. DOMAIN promos = 1 .. Len(promos) /\ Len(promos) \in Nat
    BY <1>3
  <2>3. after \in [1 .. Len(promos) -> PromotionRow]
    BY <1>7, <2>1, <2>2
  <2> QED BY <2>2, <2>3
<1> HIDE DEF after
<1>9. Settles(promos, after, Excused)
  BY <1>3, <1>7 DEF Settles, Grows, PromosSound, IndexHolds, Active
<1>10. /\ PromosSound(promos')
       /\ \A e \in Environments : RowSound(dep'[e], e, promos', served', clashed')
       /\ OpenRows(promos', dep', Excused', clashed')
       /\ \A x \in Slots : RequestSound(req[x], dep', promos', served', Excused', clashed')
       /\ \A e \in Environments : CheckSound(check[e], promos')
  BY <1>1, <1>2, <1>9, SettleKeeps
<1>11. /\ \A x \in Slots : RequestSound(req'[x], dep', promos', served', Excused', clashed')
       /\ req' \in [Slots -> Request]
       /\ check' = check /\ requests' = requests /\ faults' = faults
  BY <1>1, <1>10, EndKeeps
<1> QED BY <1>1, <1>2, <1>3, <1>6, <1>7, <1>8, <1>10, <1>11, GoodType, GoodNext

(* A step of the second transaction of an acknowledgement that reads.      *)
LEMMA CheckMoves ==
    ASSUME Good, NEW e \in Environments, NEW c \in Checks, CheckSound(c, promos),
           check' = [check EXCEPT ![e] = c], UNCHANGED <<tables, req, requests, history>>,
           faults' \in 0 .. MaxFaults
    PROVE  Good'
<1>1. /\ api' = api /\ dep' = dep /\ promos' = promos /\ req' = req /\ requests' = requests
      /\ served' = served /\ revived' = revived /\ taken' = taken /\ Excused' = Excused /\ clashed' = clashed
  BY DEF tables, history, Excused
<1>2. check' \in [Environments -> Checks] /\ \A x \in Environments : CheckSound(check'[x], promos')
  BY <1>1, GoodType, GoodFacts
<1> QED BY <1>1, <1>2, GoodType, GoodFacts, GoodNext

(* No check under way has nothing to keep.                                 *)
LEMMA IdleCheck ==
    ASSUME NEW ps
    PROVE  Idle \in Checks /\ CheckSound(Idle, ps)
BY DEF Checks, CheckSound, Idle

(* The check after an acknowledgement is about a promotion on record.      *)
LEMMA CheckingSound ==
    ASSUME Good, NEW e \in Environments, dep[e] # NoRow
    PROVE  Checking(e) \in Checks /\ CheckSound(Checking(e), promos)
<1>1. CASE dep[e].promo = 0
  BY <1>1, IdleCheck DEF Checking
<1>2. CASE dep[e].promo # 0
  <2>1. dep[e].promo \in Nat
    BY GoodType DEF Row
  <2>2. dep[e].promo \in DOMAIN promos
    BY <1>2, GoodFacts DEF RowSound, LinkedTo
  <2> QED BY <1>2, <2>1, <2>2 DEF Checking, Checks, CheckSound
<1> QED BY <1>1, <1>2

(* A result that is skipped still starts a check.                          *)
LEMMA LateAckKeeps ==
    ASSUME Good, NEW e \in Environments, LateAck(e)
    PROVE  Good'
<1>1. /\ dep[e] # NoRow /\ check' = [check EXCEPT ![e] = Checking(e)]
      /\ UNCHANGED <<tables, req, requests, history>>
      /\ faults < MaxFaults /\ faults' = faults + 1
  BY DEF LateAck
<1>2. faults' \in 0 .. MaxFaults
  BY <1>1, GoodType, LifecycleBounds
<1> QED BY <1>1, <1>2, CheckingSound, CheckMoves

(* A check that raises is dropped.                                         *)
LEMMA CheckFailsKeeps ==
    ASSUME Good, NEW e \in Environments, CheckFails(e)
    PROVE  Good'
<1>1. /\ check' = [check EXCEPT ![e] = Idle]
      /\ UNCHANGED <<tables, req, requests, history>>
      /\ faults < MaxFaults /\ faults' = faults + 1
  BY DEF CheckFails
<1>2. faults' \in 0 .. MaxFaults
  BY <1>1, GoodType, LifecycleBounds
<1> QED BY <1>1, <1>2, IdleCheck, CheckMoves

(* The check reads the promotion and decides.                              *)
LEMMA CheckReadKeeps ==
    ASSUME Good, NEW e \in Environments, CheckRead(e)
    PROVE  Good'
<1> DEFINE p == check[e].promo
           statuses == {dep[x].status : x \in Linked(p)}
           verdict == IF statuses = {} \/ "PENDING" \in statuses THEN None
                      ELSE IF statuses = {"SYNCED"}
                      THEN IF promos[p].status = "PROMOTING" THEN "PROMOTED" ELSE None
                      ELSE "FAILED"
           c == IF verdict = None THEN Idle ELSE [op |-> "write", promo |-> p, verdict |-> verdict]
<1>1. /\ check[e].op = "read" /\ check' = [check EXCEPT ![e] = c]
      /\ UNCHANGED <<tables, req, requests, history>> /\ faults' = faults
  BY DEF CheckRead
<1>2. p \in Nat /\ p \in DOMAIN promos
  <2>1. check[e] \in Checks /\ CheckSound(check[e], promos)
    BY GoodType, GoodFacts
  <2> QED BY <1>1, <2>1, CheckShape DEF CheckSound
<1>3. verdict \in {None, "PROMOTED", "FAILED"}
  OBVIOUS
<1> HIDE DEF verdict
<1>4. c \in Checks /\ CheckSound(c, promos)
  <2>1. CASE verdict = None
    BY <2>1, IdleCheck
  <2>2. CASE verdict # None
    <3>1. c = [op |-> "write", promo |-> p, verdict |-> verdict]
      BY <2>2
    <3> HIDE DEF c, p
    <3> QED BY <1>2, <1>3, <2>2, <3>1 DEF Checks, CheckSound
  <2> QED BY <2>1, <2>2
<1>5. faults' \in 0 .. MaxFaults
  BY <1>1, GoodType
<1> HIDE DEF c
<1> QED BY <1>1, <1>4, <1>5, CheckMoves

(* The check writes its verdict, which ends the promotion.                 *)
LEMMA CheckWriteKeeps ==
    ASSUME Good, NEW e \in Environments, CheckWrite(e)
    PROVE  Good'
<1> DEFINE k == check[e].promo
           st == check[e].verdict
<1>1. /\ check[e].op = "write"
      /\ promos' = [promos EXCEPT ![k].status = st]
      /\ check' = [check EXCEPT ![e] = Idle]
      /\ api' = api /\ dep' = dep /\ req' = req /\ requests' = requests /\ faults' = faults
      /\ served' = served /\ revived' = revived /\ taken' = taken /\ Excused' = Excused /\ clashed' = clashed
  BY DEF CheckWrite, history, Excused
<1>2. k \in DOMAIN promos /\ st \in {"PROMOTED", "FAILED"}
  <2>1. check[e] \in Checks /\ CheckSound(check[e], promos)
    BY GoodType, GoodFacts
  <2> QED BY <1>1, <2>1, CheckShape DEF CheckSound
<1> HIDE DEF k, st
<1>3. promos \in Seq(PromotionRow) /\ Excused \subseteq DOMAIN promos /\ PromosSound(promos)
  BY GoodType, GoodFacts
<1>4. st \in PromotionStatus
  BY <1>2 DEF PromotionStatus
<1>5. /\ promos' \in Seq(PromotionRow) /\ DOMAIN promos' = DOMAIN promos
      /\ promos'[k].status = st
      /\ promos'[k].src = promos[k].src /\ promos'[k].dst = promos[k].dst
      /\ promos'[k].linked = promos[k].linked
      /\ \A i \in DOMAIN promos : i # k => promos'[i] = promos[i]
  BY <1>1, <1>2, <1>3, <1>4, StatusWrite
<1>6. Settles(promos, promos', Excused)
  <2>1. \A i \in DOMAIN promos : /\ promos'[i].src = promos[i].src /\ promos'[i].dst = promos[i].dst
                                 /\ promos'[i].linked = promos[i].linked
                                 /\ promos'[i].status \in {promos[i].status, "PROMOTED", "FAILED"}
    BY <1>2, <1>5
  <2> QED BY <1>3, <1>5, <2>1 DEF Settles, Grows, PromosSound, IndexHolds, Active
<1>7. /\ PromosSound(promos')
      /\ \A x \in Environments : RowSound(dep'[x], x, promos', served', clashed')
      /\ OpenRows(promos', dep', Excused', clashed')
      /\ \A x \in Slots : RequestSound(req[x], dep', promos', served', Excused', clashed')
      /\ \A x \in Environments : CheckSound(check[x], promos')
  BY <1>1, <1>6, SettleKeeps
<1>8. check' \in [Environments -> Checks] /\ \A x \in Environments : CheckSound(check'[x], promos')
  BY <1>1, <1>7, GoodType, IdleCheck
<1> QED BY <1>1, <1>5, <1>7, <1>8, GoodType, GoodFacts, GoodNext

(* The gateway has served the desired generation that it acknowledges.     *)
LEMMA AcknowledgeKeeps ==
    ASSUME Good, NEW e \in Environments, NEW ok \in BOOLEAN, Acknowledge(e, ok)
    PROVE  Good'
<1> DEFINE w == IF ok THEN dep[e].desired ELSE dep[e].synced
           row == [dep[e] EXCEPT !.status = AckedStatus(dep[e], ok), !.synced = w]
<1>1. /\ dep[e] # NoRow
      /\ dep' = [dep EXCEPT ![e].status = AckedStatus(dep[e], ok),
                            ![e].synced = IF ok THEN dep[e].desired ELSE @]
      /\ check' = [check EXCEPT ![e] = Checking(e)]
      /\ served' = [served EXCEPT ![e] = IF ok THEN @ \cup {dep[e].spec} ELSE @]
      /\ api' = api /\ promos' = promos /\ req' = req /\ requests' = requests /\ faults' = faults
      /\ revived' = revived /\ taken' = taken /\ Excused' = Excused /\ clashed' = clashed
  BY DEF Acknowledge, Excused
<1>2. dep \in [Environments -> Row \cup {NoRow}] /\ dep[e] \in Row
  BY <1>1, GoodType
<1>3. dep' = [dep EXCEPT ![e] = row]
  <2>1. CASE ok
    BY <1>1, <1>2, <2>1 DEF Row
  <2>2. CASE ~ok
    BY <1>1, <1>2, <2>2 DEF Row
  <2> QED BY <2>1, <2>2
<1>4. w = (IF ok THEN dep[e].desired ELSE dep[e].synced) /\ w \in Nat
  BY <1>2 DEF Row
<1>5. AckedStatus(dep[e], ok) \in {"SYNCED", "ERROR"}
  BY DEF AckedStatus
<1> HIDE DEF w
<1>6. /\ row \in Row /\ row.spec = dep[e].spec /\ row.via = dep[e].via /\ row.promo = dep[e].promo
      /\ row.desired = dep[e].desired /\ row.synced = w
  BY <1>2, <1>4, <1>5 DEF Row
<1> HIDE DEF row
<1>7. dep' \in [Environments -> Row \cup {NoRow}] /\ dep'[e] = row
      /\ \A x \in Environments : x # e => dep'[x] = dep[x]
  BY <1>2, <1>3, <1>6
<1>8. /\ served' \in [Environments -> SUBSET Specs]
      /\ \A x \in Environments : served[x] \subseteq served'[x]
      /\ ok => dep[e].spec \in served'[e]
  BY <1>1, <1>2, GoodType DEF Row
<1>9. \A x \in Environments : RowSound(dep'[x], x, promos', served', clashed')
  <2>1. \A x \in Environments : RowSound(dep[x], x, promos, served', clashed)
    BY <1>8, GoodFacts, RowStays
  <2>2. RowSound(row, e, promos, served', clashed)
    <3>1. RowSound(dep[e], e, promos, served', clashed)
      BY <2>1
    <3> QED BY <1>1, <1>2, <1>4, <1>6, <1>8, <3>1 DEF RowSound, Row
  <2> QED BY <1>1, <1>7, <2>1, <2>2
<1>10. OpenRows(promos', dep', Excused', clashed')
  <2>1. row # NoRow
    BY <1>6, NoRowIsNotARow
  <2>2. \A i \in DOMAIN promos : promos[i].dst \in Environments
    BY GoodType, PromotionFields
  <2>3. OpenRows(promos, dep, Excused, clashed)
    BY GoodFacts
  <2>4. \A x \in Environments : dep[x] # NoRow => dep'[x] # NoRow /\ dep'[x].promo = dep[x].promo
    BY <1>6, <1>7, <2>1
  <2> QED BY <1>1, <2>2, <2>3, <2>4 DEF OpenRows
<1>11. \A x \in Slots : RequestSound(req'[x], dep', promos', served', Excused', clashed')
  <2>1. Advances(dep[e], row)
    BY <1>2, <1>6 DEF Advances, Earlier, Row
  <2>2. ASSUME NEW x \in Slots
        PROVE  RequestSound(req[x], dep', promos, served', Excused, clashed)
    <3>1. req[x] \in Request
      BY GoodType
    <3>2. RequestSound(req[x], dep, promos, served', Excused, clashed)
      BY <1>8, <3>1, GoodFacts, RequestStays
    <3> QED BY <1>2, <1>3, <1>6, <2>1, <3>1, <3>2, RowWritten
  <2> QED BY <1>1, <2>2
<1>12. Served(api'.pubs, served', clashed')
  BY <1>1, <1>8, GoodFacts, ServedStays
<1>13. check' \in [Environments -> Checks] /\ \A x \in Environments : CheckSound(check'[x], promos')
  BY <1>1, GoodType, GoodFacts, CheckingSound
<1> QED BY <1>1, <1>7, <1>8, <1>9, <1>10, <1>11, <1>12, <1>13, GoodType, GoodFacts, GoodNext

------------------------------------------------------------------------------
(* Requests that write a deployment row.                                   *)

(* A deployment writes its row: a new generation, or a clash.              *)
LEMMA CommitDeployKeeps ==
    ASSUME Good, NEW r \in Slots, CommitDeploy(r)
    PROVE  Good'
<1> DEFINE q == req[r]
           t == q.env
           now == dep[t]
           row == IF q.seen = NoRow THEN q.row ELSE Flushed(now, q.seen, q.row)
<1>1. /\ q.op = "deploy"
      /\ IF CanFlush(now, q.seen) THEN dep' = [dep EXCEPT ![t] = row] ELSE dep' = dep
      /\ clashed' = clashed \cup Clash(t, q.seen, q.row)
      /\ api' = api /\ promos' = promos /\ revived' = revived /\ taken' = taken /\ Excused' = Excused /\ End(r)
  BY DEF CommitDeploy, Excused
<1>2. served' = served
  BY <1>1 DEF End
<1>3. q \in Request /\ t \in Environments /\ q.seen \in Row \cup {NoRow} /\ q.row \in Row
  BY <1>1, GoodType, RequestShape DEF Deploys
<1>4. dep \in [Environments -> Row \cup {NoRow}] /\ now \in Row \cup {NoRow}
  BY <1>3, GoodType
<1>5. SeenSound(q, dep, promos, clashed) /\ DeploySound(q)
  BY GoodFacts DEF RequestSound
<1>6. Writes(q) /\ Target(q) = t
  BY <1>1 DEF Writes, Target
<1>7. clashed \subseteq clashed' /\ clashed' \subseteq Environments
  BY <1>1, <1>3, GoodType DEF Clash
<1>8. /\ \A e \in Environments : RowSound(dep[e], e, promos, served, clashed')
      /\ OpenRows(promos, dep, Excused, clashed')
      /\ \A x \in Slots : RequestSound(req[x], dep, promos, served, Excused, clashed')
      /\ Served(api.pubs, served, clashed')
  BY <1>7, GoodType, GoodFacts, RowStays, OpenStays, RequestStays, ServedStays
<1>9. /\ dep' \in [Environments -> Row \cup {NoRow}]
      /\ \A e \in Environments : RowSound(dep'[e], e, promos, served, clashed')
      /\ OpenRows(promos, dep', Excused, clashed')
      /\ \A x \in Slots : RequestSound(req[x], dep', promos, served, Excused, clashed')
  <2>1. CASE ~CanFlush(now, q.seen) \/ dep' = dep
    <3>1. dep' = dep
      BY <1>1, <2>1
    <3> QED BY <1>4, <1>8, <3>1
  <2>2. CASE CanFlush(now, q.seen) /\ dep' # dep
    <3>1. dep' = [dep EXCEPT ![t] = row]
      BY <1>1, <2>2
    <3>2. /\ row \in Row
          /\ t \in clashed' \/ Advances(now, row)
          /\ RowSound(row, t, promos, served, clashed')
          /\ now # NoRow => row.promo = now.promo
      <4>1. CASE q.seen = NoRow
        <5>1. row = q.row /\ now = NoRow
          BY <2>2, <4>1 DEF CanFlush
        <5>2. q.row.via = 0 /\ q.row.promo = 0 /\ q.row.desired = 1 /\ q.row.synced = 0
          BY <1>1, <1>5, <4>1 DEF DeploySound
        <5> HIDE DEF q, now, row, t
        <5> QED BY <1>3, <5>1, <5>2 DEF Advances, RowSound
      <4>2. CASE q.seen # NoRow
        <5> DEFINE seen == q.seen
                   new == q.row
        <5>1. now # NoRow /\ (t \notin clashed => Earlier(seen, now))
          BY <1>5, <1>6, <4>2 DEF SeenSound
        <5>2. now \in Row /\ seen \in Row /\ new \in Row
          BY <1>3, <1>4, <4>2, <5>1
        <5>3. /\ new.promo = seen.promo /\ new.synced = seen.synced
              /\ new = seen \/ (new.desired = seen.desired + 1 /\ new.via = 0)
          BY <1>1, <1>5, <4>2 DEF DeploySound
        <5>4. row = Flushed(now, seen, new)
          BY <4>2
        <5>5. new # seen
          <6> SUFFICES ASSUME new = seen PROVE FALSE
            OBVIOUS
          <6>1. row = now
            BY <5>2, <5>4, FlushNothing
          <6>2. [dep EXCEPT ![t] = now] = dep
            BY <1>3, <1>4
          <6> HIDE DEF q, now, row, t
          <6> QED BY <2>2, <3>1, <6>1, <6>2
        <5>6. t \in clashed' \/ now.desired = seen.desired
          BY <1>1, <4>2, <5>5 DEF Clash
        <5>7. RowSound(now, t, promos, served, clashed')
          BY <1>3, <1>8
        <5> HIDE DEF q, now, row, t, seen, new
        <5>8. new.desired # seen.desired /\ new.desired = seen.desired + 1 /\ new.via = 0
          BY <5>2, <5>3, <5>5 DEF Row
        <5>9. /\ row \in Row /\ row.promo = now.promo /\ row.synced = now.synced
              /\ row.desired = seen.desired + 1
              /\ row.via = IF seen.via # 0 THEN 0 ELSE now.via
          <6>1. LET f == Flushed(now, seen, new) IN
                /\ f \in Row
                /\ f.via = IF new.via # seen.via THEN new.via ELSE now.via
                /\ f.promo = IF new.promo # seen.promo THEN new.promo ELSE now.promo
                /\ f.desired = IF new.desired # seen.desired THEN new.desired ELSE now.desired
                /\ f.synced = IF new.synced # seen.synced THEN new.synced ELSE now.synced
            BY <5>2, FlushFacts
          <6> QED BY <5>3, <5>4, <5>8, <6>1
        <5>10. CASE t \in clashed'
          BY <5>1, <5>2, <5>7, <5>9, <5>10 DEF RowSound
        <5>11. CASE t \notin clashed'
          <6>1. now.desired = seen.desired /\ t \notin clashed
            BY <1>7, <5>6, <5>11
          <6>2. seen.via = now.via
            BY <5>1, <6>1 DEF Earlier
          <6>3. row.via = 0 /\ row.desired = now.desired + 1
            BY <5>9, <6>1, <6>2
          <6>4. now.desired \in Nat /\ now.synced \in Nat
            BY <5>2 DEF Row
          <6>5. Advances(now, row)
            BY <6>3, <6>4 DEF Advances
          <6>6. now.synced <= now.desired
            BY <5>1, <5>7, <5>11 DEF RowSound
          <6>7. row.synced <= row.desired /\ row.synced # row.desired
            BY <5>9, <6>3, <6>4, <6>6
          <6>8. RowSound(row, t, promos, served, clashed')
            BY <5>1, <5>7, <5>9, <6>3, <6>7 DEF RowSound
          <6> QED BY <5>9, <6>5, <6>8
        <5> QED BY <5>10, <5>11
      <4> QED BY <4>1, <4>2
    <3> HIDE DEF q, now, row, t
    <3>3. now = dep[t]
      BY DEF now
    <3>4. /\ dep' \in [Environments -> Row \cup {NoRow}] /\ dep'[t] = row
          /\ \A e \in Environments : e # t => dep'[e] = dep[e]
      BY <1>3, <1>4, <3>1, <3>2
    <3>5. \A e \in Environments : RowSound(dep'[e], e, promos, served, clashed')
      BY <1>8, <3>2, <3>4
    <3>6. OpenRows(promos, dep', Excused, clashed')
      <4>1. \A i \in DOMAIN promos : promos[i].dst \in Environments
        BY GoodType, PromotionFields
      <4>2. \A x \in Environments : dep[x] # NoRow => dep'[x] # NoRow /\ dep'[x].promo = dep[x].promo
        BY <3>2, <3>3, <3>4, NoRowIsNotARow
      <4> QED BY <1>8, <4>1, <4>2 DEF OpenRows
    <3>7. ASSUME NEW x \in Slots PROVE RequestSound(req[x], dep', promos, served, Excused, clashed')
      <4>1. req[x] \in Request /\ RequestSound(req[x], dep, promos, served, Excused, clashed')
        BY <1>8, GoodType
      <4> QED BY <1>3, <1>4, <3>1, <3>2, <3>3, <4>1, RowWritten
    <3> QED BY <3>4, <3>5, <3>6, <3>7
  <2> QED BY <2>1, <2>2
<1>10. /\ \A x \in Slots : RequestSound(req'[x], dep', promos', served', Excused', clashed')
       /\ req' \in [Slots -> Request]
       /\ check' = check /\ requests' = requests /\ faults' = faults
  BY <1>1, <1>2, <1>9, EndKeeps
<1> QED BY <1>1, <1>2, <1>7, <1>8, <1>9, <1>10, GoodType, GoodFacts, GoodNext

(* Promotion p, that a request goes on with or has just inserted, writes   *)
(* its row over a generation that was counted twice, inserts it, leaves it *)
(* as it is, or gives it its next generation.                              *)
Inserted(p, now, row) ==
    now = NoRow /\ row.promo = p /\ row.via = p /\ row.desired = 1 /\ row.synced = 0
Kept(q, p, now, row) ==
    row = now /\ now # NoRow /\ q.seen # NoRow /\ p = q.seen.promo /\ p = q.id
Advanced(q, p, now, row) ==
    /\ now # NoRow /\ q.seen # NoRow /\ q.seen.desired = now.desired
    /\ q.seen.promo = now.promo
    /\ row.promo = p /\ row.via = p /\ row.desired = now.desired + 1
    /\ row.synced = now.synced
Promoted(q, p, now, row, cl) ==
    /\ row \in Row
    /\ row.promo = p \/ (now # NoRow /\ row.promo = now.promo)
    /\ q.chain[2] \in cl \/ Inserted(p, now, row) \/ Kept(q, p, now, row) \/ Advanced(q, p, now, row)

(* The row and the clashes when the request commits.                       *)
UpsertOf(q, p) == Upserted(q.seen, q.spec, p, q.force)
RowAfter(q, p) ==
    IF q.seen = NoRow THEN UpsertOf(q, p) ELSE Flushed(dep[q.chain[2]], q.seen, UpsertOf(q, p))
ClashedAfter(q, p) == clashed \cup Clash(q.chain[2], q.seen, UpsertOf(q, p))

(* What a promotion writes to the row of its target.                       *)
LEMMA PromoteRow ==
    ASSUME Good, NEW q \in Promotes, RequestSound(q, dep, promos, served, Excused, clashed),
           NEW p \in Nat, p # 0, IF q.id = 0 THEN p \notin DOMAIN promos ELSE p = q.id,
           CanFlush(dep[q.chain[2]], q.seen)
    PROVE  Promoted(q, p, dep[q.chain[2]], RowAfter(q, p), ClashedAfter(q, p))
<1> DEFINE t == q.chain[2]
           now == dep[t]
           up == UpsertOf(q, p)
           row == RowAfter(q, p)
           cl == ClashedAfter(q, p)
<1>0. /\ t = q.chain[2] /\ now = dep[t] /\ CanFlush(now, q.seen) /\ up = Upserted(q.seen, q.spec, p, q.force)
      /\ row = (IF q.seen = NoRow THEN up ELSE Flushed(now, q.seen, up))
      /\ cl = clashed \cup Clash(t, q.seen, up)
  BY DEF RowAfter, ClashedAfter, UpsertOf
<1> SUFFICES Promoted(q, p, now, row, cl)
  OBVIOUS
<1> HIDE DEF t, now, up, row, cl
<1>1. /\ q.op = "promote" /\ q.chain \in Chains /\ q.spec \in Specs /\ q.force \in BOOLEAN
      /\ q.seen \in Row \cup {NoRow}
  BY DEF Promotes
<1>2. t \in Environments /\ now \in Row \cup {NoRow}
  BY <1>0, <1>1, ChainShape, GoodType
<1>3. Writes(q) /\ Target(q) = t
  BY <1>0, <1>1 DEF Writes, Target
<1>4. CASE q.seen = NoRow
  <2>1. now = NoRow /\ row = up
    BY <1>0, <1>4 DEF CanFlush
  <2>2. up \in Row /\ up.via = p /\ up.promo = p /\ up.desired = 1 /\ up.synced = 0
    BY <1>0, <1>1, <1>4, UpsertedNew
  <2> QED BY <2>1, <2>2 DEF Promoted, Inserted
<1>5. CASE q.seen # NoRow
  <2> DEFINE seen == q.seen
  <2>1. /\ now # NoRow /\ (t \notin clashed => Earlier(seen, now))
        /\ seen.promo # 0 => LinkedTo(promos, seen.promo, t)
    BY <1>0, <1>3, <1>5 DEF RequestSound, SeenSound
  <2>2. seen \in Row /\ now \in Row
    BY <1>1, <1>2, <1>5, <2>1
  <2>3. /\ up \in Row /\ up.via = p /\ up.synced = seen.synced /\ up.promo = p
        /\ \/ up.desired = seen.desired + 1
           \/ up.desired = seen.desired /\ seen.via = p /\ up.spec = seen.spec /\ up.status = seen.status
    BY <1>0, <1>1, <2>2, UpsertedOld
  <2>4. row = Flushed(now, seen, up)
    BY <1>0, <1>5
  <2>5. seen.promo # 0 => seen.promo \in DOMAIN promos
    BY <2>1 DEF LinkedTo
  <2>6. p = seen.promo => p = q.id
    BY <2>5
  <2>7. cl = clashed \cup (IF up # seen /\ now.desired # seen.desired THEN {t} ELSE {})
    BY <1>0, <1>5 DEF Clash
  <2>8. q.seen = seen /\ seen # NoRow
    BY <1>5
  <2>9. RowSound(now, t, promos, served, clashed)
    BY <1>0, <1>2, GoodFacts
  <2> HIDE DEF seen
  <2>10. /\ row \in Row
         /\ row.via = IF up.via # seen.via THEN up.via ELSE now.via
         /\ row.promo = IF up.promo # seen.promo THEN up.promo ELSE now.promo
         /\ row.desired = IF up.desired # seen.desired THEN up.desired ELSE now.desired
         /\ row.synced = IF up.synced # seen.synced THEN up.synced ELSE now.synced
    BY <2>2, <2>3, <2>4, FlushFacts
  <2>11. row.promo = p \/ row.promo = now.promo
    BY <2>3, <2>10
  <2>12. CASE up = seen
    <3>1. row = now
      BY <2>2, <2>4, <2>12, FlushNothing
    <3>2. p = seen.promo
      BY <2>3, <2>12
    <3> QED BY <2>1, <2>2, <2>6, <2>8, <3>1, <3>2 DEF Promoted, Kept
  <2>13. CASE up # seen /\ t \notin cl
    <3>1. t \notin clashed /\ now.desired = seen.desired
      BY <2>7, <2>13
    <3>2. seen.spec = now.spec /\ seen.via = now.via /\ seen.promo = now.promo
      BY <2>1, <3>1 DEF Earlier
    <3>3. up.desired = seen.desired + 1
      <4> SUFFICES ASSUME up.desired = seen.desired, seen.via = p, up.spec = seen.spec,
                          up.status = seen.status
                   PROVE  FALSE
        BY <2>3
      <4>1. now.via \in {0, now.promo}
        BY <2>1, <2>9, <3>1 DEF RowSound
      <4>2. seen.promo = p
        BY <3>2, <4>1
      <4> QED BY <2>2, <2>3, <2>13, <4>2, RowEquality
    <3>4. seen.desired \in Nat /\ up.desired # seen.desired
      BY <2>2, <3>3 DEF Row
    <3>5. row.desired = now.desired + 1 /\ row.synced = now.synced
      BY <2>3, <2>10, <3>1, <3>3, <3>4
    <3>6. row.via = p /\ row.promo = p
      BY <2>3, <2>10, <3>2
    <3> QED BY <2>1, <2>8, <2>10, <3>1, <3>2, <3>5, <3>6 DEF Promoted, Advanced
  <2>14. CASE t \in cl
    BY <1>0, <2>1, <2>10, <2>11, <2>14 DEF Promoted
  <2> QED BY <2>12, <2>13, <2>14
<1> QED BY <1>4, <1>5

(* The promotions when a request goes on with one, and after it.           *)
KnownTo(q) == IF q.id # 0 THEN promos
              ELSE Append(promos, Promotion(q.chain[1], q.chain[2], "PROMOTING", q.by, q.by))
PromotionOf(q) == IF q.id = 0 THEN Len(KnownTo(q)) ELSE q.id
StatusAfter(q, synced) == IF synced THEN "PROMOTED"
                          ELSE IF q.status = "PENDING" THEN "PROMOTING" ELSE q.status
RecordsAfter(q, synced) ==
    [KnownTo(q) EXCEPT ![PromotionOf(q)].linked = TRUE, ![PromotionOf(q)].gateways = TRUE,
                       ![PromotionOf(q)].status =
                            IF StatusAfter(q, synced) # q.status THEN StatusAfter(q, synced) ELSE @]

Recorded(q, known, p, after) ==
    /\ p \in Nat /\ p # 0
    /\ IF q.id = 0 THEN p \notin DOMAIN promos ELSE p = q.id /\ p \in DOMAIN promos
    /\ after \in Seq(PromotionRow) /\ DOMAIN after = DOMAIN promos \cup {p}
    /\ DOMAIN known = DOMAIN promos \cup {p}
    /\ \A i \in DOMAIN promos : known[i] = promos[i] /\ (i # p => after[i] = promos[i])
    /\ q.id = 0 => known[p].dst = q.chain[2] /\ known[p].status = "PROMOTING"
    /\ after[p].dst = q.chain[2] /\ after[p].linked
    /\ PromosSound(after) /\ Grows(promos, after)

(* What a promotion writes to the table of promotions.                     *)
LEMMA PromoteRecords ==
    ASSUME Good, NEW q \in Promotes, RequestSound(q, dep, promos, served, Excused, clashed),
           NEW synced \in BOOLEAN, IndexHolds(RecordsAfter(q, synced))
    PROVE  Recorded(q, KnownTo(q), PromotionOf(q), RecordsAfter(q, synced))
<1> DEFINE known == KnownTo(q)
           p == PromotionOf(q)
           status == StatusAfter(q, synced)
           after == RecordsAfter(q, synced)
<1>0. /\ known = KnownTo(q) /\ p = PromotionOf(q) /\ status = StatusAfter(q, synced)
      /\ after = [known EXCEPT ![p].linked = TRUE, ![p].gateways = TRUE,
                               ![p].status = IF status # q.status THEN status ELSE @]
      /\ IndexHolds(after)
  BY DEF RecordsAfter
<1> SUFFICES Recorded(q, known, p, after)
  OBVIOUS
<1> HIDE DEF known, p, status, after
<1>1. /\ q.op = "promote" /\ q.chain \in Chains /\ q.by \in Users /\ q.id \in Nat
      /\ q.status \in PromotionStatus
  BY DEF Promotes
<1>2. q.chain[1] \in Environments /\ q.chain[2] \in Environments /\ <<q.chain[1], q.chain[2]>> \in Chains
  BY <1>1, ChainShape
<1>3. promos \in Seq(PromotionRow) /\ PromosSound(promos)
  BY GoodType, GoodFacts
<1>4. PromoteSound(q, promos)
  BY DEF RequestSound
<1>5. /\ known \in Seq(PromotionRow) /\ p \in Nat /\ p # 0 /\ DOMAIN known = DOMAIN promos \cup {p}
      /\ IF q.id = 0 THEN p \notin DOMAIN promos ELSE p = q.id /\ p \in DOMAIN promos
      /\ \A i \in DOMAIN promos : known[i] = promos[i]
      /\ q.id = 0 => known[p].status = "PROMOTING"
      /\ known[p].src = q.chain[1] /\ known[p].dst = q.chain[2]
  <2>1. CASE q.id # 0
    <3>1. known = promos /\ p = q.id
      BY <1>0, <2>1 DEF KnownTo, PromotionOf
    <3>2. p \in DOMAIN promos /\ promos[p].src = q.chain[1] /\ promos[p].dst = q.chain[2]
      BY <1>1, <1>4, <2>1, <3>1 DEF PromoteSound
    <3> QED BY <1>1, <1>3, <2>1, <3>1, <3>2
  <2>2. CASE q.id = 0
    <3> DEFINE x == Promotion(q.chain[1], q.chain[2], "PROMOTING", q.by, q.by)
    <3>1. x \in PromotionRow /\ x.src = q.chain[1] /\ x.dst = q.chain[2] /\ x.status = "PROMOTING"
      BY <1>1, <1>2 DEF Promotion, PromotionRow, PromotionStatus
    <3>2. known = Append(promos, x) /\ p = Len(known)
      BY <1>0, <2>2 DEF KnownTo, PromotionOf
    <3> HIDE DEF x
    <3>3. /\ known \in Seq(PromotionRow) /\ Len(known) = Len(promos) + 1 /\ Len(promos) \in Nat
          /\ known[Len(promos) + 1] = x
          /\ \A i \in 1 .. Len(promos) : known[i] = promos[i]
      BY <1>3, <3>1, <3>2
    <3>4. DOMAIN promos = 1 .. Len(promos) /\ DOMAIN known = 1 .. Len(promos) + 1
      BY <1>3, <3>3
    <3>5. p \in Nat /\ p # 0 /\ p \notin DOMAIN promos /\ DOMAIN known = DOMAIN promos \cup {p}
      BY <3>2, <3>3, <3>4
    <3> QED BY <2>2, <3>1, <3>2, <3>3, <3>4, <3>5
  <2> QED BY <2>1, <2>2
<1>6. status \in PromotionStatus
  BY <1>0, <1>1 DEF StatusAfter, PromotionStatus
<1> DEFINE w == IF status # q.status THEN status ELSE known[p].status
           v == [known[p] EXCEPT !.linked = TRUE, !.gateways = TRUE, !.status = w]
<1>7. known[p] \in PromotionRow
  BY <1>5, PromotionFields
<1>8. w \in PromotionStatus /\ w = IF status # q.status THEN status ELSE known[p].status
  BY <1>6, <1>7 DEF PromotionRow
<1>9. after = [known EXCEPT ![p] = v]
  <2>1. CASE status # q.status
    BY <1>0, <1>5, <1>7, <2>1 DEF PromotionRow
  <2>2. CASE status = q.status
    BY <1>0, <1>5, <1>7, <2>2 DEF PromotionRow
  <2> QED BY <2>1, <2>2
<1> HIDE DEF w
<1>10. /\ v \in PromotionRow /\ v.status = w /\ v.src = known[p].src /\ v.dst = known[p].dst
       /\ v.linked = TRUE
  BY <1>7, <1>8 DEF PromotionRow
<1> HIDE DEF v
<1>11. /\ after \in Seq(PromotionRow) /\ DOMAIN after = DOMAIN known /\ after[p] = v
       /\ \A i \in DOMAIN known : i # p => after[i] = known[i]
  BY <1>5, <1>9, <1>10, OneChanged
<1>12. w # "PENDING"
  <2>1. CASE q.status = "PENDING"
    <3>1. status \in {"PROMOTED", "PROMOTING"}
      BY <1>0, <2>1 DEF StatusAfter
    <3> QED BY <1>8, <2>1, <3>1
  <2>2. CASE q.status # "PENDING"
    <3>1. status \in {"PROMOTED", q.status}
      BY <1>0, <2>2 DEF StatusAfter
    <3>2. w \in {"PROMOTED", known[p].status}
      BY <1>8, <3>1
    <3>3. known[p].status # "PENDING"
      BY <1>1, <1>4, <1>5, <2>2 DEF PromoteSound
    <3> QED BY <1>5, <2>2, <3>2, <3>3
  <2> QED BY <2>1, <2>2
<1>13. PromosSound(after)
  <2>1. IndexHolds(after)
    BY <1>0
  <2> QED BY <1>2, <1>3, <1>5, <1>10, <1>11, <1>12, <2>1 DEF PromosSound
<1>14. Grows(promos, after)
  BY <1>5, <1>10, <1>11, <1>12 DEF Grows
<1> QED BY <1>5, <1>10, <1>11, <1>12, <1>13, <1>14 DEF Recorded

(* A promotion links the row to itself and leaves no other open one        *)
(* without a row.                                                          *)
LEMMA CommitPromoteKeeps ==
    ASSUME Good, NEW r \in Slots, CommitPromote(r)
    PROVE  Good'
<1> DEFINE q == req[r]
           t == q.chain[2]
           now == dep[t]
           known == KnownTo(q)
           p == PromotionOf(q)
           row == RowAfter(q, p)
           up == UpsertOf(q, p)
           insync == SyncedToDesired(IF up = q.seen THEN up ELSE row)
           after == RecordsAfter(q, insync)
           cl == ClashedAfter(q, p)
           done == CanFlush(now, q.seen) /\ IndexHolds(known) /\ IndexHolds(after)
           late == q.id # 0 /\ q.seen # NoRow /\ q.seen.promo > q.known
<1>1. /\ q.op = "promote"
      /\ IF done
         THEN promos' = after /\ dep' = [dep EXCEPT ![t] = row]
         ELSE promos' = promos /\ dep' = dep
      /\ revived' = IF done /\ after[p].status \in Active /\ known[p].status \notin Active
                    THEN revived \cup {p} ELSE revived
      /\ taken' = IF done /\ late THEN taken \cup {q.seen.promo} ELSE taken
      /\ Excused' = revived' \cup taken' /\ Excused = revived \cup taken
      /\ clashed' = cl
      /\ api' = api /\ End(r)
  BY DEF CommitPromote, KnownTo, PromotionOf, StatusAfter, RecordsAfter, RowAfter, UpsertOf, ClashedAfter,
         Excused
<1>2. served' = served
  BY <1>1 DEF End
<1>3. q \in Promotes /\ RequestSound(q, dep, promos, served, Excused, clashed)
  BY <1>1, GoodType, GoodFacts, RequestShape
<1>4. t \in Environments
  BY <1>3, ChainShape DEF Promotes
<1>5. /\ dep \in [Environments -> Row \cup {NoRow}] /\ now \in Row \cup {NoRow}
      /\ promos \in Seq(PromotionRow) /\ Excused \subseteq DOMAIN promos
  BY <1>4, GoodType
<1>6. clashed \subseteq cl /\ cl \subseteq Environments
  BY <1>4, GoodType DEF Clash, ClashedAfter
<1>7. insync \in BOOLEAN
  BY DEF SyncedToDesired
<1>8. now = dep[t] /\ t = q.chain[2] /\ q = req[r]
  OBVIOUS
<1> HIDE DEF q, insync, late
<1>9. IndexHolds(after) => Recorded(q, known, p, after)
  BY <1>3, <1>7, PromoteRecords
<1>10. IndexHolds(after) /\ CanFlush(now, q.seen) => Promoted(q, p, now, row, cl)
  <2> HIDE DEF known, p, after
  <2> QED BY <1>3, <1>9, PromoteRow DEF Recorded
<1> HIDE DEF t, now, known, p, row, up, after, cl
<1>11. /\ \A e \in Environments : RowSound(dep[e], e, promos, served, cl)
       /\ OpenRows(promos, dep, Excused, cl)
       /\ \A x \in Slots : RequestSound(req[x], dep, promos, served, Excused, cl)
       /\ Served(api.pubs, served, cl)
  BY <1>6, GoodType, GoodFacts, RowStays, OpenStays, RequestStays, ServedStays
<1>12. /\ promos' \in Seq(PromotionRow)
       /\ revived' \subseteq DOMAIN promos' /\ taken' \subseteq DOMAIN promos'
       /\ dep' \in [Environments -> Row \cup {NoRow}]
       /\ PromosSound(promos') /\ Grows(promos, promos')
       /\ \A e \in Environments : RowSound(dep'[e], e, promos', served, cl)
       /\ OpenRows(promos', dep', Excused', cl)
       /\ \A x \in Slots : RequestSound(req[x], dep', promos', served, Excused', cl)
  <2>1. CASE ~(CanFlush(now, q.seen) /\ IndexHolds(known) /\ IndexHolds(after))
    <3>1. promos' = promos /\ dep' = dep /\ revived' = revived /\ taken' = taken /\ Excused' = Excused
      BY <1>1, <2>1
    <3>2. Grows(promos, promos)
      BY DEF Grows
    <3> QED BY <1>5, <1>11, <3>1, <3>2, GoodType, GoodFacts
  <2>2. CASE CanFlush(now, q.seen) /\ IndexHolds(known) /\ IndexHolds(after)
    <3>1. promos' = after /\ dep' = [dep EXCEPT ![t] = row]
      BY <1>1, <2>2
    <3>2. /\ p \in Nat /\ p # 0
          /\ IF q.id = 0 THEN p \notin DOMAIN promos ELSE p = q.id /\ p \in DOMAIN promos
          /\ after \in Seq(PromotionRow) /\ DOMAIN after = DOMAIN promos \cup {p}
          /\ DOMAIN known = DOMAIN promos \cup {p}
          /\ \A i \in DOMAIN promos : known[i] = promos[i] /\ (i # p => after[i] = promos[i])
          /\ q.id = 0 => known[p].dst = t /\ known[p].status = "PROMOTING"
          /\ after[p].dst = t /\ after[p].linked
          /\ PromosSound(after) /\ Grows(promos, after)
      BY <1>8, <1>9, <2>2 DEF Recorded
    <3>3. /\ row \in Row
          /\ row.promo = p \/ (now # NoRow /\ row.promo = now.promo)
          /\ t \in cl \/ Inserted(p, now, row) \/ Kept(q, p, now, row) \/ Advanced(q, p, now, row)
      BY <1>8, <1>10, <2>2 DEF Promoted
    <3> USE DEF Inserted, Kept, Advanced
    <3>4. row # NoRow
      BY <3>3, NoRowIsNotARow
    <3>5. /\ dep' \in [Environments -> Row \cup {NoRow}] /\ dep'[t] = row
          /\ \A e \in Environments : e # t => dep'[e] = dep[e]
      BY <1>4, <1>5, <3>1, <3>3
    <3>6. RowSound(now, t, promos, served, cl) /\ RowSound(now, t, after, served, cl)
      BY <1>4, <1>8, <1>11, <3>2, GrowRow
    <3>7. LinkedTo(after, p, t)
      BY <3>2 DEF LinkedTo
    <3>8. RowSound(row, t, after, served, cl)
      <4>1. row.promo # 0 => LinkedTo(after, row.promo, t)
        BY <3>3, <3>6, <3>7 DEF RowSound
      <4>2. CASE t \in cl
        BY <4>1, <4>2 DEF RowSound
      <4>3. CASE Inserted(p, now, row)
        BY <4>1, <4>3 DEF RowSound
      <4>4. CASE Kept(q, p, now, row)
        BY <3>6, <4>4
      <4>5. CASE Advanced(q, p, now, row) /\ t \notin cl
        <5>1. now \in Row /\ now.synced <= now.desired
          BY <1>5, <3>6, <4>5 DEF RowSound
        <5>2. row.synced <= row.desired /\ row.synced # row.desired
          BY <4>5, <5>1 DEF Row
        <5> QED BY <4>1, <4>5, <5>2 DEF RowSound
      <4> QED BY <3>3, <4>2, <4>3, <4>4, <4>5
    <3>9. \A e \in Environments : RowSound(dep'[e], e, after, served, cl)
      <4>1. \A e \in Environments : RowSound(dep[e], e, after, served, cl)
        BY <1>11, <3>2, GrowRow
      <4> QED BY <3>5, <3>8, <4>1
    <3> DEFINE ex == Excused'
    <3>9a. /\ Excused \subseteq ex /\ revived' \subseteq DOMAIN after /\ taken' \subseteq DOMAIN after
           /\ p \in DOMAIN promos /\ after[p].status \in Active => promos[p].status \in Active \/ p \in ex
           /\ late => q.seen.promo \in ex
      <4>1. /\ revived' = IF after[p].status \in Active /\ known[p].status \notin Active
                          THEN revived \cup {p} ELSE revived
            /\ taken' = IF late THEN taken \cup {q.seen.promo} ELSE taken
            /\ ex = revived' \cup taken' /\ Excused = revived \cup taken
        BY <1>1, <2>2
      <4>2. late => q.seen.promo \in DOMAIN promos
        <5> SUFFICES ASSUME late PROVE q.seen.promo \in DOMAIN promos
          OBVIOUS
        <5>1. q.seen # NoRow /\ q.seen.promo # 0
          <6>1. q.seen # NoRow /\ q.seen.promo > q.known
            BY DEF late
          <6>2. q.known \in Nat /\ q.seen \in Row
            BY <1>3, <6>1 DEF Promotes
          <6> QED BY <6>1, <6>2 DEF Row
        <5>2. Writes(q) /\ Target(q) = t
          BY <1>1, <1>8 DEF Writes, Target
        <5> QED BY <1>3, <5>1, <5>2 DEF RequestSound, SeenSound, LinkedTo
      <4>3. revived \subseteq DOMAIN promos /\ taken \subseteq DOMAIN promos
        BY GoodType
      <4> HIDE DEF ex
      <4> QED BY <3>2, <4>1, <4>2, <4>3
    <3> HIDE DEF ex
    (* The request whose row is kept had found it linked to its promotion. *)
    <3>10. Kept(q, p, now, row) => p \in DOMAIN promos /\ promos[p].linked
                   /\ (after[p].status \in Active => promos[p].status \in Active \/ p \in ex)
      <4> SUFFICES ASSUME Kept(q, p, now, row)
                   PROVE  p \in DOMAIN promos /\ promos[p].linked
                          /\ (after[p].status \in Active => promos[p].status \in Active \/ p \in ex)
        OBVIOUS
      <4>1. Writes(q) /\ Target(q) = t /\ q.op = "promote"
        BY <1>1, <1>8 DEF Writes, Target
      <4>2. LinkedTo(promos, p, t)
        BY <1>3, <3>2, <4>1 DEF RequestSound, SeenSound
      <4> QED BY <3>9a, <4>2 DEF LinkedTo
    <3>11. OpenRows(after, dep', ex, cl)
      <4> SUFFICES ASSUME NEW i \in DOMAIN after \ ex, after[i].linked, after[i].status \in Active,
                          after[i].dst \notin cl
                   PROVE  dep'[after[i].dst] # NoRow /\ dep'[after[i].dst].promo = i
        BY DEF OpenRows
      <4>1. OpenRows(promos, dep, Excused, cl)
        BY <1>11
      <4>4. after[i].linked
        OBVIOUS
      <4>2. CASE i # p
        <5>1. i \in DOMAIN promos /\ after[i] = promos[i]
          BY <3>2, <4>2
        <5>2. dep[after[i].dst] # NoRow /\ dep[after[i].dst].promo = i
          BY <3>9a, <4>1, <5>1 DEF OpenRows
        <5>3. after[i].dst \in Environments
          BY <3>2, PromotionFields
        <5>4. CASE after[i].dst # t
          BY <3>5, <5>2, <5>3, <5>4
        <5>5. CASE after[i].dst = t
          <6>1. now # NoRow /\ now.promo = i /\ t \notin cl
            BY <1>8, <5>2, <5>5
          <6>2. CASE Kept(q, p, now, row)
            BY <3>4, <3>5, <5>5, <6>1, <6>2
          <6>3. ~Advanced(q, p, now, row)
            <7> SUFFICES ASSUME Advanced(q, p, now, row) PROVE FALSE
              OBVIOUS
            <7>0. q.seen # NoRow
              OBVIOUS
            <7>1. q.seen.promo = i /\ i # 0 /\ promos[i].status \in Active /\ promos[i].dst = t
              BY <1>5, <5>1, <5>5, <6>1, PromotionFields
            <7>2. CASE q.id = 0
              <8>1. known[i].dst = t /\ known[i].status \in Active /\ known[p].dst = t
                    /\ known[p].status \in Active /\ i \in DOMAIN known /\ p \in DOMAIN known
                BY <3>2, <5>1, <7>1, <7>2 DEF Active
              <8> QED BY <2>2, <4>2, <8>1 DEF IndexHolds
            <7>3. CASE q.id # 0
              <8>1. i # q.id /\ i \notin Excused
                BY <3>2, <3>9a, <4>2, <7>3
              <8>2. q.seen.promo <= q.known
                <9>1. ~late
                  BY <3>9a, <7>1
                <9>2. q.known \in Nat /\ q.seen \in Row
                  BY <1>3, <7>0 DEF Promotes
                <9> QED BY <7>0, <7>3, <9>1, <9>2 DEF late, Row
              <8>3. i \in 1 .. q.known
                <9>1. q.known \in Nat /\ i \in Nat /\ i # 0
                  BY <1>3, <1>5, <5>1, PromotionFields DEF Promotes
                <9> QED BY <7>1, <8>2, <9>1
              <8>4. promos[i].src = q.chain[1]
                <9>1. <<promos[i].src, promos[i].dst>> \in Chains
                  BY <4>4, <5>1, GoodFacts DEF PromosSound
                <9>2. q.chain \in Chains /\ q.chain[2] = t
                  BY <1>3, <1>8 DEF Promotes
                <9> QED BY <7>1, <9>1, <9>2, ChainSource
              <8>5. promos[i].status \notin Active \/ i \in Excused
                BY <1>1, <1>3, <1>8, <7>1, <7>3, <8>1, <8>3, <8>4 DEF RequestSound, OthersEnded
              <8> QED BY <7>1, <8>1, <8>5
            <7> QED BY <7>2, <7>3
          <6> QED BY <3>3, <6>1, <6>2, <6>3
        <5> QED BY <5>4, <5>5
      <4>3. CASE i = p
        <5>1. after[i].dst = t /\ t \notin cl
          BY <3>2, <4>3
        <5>2. CASE Kept(q, p, now, row)
          <6>1. p \in DOMAIN promos \ Excused /\ promos[p].linked /\ promos[p].status \in Active
            BY <3>10, <3>9a, <4>3, <5>2
          <6>2. promos[p].dst = t
            BY <3>2, <6>1 DEF Grows
          <6>3. now.promo = p
            BY <1>8, <4>1, <5>1, <6>1, <6>2 DEF OpenRows
          <6> QED BY <3>4, <3>5, <4>3, <5>1, <5>2, <6>3
        <5>3. CASE Inserted(p, now, row) \/ Advanced(q, p, now, row)
          BY <3>4, <3>5, <4>3, <5>1, <5>3
        <5> QED BY <3>3, <5>1, <5>2, <5>3
      <4> QED BY <4>2, <4>3
    <3>12. t \in cl \/ Advances(now, row)
      <4>1. CASE Kept(q, p, now, row)
        <5>1. now \in Row
          BY <1>5, <4>1
        <5> QED BY <4>1, <5>1 DEF Advances, Earlier, Row
      <4>2. CASE Advanced(q, p, now, row)
        <5>1. now \in Row
          BY <1>5, <4>2
        <5> QED BY <4>2, <5>1 DEF Advances, Row
      <4> QED BY <3>3, <4>1, <4>2 DEF Advances
    <3>13. ASSUME NEW x \in Slots PROVE RequestSound(req[x], dep', after, served, ex, cl)
      <4> DEFINE z == req[x]
      <4>1. z \in Request /\ RequestSound(z, dep, promos, served, Excused, cl)
        BY <1>11, GoodType
      <4> HIDE DEF z
      <4>2. RequestSound(z, dep', promos, served, Excused, cl)
        BY <1>4, <1>5, <1>8, <3>1, <3>3, <3>12, <4>1, RowWritten
      <4>3. OthersEnded(z, after, ex)
        <5> SUFFICES ASSUME z.op \in {"chosen", "promote"}, z.id # 0, NEW i \in 1 .. z.known, i # z.id,
                            after[i].src = z.chain[1], after[i].dst = z.chain[2]
                     PROVE  after[i].status \notin Active \/ i \in ex
          BY DEF OthersEnded
        <5>1. i \in DOMAIN promos
          BY <4>2 DEF RequestSound, PromoteSound
        <5>2. promos[i].src = z.chain[1] /\ promos[i].dst = z.chain[2]
          BY <3>2, <5>1 DEF Grows
        <5>3. promos[i].status \notin Active \/ i \in Excused
          BY <4>2, <5>2 DEF RequestSound, OthersEnded
        <5> QED BY <3>2, <3>9a, <5>1, <5>3
      <4>4. RequestSound(z, dep', after, served, ex, cl)
        BY <3>2, <4>2, <4>3, GrowRequest
      <4> QED BY <4>4 DEF z
    <3> QED BY <1>5, <3>1, <3>2, <3>5, <3>9, <3>11, <3>13, <3>9a DEF ex
  <2> QED BY <2>1, <2>2
<1>13. /\ \A x \in Slots : RequestSound(req'[x], dep', promos', served', Excused', clashed')
       /\ req' \in [Slots -> Request]
       /\ check' = check /\ requests' = requests /\ faults' = faults
  BY <1>1, <1>2, <1>12, EndKeeps
<1>14. \A e \in Environments : CheckSound(check'[e], promos')
  BY <1>12, <1>13, GoodFacts, GrowCheck
<1> QED BY <1>1, <1>2, <1>6, <1>11, <1>12, <1>13, <1>14, GoodType, GoodFacts, GoodNext

------------------------------------------------------------------------------
(* Theorems.                                                               *)

(* Every step keeps the invariant.                                         *)
LEMMA NextKeeps ==
    ASSUME Good, Next
    PROVE  Good'
<1>1. ASSUME NEW r \in Slots, ReadTarget(r) \/ Commit(r) PROVE Good'
  BY <1>1, ReadTargetKeeps, CommitUpdateKeeps, CommitDeployKeeps, CommitPublishKeeps, CommitPromoteKeeps,
     CommitChangeKeeps DEF Commit
<1>2. ASSUME NEW r \in Deployers, Deploying(r) PROVE Good'
  <2>1. r \in Slots
    BY DEF Slots
  <2> QED BY <1>2, <2>1, BeginDeployKeeps, BeginPublishKeeps, BeginPromoteKeeps DEF Deploying
<1>3. ASSUME NEW r \in Editors, Editing(r) PROVE Good'
  BY <1>3, EditingKeeps
<1>4. ASSUME NEW e \in Environments,
             Gateway(e) \/ LateAck(e) \/ CheckRead(e) \/ CheckWrite(e) \/ CheckFails(e)
      PROVE  Good'
  BY <1>4, AcknowledgeKeeps, LateAckKeeps, CheckReadKeeps, CheckWriteKeeps, CheckFailsKeeps DEF Gateway
<1> QED BY <1>1, <1>2, <1>3, <1>4 DEF Next

(* So does a step that changes nothing.                                    *)
LEMMA StutterKeeps ==
    ASSUME Good, UNCHANGED vars
    PROVE  Good'
<1>1. /\ api' = api /\ dep' = dep /\ promos' = promos /\ req' = req /\ check' = check
      /\ requests' = requests /\ faults' = faults
      /\ served' = served /\ revived' = revived /\ taken' = taken /\ Excused' = Excused /\ clashed' = clashed
  BY DEF vars, history, Excused
<1> QED BY <1>1, GoodType, GoodFacts, GoodNext

(* The invariant holds of a new API and of one imported from Git.          *)
LEMMA InitGood ==
    ASSUME Init
    PROVE  Good
<1>1. /\ dep = [e \in Environments |-> NoRow] /\ promos = <<>> /\ req = [r \in Slots |-> Idle]
      /\ check = [e \in Environments |-> Idle] /\ requests = 0 /\ faults = 0
      /\ served = [e \in Environments |-> {}] /\ clashed = {}
      /\ revived = {} /\ taken = {} /\ Excused = {}
  BY DEF Init, Excused
<1>2. api \in CatalogRow /\ CatalogSound(api) /\ Served(api.pubs, served, clashed)
  <2>1. PICK st \in {"absent", "ready"}, s \in Specs \cup {None}, g \in BOOLEAN :
            api = Catalog(st, s, g) /\ (st = "ready" => s \in Specs)
    BY LifecycleValues DEF Init
  <2> QED BY <2>1, LifecycleValues DEF Catalog, CatalogRow, CatalogSound, Publications, Served
<1>3. TypeOK
  <2>1. promos \in Seq(PromotionRow) /\ DOMAIN promos = {}
    BY <1>1
  <2>2. requests \in 0 .. MaxRequests /\ faults \in 0 .. MaxFaults
    BY <1>1, LifecycleBounds
  <2>3. req \in [Slots -> Request] /\ check \in [Environments -> Checks]
    BY <1>1, RequestSets, IdleCheck
  <2>4. dep \in [Environments -> Row \cup {NoRow}] /\ served \in [Environments -> SUBSET Specs]
    BY <1>1
  <2>5. revived \subseteq DOMAIN promos /\ taken \subseteq DOMAIN promos /\ clashed \subseteq Environments
    BY <1>1
  <2> QED BY <1>2, <2>1, <2>2, <2>3, <2>4, <2>5, Zenon DEF TypeOK, Checks, CatalogRow
<1>4. PromosSound(promos) /\ OpenRows(promos, dep, Excused, clashed)
  <2>1. DOMAIN promos = {}
    BY <1>1
  <2> QED BY <2>1 DEF PromosSound, IndexHolds, OpenRows
<1>5. \A e \in Environments : RowSound(dep[e], e, promos, served, clashed) /\ CheckSound(check[e], promos)
  BY <1>1, IdleCheck DEF RowSound
<1>6. \A r \in Slots : RequestSound(req[r], dep, promos, served, Excused, clashed)
  BY <1>1, IdleIsSound
<1> QED BY <1>2, <1>3, <1>4, <1>5, <1>6 DEF Good, LifecycleInvariant

(* The inductive invariant of the lifecycle holds in every behaviour.      *)
LEMMA AlwaysGood == Spec => []Good
<1>1. Init => Good
  BY InitGood
<1>2. Good /\ [Next]_vars => Good'
  BY NextKeeps, StutterKeeps
<1> QED BY <1>1, <1>2, PTL DEF Spec

(* Catalog rows, deployment rows, promotions, requests with the tables     *)
(* they read, and completion checks have their shapes in every state.      *)
THEOREM TypeCorrect == Spec => []TypeOK
<1>1. Good => TypeOK
  BY DEF Good
<1> QED BY <1>1, AlwaysGood, PTL

(* publish_to_portal checks the deployment row and commits later: whatever *)
(* updates, deployments and acknowledgements come between, a publication   *)
(* record names a document its gateway has acknowledged, where no          *)
(* generation was counted twice.                                           *)
THEOREM PublishedWereServed == Spec => []PublishedWasServed
<1>1. Good => PublishedWasServed
  BY GoodFacts DEF Served, PublishedWasServed
<1> QED BY <1>1, AlwaysGood, PTL

(* An open lifecycle promotion is the one its target's deployment row is   *)
(* linked to, for any number of overlapping requests: only a promotion     *)
(* chosen before it existed, or a generation counted twice, takes its row, *)
(* and only a late write makes a promotion that had ended open without it. *)
THEOREM OpenPromotionsHaveRows == Spec => []OpenPromotionHasRow
<1>1. Good => OpenPromotionHasRow
  <2> SUFFICES ASSUME Good, NEW i \in DOMAIN promos \ Excused, promos[i].linked,
                      promos[i].status \in Active, promos[i].dst \notin clashed
               PROVE  Linked(i) = {promos[i].dst}
    BY DEF OpenPromotionHasRow
  <2>1. dep[promos[i].dst] # NoRow /\ dep[promos[i].dst].promo = i
    BY GoodFacts DEF OpenRows
  <2>2. promos[i].dst \in Environments /\ i # 0
    BY GoodType, PromotionFields
  <2>3. ASSUME NEW e \in Environments, dep[e] # NoRow, dep[e].promo = i PROVE e = promos[i].dst
    BY <2>2, <2>3, GoodFacts DEF RowSound, LinkedTo
  <2> QED BY <2>1, <2>2, <2>3 DEF Linked
<1> QED BY <1>1, AlwaysGood, PTL
=============================================================================
