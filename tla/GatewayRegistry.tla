--------------------------- MODULE GatewayRegistry ---------------------------
(***************************************************************************)
(* The registry of gateways (gateway_instances) and who keeps it: gateways *)
(* that register and send heartbeats (the Rust gateway and stoa-connect),  *)
(* the health worker that marks silent ones OFFLINE and purges them, the   *)
(* reconciler that follows ArgoCD, and administrators.                     *)
(*                                                                         *)
(* All gateways of one kind have the same mode and environment.  Names are *)
(* unique and rows are only soft-deleted, so a name stands for its id.  A  *)
(* handler reads rows, then commits the columns it changed.                *)
(***************************************************************************)
EXTENDS Naturals, FiniteSets

CONSTANTS
    Rust,       \* instance names of stoa-gateways
    Go,         \* instance names of stoa-connect agents
    Apps,       \* ArgoCD Applications labelled as stoa-gateways
    Healths,    \* what _HEALTH_MAP makes of their health
    None,
    Replicas,   \* bound: gateways that run at once
    MaxEvents   \* bound: gateways stopping, administrators' calls, ArgoCD
                \* changes, failed calls and transactions, partitions

Gateways == Rust \cup Go
Names == Gateways \cup Apps

ASSUME RegistryNames == Rust \cap Go = {} /\ Gateways \cap Apps = {} /\ None \notin Names
                        /\ Healths \subseteq {"ONLINE", "DEGRADED", "OFFLINE"}
ASSUME RegistryBounds == Replicas \in Nat /\ MaxEvents \in Nat

VARIABLES
    row,      \* row[n]: status, age of last_health_check, deleted_at is set
    gw,       \* gw[g]: the process of gateway g and the handler of its call
    worker,   \* GatewayHealthWorker: what the running cycle has read
    rec,      \* GatewayReconciler: what the running cycle has read
    argo,     \* argo[a]: the health of Application a, "gone" without one
    events

vars == <<row, gw, worker, rec, argo, events>>

(* Ages in halves of GATEWAY_HEARTBEAT_TIMEOUT; the last stands for seven  *)
(* days.                                                                   *)
Stale == 2
Old == 3

Absent == [status |-> "absent", age |-> 0, deleted |-> FALSE]
Down == [pc |-> "down", id |-> None, misses |-> 0, seen |-> Absent, replaces |-> {}]
Resting == [pc |-> "idle", marks |-> {}, purges |-> {}]
NoCycle == [pc |-> "idle", apps |-> [a \in Apps |-> "gone"]]

Init ==
    /\ row = [n \in Names |-> Absent]
    /\ gw = [g \in Gateways |-> Down]
    /\ worker = Resting
    /\ rec = NoCycle
    /\ argo \in [Apps -> Healths \cup {"gone"}]
    /\ events = 0

Event == events < MaxEvents /\ events' = events + 1
Quiet == UNCHANGED events

(* What a handler keeps of a row it read.                                  *)
Copy(r) == [r EXCEPT !.age = 0]

Listed(n) == row[n] # Absent /\ ~row[n].deleted

------------------------------------------------------------------------------
(* Registration.                                                           *)

Peers(g) == (IF g \in Rust THEN Rust ELSE Go) \ {g}

(* The process starts and registers.                                       *)
Start(g) ==
    /\ gw[g] = Down
    /\ Cardinality({p \in Gateways : gw[p] # Down}) < Replicas
    /\ gw' = [gw EXCEPT ![g].pc = "register"]
    /\ Quiet
    /\ UNCHANGED <<row, worker, rec, argo>>

Stop(g) ==
    /\ gw[g].pc # "down"
    /\ gw' = [gw EXCEPT ![g] = Down]
    /\ Event
    /\ UNCHANGED <<row, worker, rec, argo>>

(* Faulty: a soft-deleted entry is updated like a live one.                *)
ReadRegistrationLive(g) ==
    LET Replaced == {p \in Peers(g) : Listed(p)}
        Reads(n, rs) == gw' = [gw EXCEPT ![g] =
            [@ EXCEPT !.pc = "answer", !.id = n, !.seen = [Copy(row[n]) EXCEPT !.deleted = FALSE], !.replaces = rs]]
    IN  /\ gw[g].pc = "register"
        /\ \/ row[g] # Absent /\ Reads(g, {})
           \/ row[g] = Absent /\ Reads(g, Replaced)
        /\ Quiet
        /\ UNCHANGED <<row, worker, rec, argo>>

(* POST /register finds the entry of that name, live or soft-deleted;      *)
(* without one it will replace the live self-registered entries of the     *)
(* same mode, and adopt an ArgoCD entry of its type or insert its own.     *)
ReadRegistration(g) ==
    LET Replaced == {p \in Peers(g) : Listed(p)}
        Adopted == {a \in Apps : g \in Rust /\ Listed(a)}
        Reads(n, rs) == gw' = [gw EXCEPT ![g] =
            [@ EXCEPT !.pc = "answer", !.id = n, !.seen = Copy(row[n]), !.replaces = rs]]
    IN  /\ gw[g].pc = "register"
        /\ \/ row[g] # Absent /\ Reads(g, {})
           \/ row[g] = Absent /\ Adopted = {} /\ Reads(g, Replaced)
           \/ row[g] = Absent /\ \E a \in Adopted : Reads(a, Replaced)
        /\ Quiet
        /\ UNCHANGED <<row, worker, rec, argo>>

(* ONLINE and last_health_check over the row now; the status only if the   *)
(* handler had read another, deleted_at only if it had read one.           *)
Alive(now, seen) ==
    [status |-> IF seen.status = "ONLINE" THEN now.status ELSE "ONLINE",
     age |-> 0,
     deleted |-> now.deleted /\ ~seen.deleted]

Registered(g) ==
    row' = [n \in Names |->
                IF n = gw[g].id THEN Alive(row[n], gw[g].seen)
                ELSE IF n \in gw[g].replaces THEN [row[n] EXCEPT !.deleted = TRUE]
                ELSE row[n]]

CommitRegistration(g) ==
    /\ gw[g].pc = "answer"
    /\ Registered(g)
    /\ gw' = [gw EXCEPT ![g] = [Down EXCEPT !.pc = "beat", !.id = gw[g].id]]
    /\ Quiet
    /\ UNCHANGED <<worker, rec, argo>>

(* The API refuses the key of a Rust gateway (401, 403): its task returns  *)
(* for good.                                                               *)
RegistrationRefused(g) ==
    /\ g \in Rust /\ gw[g].pc = "register"
    /\ gw' = [gw EXCEPT ![g] = [Down EXCEPT !.pc = "mute"]]
    /\ Event
    /\ UNCHANGED <<row, worker, rec, argo>>

(* The call fails in any other way, or only its answer is lost.  The Rust  *)
(* gateway tries again later.  stoa-connect has cleared its id:            *)
(* runHeartbeat gets ErrNotRegistered from now on, which is not a 404.     *)
RegistrationFails(g) ==
    /\ gw[g].pc = "answer"
    /\ Registered(g) \/ UNCHANGED row
    /\ gw' = [gw EXCEPT ![g] = [Down EXCEPT !.pc = IF g \in Go THEN "mute" ELSE "register",
                                           !.misses = gw[g].misses]]
    /\ Event
    /\ UNCHANGED <<worker, rec, argo>>

------------------------------------------------------------------------------
(* Heartbeats.                                                             *)

RE_REGISTER_THRESHOLD == 3

(* Faulty: one 404 more than the threshold.                                *)
BeatOneMore(g) ==
    LET m == gw[g].misses + 1 IN
    /\ gw[g].pc = "beat"
    /\ \/ /\ Listed(gw[g].id)
          /\ gw' = [gw EXCEPT ![g].pc = "ack", ![g].seen = Copy(row[gw[g].id])]
       \/ /\ ~Listed(gw[g].id) /\ m <= RE_REGISTER_THRESHOLD
          /\ gw' = [gw EXCEPT ![g].misses = m]
       \/ /\ ~Listed(gw[g].id) /\ m > RE_REGISTER_THRESHOLD
          /\ gw' = [gw EXCEPT ![g] = [Down EXCEPT !.pc = "register",
                                                  !.misses = IF g \in Go THEN m ELSE 0]]
    /\ Quiet
    /\ UNCHANGED <<row, worker, rec, argo>>

(* The handler reads the entry.  A 404 counts; the third makes the gateway *)
(* drop its id and register again.  The Rust loop's count ends with it.    *)
Beat(g) ==
    LET m == gw[g].misses + 1 IN
    /\ gw[g].pc = "beat"
    /\ \/ /\ Listed(gw[g].id)
          /\ gw' = [gw EXCEPT ![g].pc = "ack", ![g].seen = Copy(row[gw[g].id])]
       \/ /\ ~Listed(gw[g].id) /\ m < RE_REGISTER_THRESHOLD
          /\ gw' = [gw EXCEPT ![g].misses = m]
       \/ /\ ~Listed(gw[g].id) /\ m >= RE_REGISTER_THRESHOLD
          /\ gw' = [gw EXCEPT ![g] = [Down EXCEPT !.pc = "register",
                                                  !.misses = IF g \in Go THEN m ELSE 0]]
    /\ Quiet
    /\ UNCHANGED <<row, worker, rec, argo>>

(* The handler commits.  A lost answer leaves the count of 404s alone.     *)
CommitBeat(g) ==
    /\ gw[g].pc = "ack"
    /\ row' = [row EXCEPT ![gw[g].id] = Alive(@, gw[g].seen)]
    /\ \/ gw' = [gw EXCEPT ![g].pc = "beat", ![g].seen = Absent, ![g].misses = 0] /\ Quiet
       \/ gw' = [gw EXCEPT ![g].pc = "beat", ![g].seen = Absent] /\ Event
    /\ UNCHANGED <<worker, rec, argo>>

(* Half a timeout passes: a listed gateway has sent a heartbeat meanwhile  *)
(* (30 s against 90 s), unless it was cut off.  Nobody reads the age of a  *)
(* soft-deleted row.                                                       *)
Tick ==
    /\ IF \A g \in Gateways : gw[g].pc \in {"beat", "ack"} /\ Listed(gw[g].id) => row[gw[g].id].age = 0
       THEN Quiet
       ELSE Event
    /\ row' = [n \in Names |-> IF Listed(n) /\ row[n].age < Old
                               THEN [row[n] EXCEPT !.age = @ + 1] ELSE row[n]]
    /\ UNCHANGED <<gw, worker, rec, argo>>

------------------------------------------------------------------------------
(* The health worker, one transaction per cycle: what                      *)
(* _mark_stale_gateways_offline and _purge_stale_gateways read is written  *)
(* by the commit at the end, after the polls of the other gateways.        *)

Purgeable == {n \in Names : Listed(n) /\ row[n].status = "OFFLINE" /\ row[n].age = Old}

(* Faulty: only DEGRADED rows are looked for.                              *)
ReadCycleDegraded ==
    LET Silent == {n \in Names : Listed(n) /\ row[n].age >= Stale /\ row[n].status = "DEGRADED"}
    IN  /\ worker = Resting /\ Silent \cup Purgeable # {}
        /\ worker' = [pc |-> "commit", marks |-> Silent, purges |-> Purgeable]
        /\ Quiet
        /\ UNCHANGED <<row, gw, rec, argo>>

(* A cycle that finds nothing writes nothing and is left out.              *)
ReadCycle ==
    LET Silent == {n \in Names : /\ Listed(n) /\ row[n].age >= Stale
                                 /\ row[n].status \in {"ONLINE", "DEGRADED"}}
    IN  /\ worker = Resting /\ Silent \cup Purgeable # {}
        /\ worker' = [pc |-> "commit", marks |-> Silent, purges |-> Purgeable]
        /\ Quiet
        /\ UNCHANGED <<row, gw, rec, argo>>

CommitCycle ==
    /\ worker.pc = "commit"
    /\ row' = [n \in Names |->
                [row[n] EXCEPT !.status = IF n \in worker.marks THEN "OFFLINE" ELSE @,
                               !.deleted = @ \/ n \in worker.purges]]
    /\ worker' = Resting
    /\ Quiet
    /\ UNCHANGED <<gw, rec, argo>>

(* An error rolls the whole cycle back.                                    *)
CycleFails ==
    /\ worker.pc # "idle"
    /\ worker' = Resting
    /\ Event
    /\ UNCHANGED <<row, gw, rec, argo>>

------------------------------------------------------------------------------
(* The reconciler lists the Applications, then works on their entries in   *)
(* one short transaction.                                                  *)

FetchApps ==
    /\ rec = NoCycle
    /\ rec' = [pc |-> "commit", apps |-> argo]
    /\ Quiet
    /\ UNCHANGED <<row, gw, worker, argo>>

(* Faulty: entries of Applications that are gone stay.                     *)
ReconciledUnpruned(a) ==
    LET h == rec.apps[a] IN
    CASE h = "gone" -> row[a]
      [] h # "gone" /\ Listed(a) -> [row[a] EXCEPT !.status = h, !.age = 0]
      [] h # "gone" /\ ~Listed(a) -> [status |-> h, age |-> 0, deleted |-> FALSE]

(* _upsert_from_argocd and _prune_stale_argocd_entries for a.              *)
Reconciled(a) ==
    LET h == rec.apps[a] IN
    CASE h = "gone" /\ Listed(a) -> [row[a] EXCEPT !.status = "OFFLINE", !.deleted = TRUE]
      [] h = "gone" /\ ~Listed(a) -> row[a]
      [] h # "gone" /\ Listed(a) -> [row[a] EXCEPT !.status = h, !.age = 0]
      [] h # "gone" /\ ~Listed(a) -> [status |-> h, age |-> 0, deleted |-> FALSE]

(* An INSERT of a name that a soft-deleted entry holds fails, and with it  *)
(* the cycle.                                                              *)
CommitEntries ==
    /\ rec.pc = "commit"
    /\ IF \E a \in Apps : rec.apps[a] # "gone" /\ row[a].deleted
       THEN UNCHANGED row
       ELSE row' = [n \in Names |-> IF n \in Apps THEN Reconciled(n) ELSE row[n]]
    /\ rec' = NoCycle
    /\ Quiet
    /\ UNCHANGED <<gw, worker, argo>>

------------------------------------------------------------------------------
(* ArgoCD, and the administrators' endpoints.                              *)

ArgoChanges(a) ==
    /\ argo' \in {[argo EXCEPT ![a] = h] : h \in (Healths \cup {"gone"}) \ {argo[a]}}
    /\ Event
    /\ UNCHANGED <<row, gw, worker, rec>>

(* DELETE and POST /restore.                                               *)
Delete(n) ==
    /\ Listed(n)
    /\ row' = [row EXCEPT ![n].deleted = TRUE]
    /\ Event
    /\ UNCHANGED <<gw, worker, rec, argo>>

Restore(n) ==
    /\ row[n].deleted
    /\ \E d \in row[n].age..Old : row' = [row EXCEPT ![n].deleted = FALSE, ![n].age = d]
    /\ Event
    /\ UNCHANGED <<gw, worker, rec, argo>>

(* POST /cleanup                                                           *)
Cleanup ==
    /\ Purgeable # {}
    /\ row' = [n \in Names |-> IF n \in Purgeable THEN [row[n] EXCEPT !.deleted = TRUE] ELSE row[n]]
    /\ Event
    /\ UNCHANGED <<gw, worker, rec, argo>>

------------------------------------------------------------------------------
Call(g) == ReadRegistration(g) \/ CommitRegistration(g) \/ Beat(g) \/ CommitBeat(g)
Cycle == ReadCycle \/ CommitCycle
Reconcile == FetchApps \/ CommitEntries

Next ==
    \/ \E g \in Gateways : Start(g) \/ Stop(g) \/ Call(g) \/ RegistrationRefused(g) \/ RegistrationFails(g)
    \/ Tick
    \/ Cycle \/ CycleFails
    \/ Reconcile
    \/ \E a \in Apps : ArgoChanges(a)
    \/ \E n \in Names : Delete(n) \/ Restore(n)
    \/ Cleanup

Spec == Init /\ [][Next]_vars

(* The loops of the gateways, the worker and the reconciler go on; time    *)
(* passes.                                                                 *)
LiveSpec ==
    /\ Spec
    /\ \A g \in Gateways : WF_vars(Call(g))
    /\ WF_vars(Tick) /\ WF_vars(Cycle) /\ WF_vars(Reconcile)

------------------------------------------------------------------------------
Statuses == {"ONLINE", "DEGRADED", "OFFLINE"}
RowType == [status : Statuses \cup {"absent"}, age : 0..Old, deleted : BOOLEAN]

(* The variables have their types; a soft-deleted row is a row; a gateway  *)
(* that has counted three 404s sends no more heartbeats to that entry      *)
(* (RE_REGISTER_THRESHOLD).                                                *)
TypeOK ==
    /\ row \in [Names -> RowType]
    /\ \A n \in Names : row[n].status = "absent" => row[n] = Absent
    /\ gw \in [Gateways -> [pc : {"down", "register", "answer", "beat", "ack", "mute"},
                            id : Names \cup {None}, misses : 0..RE_REGISTER_THRESHOLD,
                            seen : RowType, replaces : SUBSET Gateways]]
    /\ \A g \in Gateways : gw[g].pc \in {"beat", "ack"} => gw[g].misses < RE_REGISTER_THRESHOLD
    /\ worker \in [pc : {"idle", "commit"}, marks : SUBSET Names, purges : SUBSET Names]
    /\ rec \in [pc : {"idle", "commit"}, apps : [Apps -> Healths \cup {"gone"}]]
    /\ argo \in [Apps -> Healths \cup {"gone"}]
    /\ events \in 0..MaxEvents

Serving(g) == gw[g].id # None /\ Listed(gw[g].id) /\ row[gw[g].id].status = "ONLINE"

(* A running Rust gateway is listed ONLINE again and again, whatever the   *)
(* health worker, a peer's registration, ArgoCD or an administrator did to *)
(* its entry meanwhile, unless the API refused its key                     *)
(* (start_registration_and_heartbeat).                                     *)
GatewayIsListed == \A g \in Rust : []<>(Serving(g) \/ gw[g].pc \in {"down", "mute"})

(* The entry under its own name of a gateway that no longer sends          *)
(* heartbeats does not stay ONLINE (_mark_stale_gateways_offline).  An     *)
(* adopted entry has the Application's name: it stays ONLINE as long as    *)
(* ArgoCD calls that Healthy.                                              *)
StoppedGoesOffline ==
    \A g \in Gateways :
        gw[g].pc \in {"down", "mute"} /\ Listed(g) ~>
            ~Listed(g) \/ row[g].status # "ONLINE" \/ gw[g].pc \notin {"down", "mute"}

(* An Application that is gone loses its entry, unless another one whose   *)
(* name a soft-deleted entry holds stops the reconciler                    *)
(* (_prune_stale_argocd_entries).                                          *)
EntriesFollowArgo ==
    \A a \in Apps :
        argo[a] = "gone" ~>
            ~Listed(a) \/ argo[a] # "gone" \/ \E b \in Apps : argo[b] # "gone" /\ row[b].deleted

(* An agent that got three 404s registers again (runHeartbeat).            *)
AgentReturns ==
    \A g \in Go : gw[g].misses = RE_REGISTER_THRESHOLD ~> Serving(g) \/ gw[g].pc = "down"
==============================================================================
