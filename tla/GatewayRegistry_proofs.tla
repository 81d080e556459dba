------------------------ MODULE GatewayRegistry_proofs ------------------------
(***************************************************************************)
(* Proofs about GatewayRegistry for every value of its constants: any      *)
(* number of gateways of both kinds and of ArgoCD Applications, and any    *)
(* number of faults, restarts and administrators' calls.                   *)
(***************************************************************************)
EXTENDS GatewayRegistry, TLAPS

Processes ==
    [pc : {"down", "register", "answer", "beat", "ack", "mute"},
     id : Names \cup {None}, misses : 0..RE_REGISTER_THRESHOLD,
     seen : RowType, replaces : SUBSET Gateways]

(* A row that can be in the table: the status absent goes with no row.     *)
Sound(r) == r \in RowType /\ (r.status = "absent" => r = Absent)

(* Rows are soft-deleted and never dropped, so whatever a handler or the   *)
(* worker has read is still there when it commits, whoever committed       *)
(* meanwhile.                                                              *)
Kept(tbl, n) == n \in Names /\ tbl[n].status # "absent"

(* What a gateway and the handler of its call hold: an entry to answer     *)
(* for, entries to replace, and fewer 404s than would make it register.    *)
Holding(tbl, p) ==
    /\ p.pc = "answer" => p.id \in Names /\ (p.seen.status # "absent" => Kept(tbl, p.id))
    /\ p.pc \in {"beat", "ack"} => Kept(tbl, p.id) /\ p.misses < RE_REGISTER_THRESHOLD
    /\ \A q \in p.replaces : Kept(tbl, q)

RegistryInvariant ==
    /\ TypeOK
    /\ \A g \in Gateways : Holding(row, gw[g])
    /\ \A n \in worker.marks \cup worker.purges : Kept(row, n)

(* The records the steps start from. *)
LEMMA Constants ==
    /\ Absent \in RowType /\ Sound(Absent) /\ Absent.status = "absent" /\ Absent.deleted = FALSE
    /\ Down \in Processes /\ Down.pc = "down" /\ Down.replaces = {}
    /\ Resting \in [pc : {"idle", "commit"}, marks : SUBSET Names, purges : SUBSET Names]
    /\ Resting.marks = {} /\ Resting.purges = {}
    /\ NoCycle \in [pc : {"idle", "commit"}, apps : [Apps -> Healths \cup {"gone"}]]
    /\ RE_REGISTER_THRESHOLD = 3 /\ Old = 3
<1>1. Absent \in RowType /\ Absent.status = "absent" /\ Absent.deleted = FALSE
  BY DEF Absent, RowType, Statuses, Old
<1>2. Sound(Absent)
  BY <1>1 DEF Sound
<1>3. Down \in Processes /\ Down.pc = "down" /\ Down.replaces = {}
  BY <1>1 DEF Down, Processes, RE_REGISTER_THRESHOLD
<1>4. /\ Resting \in [pc : {"idle", "commit"}, marks : SUBSET Names, purges : SUBSET Names]
      /\ Resting.marks = {} /\ Resting.purges = {}
  BY DEF Resting
<1>5. NoCycle \in [pc : {"idle", "commit"}, apps : [Apps -> Healths \cup {"gone"}]]
  BY DEF NoCycle
<1> QED
  BY <1>1, <1>2, <1>3, <1>4, <1>5 DEF RE_REGISTER_THRESHOLD, Old

(* A table whose rows are sound is well typed, and conversely. *)
LEMMA RowsSound ==
    TypeOK => row \in [Names -> RowType] /\ \A n \in Names : Sound(row[n])
BY DEF TypeOK, Sound

(* A listed entry and a soft-deleted one are rows. *)
LEMMA ListedIsKept ==
    ASSUME TypeOK, NEW n \in Names
    PROVE  /\ Listed(n) => Kept(row, n)
           /\ row[n].deleted => Kept(row, n)
           /\ row[n] # Absent => Kept(row, n)
<1>1. Sound(row[n])
  BY RowsSound
<1> QED
  BY <1>1, Constants DEF Listed, Kept, Sound

(* The table is empty and nobody runs at the start. *)
LEMMA InitRegistry == Init => RegistryInvariant
<1> SUFFICES ASSUME Init PROVE RegistryInvariant
  OBVIOUS
<1>1. TypeOK
  <2>1. /\ row \in [Names -> RowType]
        /\ \A n \in Names : row[n].status = "absent" => row[n] = Absent
    BY Constants DEF Init
  <2>2. gw \in [Gateways -> Processes]
    BY Constants DEF Init
  <2>3. /\ worker \in [pc : {"idle", "commit"}, marks : SUBSET Names, purges : SUBSET Names]
        /\ rec \in [pc : {"idle", "commit"}, apps : [Apps -> Healths \cup {"gone"}]]
    BY Constants DEF Init
  <2>4. events \in 0..MaxEvents
    BY RegistryBounds DEF Init
  <2>5. \A g \in Gateways : gw[g].pc = "down"
    BY Constants DEF Init
  <2> QED
    BY <2>1, <2>2, <2>3, <2>4, <2>5 DEF Init, TypeOK, Processes
<1>2. \A g \in Gateways : Holding(row, gw[g])
  <2>1. Holding(row, Down)
    BY Constants DEF Holding
  <2> QED
    BY <2>1 DEF Init
<1>3. worker.marks \cup worker.purges = {}
  BY Constants DEF Init
<1> QED
  BY <1>1, <1>2, <1>3 DEF RegistryInvariant

(* The counter stays within its bound. *)
LEMMA CounterTyped ==
    ASSUME TypeOK, Event \/ Quiet
    PROVE  events' \in 0..MaxEvents
BY RegistryBounds DEF TypeOK, Event, Quiet

(* A step that writes sound rows and drops none keeps what everybody holds. *)
LEMMA RowStep ==
    ASSUME RegistryInvariant,
           NEW tbl \in [Names -> RowType], row' = tbl, \A n \in Names : Sound(tbl[n]),
           \A n \in Names : Kept(row, n) => Kept(tbl, n),
           events' \in 0..MaxEvents,
           gw' \in [Gateways -> Processes],
           \A g \in Gateways : gw'[g] = gw[g] \/ Holding(tbl, gw'[g]),
           worker' \in {worker, Resting},
           rec' \in [pc : {"idle", "commit"}, apps : [Apps -> Healths \cup {"gone"}]],
           argo' = argo
    PROVE  RegistryInvariant'
<1>1. \A n : Kept(row, n) => Kept(tbl, n)
  BY DEF Kept
<1>2. \A g \in Gateways : Holding(row, gw[g]) => Holding(tbl, gw[g])
  BY <1>1 DEF Holding
<1>3. \A g \in Gateways : Holding(row', gw'[g])
  BY <1>2 DEF RegistryInvariant
<1>4. TypeOK'
  <2>1. \A n \in Names : row'[n].status = "absent" => row'[n] = Absent
    BY DEF Sound
  <2>2. worker' \in [pc : {"idle", "commit"}, marks : SUBSET Names, purges : SUBSET Names]
    BY Constants DEF RegistryInvariant, TypeOK
  <2>3. argo' \in [Apps -> Healths \cup {"gone"}]
    BY DEF RegistryInvariant, TypeOK
  <2>4. \A g \in Gateways : gw'[g].pc \in {"beat", "ack"} => gw'[g].misses < RE_REGISTER_THRESHOLD
    BY <1>3 DEF Holding
  <2> QED
    BY <2>1, <2>2, <2>3, <2>4 DEF TypeOK, Processes
<1>5. \A n \in worker'.marks \cup worker'.purges : Kept(row', n)
  BY <1>1, Constants DEF RegistryInvariant
<1> QED
  BY <1>3, <1>4, <1>5 DEF RegistryInvariant

(* A step that leaves the table alone. *)
LEMMA TableUntouched ==
    ASSUME RegistryInvariant, row' = row,
           events' \in 0..MaxEvents,
           gw' \in [Gateways -> Processes],
           \A g \in Gateways : gw'[g] = gw[g] \/ Holding(row, gw'[g]),
           worker' \in {worker, Resting},
           rec' \in [pc : {"idle", "commit"}, apps : [Apps -> Healths \cup {"gone"}]],
           argo' = argo
    PROVE  RegistryInvariant'
<1>1. row \in [Names -> RowType] /\ \A n \in Names : Sound(row[n])
  BY RowsSound DEF RegistryInvariant
<1>2. \A n \in Names : Kept(row, n) => Kept(row, n)
  OBVIOUS
<1> QED
  BY <1>1, <1>2, RowStep

(* A process that changes its record for a well-typed one. *)
LEMMA ProcessStep ==
    ASSUME TypeOK, NEW g \in Gateways, NEW p \in Processes, gw' = [gw EXCEPT ![g] = p]
    PROVE  /\ gw' \in [Gateways -> Processes]
           /\ gw'[g] = p
           /\ \A h \in Gateways \ {g} : gw'[h] = gw[h]
<1>1. gw \in [Gateways -> Processes]
  BY DEF TypeOK, Processes
<1> QED
  BY <1>1

(* What CommitRegistration and CommitBeat write is a row. *)
LEMMA AliveFacts ==
    ASSUME NEW now \in RowType, NEW seen \in RowType, Sound(now),
           seen.status = "absent" \/ now.status # "absent"
    PROVE  /\ Alive(now, seen) \in RowType /\ Alive(now, seen).status # "absent"
           /\ Sound(Alive(now, seen))
<1>1. Alive(now, seen) \in RowType
  BY DEF Alive, RowType, Statuses, Old
<1>2. Alive(now, seen).status # "absent"
  BY DEF Alive, RowType, Statuses
<1> QED
  BY <1>1, <1>2 DEF Sound

(* A registration writes rows, and drops none. *)
LEMMA RegisteredRows ==
    ASSUME RegistryInvariant, NEW g \in Gateways, gw[g].pc = "answer", Registered(g)
    PROVE  /\ row' \in [Names -> RowType] /\ \A n \in Names : Sound(row'[n])
           /\ \A n \in Names : Kept(row, n) => Kept(row', n)
           /\ Kept(row', gw[g].id)
<1> DEFINE p == gw[g]
<1>1. /\ p \in Processes /\ Holding(row, p)
      /\ row \in [Names -> RowType] /\ \A n \in Names : Sound(row[n])
  BY RowsSound DEF RegistryInvariant, TypeOK, Processes
<1>2. /\ p.id \in Names /\ p.seen \in RowType
      /\ p.seen.status = "absent" \/ row[p.id].status # "absent"
      /\ \A q \in p.replaces : Kept(row, q)
  BY <1>1 DEF Holding, Kept, Processes
<1> DEFINE alive == Alive(row[p.id], p.seen)
<1>3. alive \in RowType /\ alive.status # "absent" /\ Sound(alive)
  BY <1>1, <1>2, AliveFacts
<1> HIDE DEF alive
<1>4. ASSUME NEW n \in Names
      PROVE  row'[n] \in RowType /\ Sound(row'[n]) /\ (Kept(row, n) => Kept(row', n))
             /\ (n = p.id => row'[n] = alive)
  <2>1. CASE n = p.id
    <3>1. row'[n] = alive
      BY <2>1 DEF Registered, alive
    <3> QED
      BY <1>3, <3>1 DEF Kept
  <2>2. CASE n # p.id /\ n \in p.replaces
    <3>1. row'[n] = [row[n] EXCEPT !.deleted = TRUE]
      BY <2>2 DEF Registered
    <3>2. row[n] \in RowType /\ row[n].status # "absent"
      BY <1>1, <1>2, <2>2 DEF Kept
    <3>3. row'[n] \in RowType /\ row'[n].status = row[n].status
      BY <3>1, <3>2 DEF RowType
    <3> QED
      BY <2>2, <3>2, <3>3 DEF Kept, Sound
  <2>3. CASE n # p.id /\ n \notin p.replaces
    <3>1. row'[n] = row[n]
      BY <2>3 DEF Registered
    <3> QED
      BY <1>1, <2>3, <3>1 DEF Kept
  <2> QED
    BY <2>1, <2>2, <2>3
<1>5. row' \in [Names -> RowType]
  <2>1. row' = [n \in Names |-> row'[n]]
    BY DEF Registered
  <2> QED
    BY <1>4, <2>1
<1>6. Kept(row', p.id)
  BY <1>2, <1>3, <1>4 DEF Kept
<1> QED
  BY <1>4, <1>5, <1>6

(* The steps of a gateway and of the handlers of its calls keep the        *)
(* invariant.                                                              *)
LEMMA GatewayRegistryStep ==
    ASSUME RegistryInvariant, NEW g \in Gateways,
           Start(g) \/ Stop(g) \/ Call(g) \/ RegistrationRefused(g) \/ RegistrationFails(g)
    PROVE  RegistryInvariant'
<1>0. TypeOK /\ gw[g] \in Processes /\ Holding(row, gw[g])
  BY DEF RegistryInvariant, TypeOK, Processes
<1>1. /\ events' \in 0..MaxEvents
      /\ worker' = worker /\ argo' = argo /\ rec' = rec
      /\ rec' \in [pc : {"idle", "commit"}, apps : [Apps -> Healths \cup {"gone"}]]
  <2>1. Event \/ Quiet
    BY DEF Start, Stop, Call, ReadRegistration, CommitRegistration, Beat, CommitBeat,
           RegistrationRefused, RegistrationFails
  <2>2. worker' = worker /\ argo' = argo /\ rec' = rec
    BY DEF Start, Stop, Call, ReadRegistration, CommitRegistration, Beat, CommitBeat,
           RegistrationRefused, RegistrationFails
  <2> QED
    BY <1>0, <2>1, <2>2, CounterTyped DEF TypeOK
(* The gateway goes on with a record p. *)
<1>2. ASSUME NEW p \in Processes, gw' = [gw EXCEPT ![g] = p], row' = row, Holding(row, p)
      PROVE  RegistryInvariant'
  <2>1. /\ gw' \in [Gateways -> Processes]
        /\ \A h \in Gateways : gw'[h] = gw[h] \/ Holding(row, gw'[h])
    BY <1>0, <1>2, ProcessStep
  <2> QED
    BY <1>1, <1>2, <2>1, TableUntouched
<1>3. ASSUME NEW p \in Processes, gw' = [gw EXCEPT ![g] = p],
             row' \in [Names -> RowType], \A n \in Names : Sound(row'[n]),
             \A n \in Names : Kept(row, n) => Kept(row', n), Holding(row', p)
      PROVE  RegistryInvariant'
  <2>1. /\ gw' \in [Gateways -> Processes]
        /\ \A h \in Gateways : gw'[h] = gw[h] \/ Holding(row', gw'[h])
    BY <1>0, <1>3, ProcessStep
  <2> QED
    BY <1>1, <1>3, <2>1, RowStep
(* A record made from Down, without an entry. *)
<1>4. ASSUME NEW pc \in {"down", "register", "mute"}, NEW m \in 0..RE_REGISTER_THRESHOLD, NEW tbl
      PROVE  /\ [Down EXCEPT !.pc = pc] \in Processes /\ Holding(tbl, [Down EXCEPT !.pc = pc])
             /\ [Down EXCEPT !.pc = pc, !.misses = m] \in Processes
             /\ Holding(tbl, [Down EXCEPT !.pc = pc, !.misses = m])
  BY Constants DEF Processes, Holding
<1>5. CASE Start(g)
  <2>1. gw' = [gw EXCEPT ![g] = [Down EXCEPT !.pc = "register"]] /\ row' = row
    BY <1>5 DEF Start
  <2>2. 0 \in 0..RE_REGISTER_THRESHOLD
    BY Constants
  <2> QED
    BY <1>2, <1>4, <2>1, <2>2
<1>6. CASE Stop(g)
  <2>1. gw' = [gw EXCEPT ![g] = Down] /\ row' = row
    BY <1>6 DEF Stop
  <2>2. Down \in Processes /\ Holding(row, Down)
    BY Constants DEF Holding
  <2> QED
    BY <1>2, <2>1, <2>2
<1>7. CASE ReadRegistration(g)
  <2>1. PICK n \in Names, rs \in SUBSET Gateways :
            /\ \A q \in rs : Listed(q)
            /\ gw' = [gw EXCEPT ![g] = [gw[g] EXCEPT !.pc = "answer", !.id = n,
                                                     !.seen = Copy(row[n]), !.replaces = rs]]
    <3>1. g \in Names /\ Peers(g) \subseteq Gateways /\ Apps \subseteq Names
      BY DEF Names, Peers, Gateways
    <3> QED
      BY <1>7, <3>1 DEF ReadRegistration
  <2> DEFINE p == [gw[g] EXCEPT !.pc = "answer", !.id = n, !.seen = Copy(row[n]), !.replaces = rs]
  <2>2. row[n] \in RowType
    BY <1>0 DEF TypeOK
  <2>3. Copy(row[n]) \in RowType /\ Copy(row[n]).status = row[n].status
    BY <2>2 DEF Copy, RowType, Old
  <2>4. /\ p \in Processes /\ p.pc = "answer" /\ p.id = n /\ p.replaces = rs
        /\ p.seen.status = row[n].status
    BY <1>0, <2>3 DEF Processes
  <2> HIDE DEF p
  <2>5. \A q \in rs : Kept(row, q)
    BY <1>0, <2>1, ListedIsKept DEF Names
  <2>6. Holding(row, p)
    BY <2>4, <2>5 DEF Holding, Kept
  <2>7. gw' = [gw EXCEPT ![g] = p] /\ row' = row
    BY <1>7, <2>1 DEF ReadRegistration, p
  <2> QED
    BY <1>2, <2>4, <2>6, <2>7
<1>8. CASE CommitRegistration(g)
  <2> DEFINE p == [Down EXCEPT !.pc = "beat", !.id = gw[g].id]
  <2>1. /\ row' \in [Names -> RowType] /\ \A n \in Names : Sound(row'[n])
        /\ \A n \in Names : Kept(row, n) => Kept(row', n)
        /\ Kept(row', gw[g].id)
    BY <1>8, RegisteredRows DEF CommitRegistration
  <2>2. /\ p \in Processes /\ p.pc = "beat" /\ p.id = gw[g].id /\ p.misses = 0 /\ p.replaces = {}
    <3>1. gw[g].id \in Names \cup {None} /\ Down.misses = 0
      BY <1>0 DEF Processes, Down
    <3> QED
      BY <3>1, Constants DEF Processes
  <2>3. gw' = [gw EXCEPT ![g] = p]
    BY <1>8 DEF CommitRegistration
  <2> HIDE DEF p
  <2>4. Holding(row', p)
    BY <2>1, <2>2, Constants DEF Holding
  <2> QED
    BY <1>3, <2>1, <2>2, <2>3, <2>4
<1>9. CASE RegistrationFails(g)
  <2> DEFINE pc == IF g \in Go THEN "mute" ELSE "register"
             m == gw[g].misses
  <2>1. pc \in {"down", "register", "mute"} /\ m \in 0..RE_REGISTER_THRESHOLD
    BY <1>0 DEF Processes
  <2>2. gw' = [gw EXCEPT ![g] = [Down EXCEPT !.pc = pc, !.misses = m]]
    BY <1>9 DEF RegistrationFails
  <2>3. gw[g].pc = "answer" /\ (Registered(g) \/ row' = row)
    BY <1>9 DEF RegistrationFails
  <2> HIDE DEF pc, m
  <2>4. CASE Registered(g)
    <3>1. /\ row' \in [Names -> RowType] /\ \A n \in Names : Sound(row'[n])
          /\ \A n \in Names : Kept(row, n) => Kept(row', n)
      BY <2>3, <2>4, RegisteredRows
    <3>2. /\ [Down EXCEPT !.pc = pc, !.misses = m] \in Processes
          /\ Holding(row', [Down EXCEPT !.pc = pc, !.misses = m])
      BY <1>4, <2>1
    <3> QED
      BY <1>3, <2>2, <3>1, <3>2
  <2>5. CASE row' = row
    BY <1>2, <1>4, <2>1, <2>2, <2>5
  <2> QED
    BY <2>3, <2>4, <2>5
<1>10. CASE RegistrationRefused(g)
  <2>1. gw' = [gw EXCEPT ![g] = [Down EXCEPT !.pc = "mute"]] /\ row' = row
    BY <1>10 DEF RegistrationRefused
  <2>2. 0 \in 0..RE_REGISTER_THRESHOLD
    BY Constants
  <2> QED
    BY <1>2, <1>4, <2>1, <2>2
<1>11. CASE Beat(g)
  <2> DEFINE n == gw[g].id
             m == gw[g].misses + 1
  <2>1. /\ gw[g].pc = "beat" /\ row' = row /\ Kept(row, n) /\ n \in Names
        /\ gw[g].misses \in 0..2 /\ m \in 0..RE_REGISTER_THRESHOLD
        /\ \A q \in gw[g].replaces : Kept(row, q)
    <3>1. gw[g].pc = "beat" /\ row' = row
      BY <1>11 DEF Beat
    <3>2. Kept(row, n) /\ gw[g].misses < 3 /\ \A q \in gw[g].replaces : Kept(row, q)
      BY <1>0, <3>1, Constants DEF Holding
    <3>3. gw[g].misses \in 0..3
      BY <1>0, Constants DEF Processes
    <3> QED
      BY <3>1, <3>2, <3>3, Constants DEF Kept
  <2>2. CASE gw' = [gw EXCEPT ![g].pc = "ack", ![g].seen = Copy(row[n])]
    <3> DEFINE p == [gw[g] EXCEPT !.pc = "ack", !.seen = Copy(row[n])]
    <3>0. row[n] \in RowType
      BY <1>0, <2>1 DEF TypeOK
    <3>1. Copy(row[n]) \in RowType
      BY <3>0 DEF Copy, RowType, Old
    <3>2. /\ p \in Processes /\ p.pc = "ack" /\ p.id = n /\ p.misses = gw[g].misses
          /\ p.replaces = gw[g].replaces
      BY <1>0, <3>1 DEF Processes
    <3>3. gw' = [gw EXCEPT ![g] = p]
      BY <1>0, <2>2 DEF TypeOK
    <3> HIDE DEF p
    <3>4. Holding(row, p)
      BY <2>1, <3>2, Constants DEF Holding
    <3> QED
      BY <1>2, <2>1, <3>2, <3>3, <3>4
  <2>3. CASE m < RE_REGISTER_THRESHOLD /\ gw' = [gw EXCEPT ![g].misses = m]
    <3> DEFINE p == [gw[g] EXCEPT !.misses = m]
    <3>1. /\ p \in Processes /\ p.pc = "beat" /\ p.id = n /\ p.misses = m
          /\ p.replaces = gw[g].replaces
      BY <1>0, <2>1 DEF Processes
    <3>2. gw' = [gw EXCEPT ![g] = p]
      BY <2>3
    <3> HIDE DEF p, m
    <3>3. Holding(row, p)
      BY <2>1, <2>3, <3>1 DEF Holding
    <3> QED
      BY <1>2, <2>1, <3>1, <3>2, <3>3
  <2>4. CASE gw' = [gw EXCEPT ![g] = [Down EXCEPT !.pc = "register",
                                                 !.misses = IF g \in Go THEN m ELSE 0]]
    <3> DEFINE k == IF g \in Go THEN m ELSE 0
    <3>1. k \in 0..RE_REGISTER_THRESHOLD
      BY <2>1, Constants
    <3>2. gw' = [gw EXCEPT ![g] = [Down EXCEPT !.pc = "register", !.misses = k]]
      BY <2>4
    <3> HIDE DEF k
    <3> QED
      BY <1>2, <1>4, <2>1, <3>1, <3>2
  <2> QED
    BY <1>11, <2>2, <2>3, <2>4 DEF Beat
<1>12. CASE CommitBeat(g)
  <2> DEFINE n == gw[g].id
             alive == Alive(row[n], gw[g].seen)
  <2>1. /\ gw[g].pc = "ack" /\ row' = [row EXCEPT ![n] = alive] /\ Kept(row, n) /\ n \in Names
        /\ gw[g].misses < RE_REGISTER_THRESHOLD /\ \A q \in gw[g].replaces : Kept(row, q)
        /\ row[n] \in RowType /\ gw[g].seen \in RowType /\ Sound(row[n])
    <3>1. gw[g].pc = "ack" /\ row' = [row EXCEPT ![n] = alive]
      BY <1>12 DEF CommitBeat
    <3>2. Kept(row, n) /\ n \in Names /\ gw[g].misses < RE_REGISTER_THRESHOLD
          /\ \A q \in gw[g].replaces : Kept(row, q)
      BY <1>0, <3>1 DEF Holding, Kept
    <3> QED
      BY <1>0, <3>1, <3>2, RowsSound DEF Processes
  <2>2. alive \in RowType /\ alive.status # "absent" /\ Sound(alive)
    BY <2>1, AliveFacts DEF Kept
  <2> HIDE DEF alive
  <2>3. /\ row' \in [Names -> RowType] /\ \A k \in Names : Sound(row'[k])
        /\ \A k \in Names : Kept(row, k) => Kept(row', k)
    <3>1. row \in [Names -> RowType] /\ \A k \in Names : Sound(row[k])
      BY <1>0, RowsSound
    <3> QED
      BY <2>1, <2>2, <3>1 DEF Kept
  <2>4. PICK m \in {0, gw[g].misses} :
            gw' = [gw EXCEPT ![g] = [gw[g] EXCEPT !.pc = "beat", !.seen = Absent, !.misses = m]]
    <3>1. [gw[g] EXCEPT !.pc = "beat", !.seen = Absent] =
              [gw[g] EXCEPT !.pc = "beat", !.seen = Absent, !.misses = gw[g].misses]
      BY <1>0 DEF Processes
    <3> QED
      BY <1>12, <1>0, <3>1 DEF CommitBeat, TypeOK
  <2> DEFINE p == [gw[g] EXCEPT !.pc = "beat", !.seen = Absent, !.misses = m]
  <2>5. m \in 0..RE_REGISTER_THRESHOLD /\ m < RE_REGISTER_THRESHOLD
    BY <1>0, <2>1, <2>4, Constants DEF Processes
  <2>6. /\ p \in Processes /\ p.pc = "beat" /\ p.id = n /\ p.misses = m
        /\ p.replaces = gw[g].replaces
    BY <1>0, <2>5, Constants DEF Processes
  <2>7. gw' = [gw EXCEPT ![g] = p]
    BY <2>4
  <2> HIDE DEF p
  <2>8. Holding(row', p)
    BY <2>1, <2>3, <2>5, <2>6 DEF Holding, Kept
  <2> QED
    BY <1>3, <2>3, <2>6, <2>7, <2>8
<1> QED
  BY <1>5, <1>6, <1>7, <1>8, <1>9, <1>10, <1>11, <1>12 DEF Call

(* The steps that change rows one by one, each from a sound row to a sound *)
(* one and never to no row, and nothing that anybody holds.                *)
LEMMA EntryStep ==
    ASSUME RegistryInvariant, row' = [n \in Names |-> row'[n]],
           \A n \in Names : row'[n] \in RowType /\ Sound(row'[n]) /\ (Kept(row, n) => Kept(row', n)),
           Event \/ Quiet, gw' = gw, worker' \in {worker, Resting},
           rec' \in {rec, NoCycle}, argo' = argo
    PROVE  RegistryInvariant'
<1>1. TypeOK
  BY DEF RegistryInvariant
<1>2. row' \in [Names -> RowType]
  OBVIOUS
<1>3. /\ gw' \in [Gateways -> Processes]
      /\ \A g \in Gateways : gw'[g] = gw[g] \/ Holding(row', gw'[g])
  BY <1>1 DEF TypeOK, Processes
<1>4. rec' \in [pc : {"idle", "commit"}, apps : [Apps -> Healths \cup {"gone"}]]
  BY <1>1, Constants DEF TypeOK
<1>5. events' \in 0..MaxEvents
  BY <1>1, CounterTyped
<1> QED
  BY <1>2, <1>3, <1>4, <1>5, RowStep

(* A row that changes and is one stays one. *)
LEMMA Rewritten ==
    ASSUME NEW n \in Names, row'[n] \in RowType, row'[n].status # "absent"
    PROVE  row'[n] \in RowType /\ Sound(row'[n]) /\ (Kept(row, n) => Kept(row', n))
BY DEF Sound, Kept

(* A row that does not change, too. *)
LEMMA Unwritten ==
    ASSUME TypeOK, NEW n \in Names, row'[n] = row[n]
    PROVE  row'[n] \in RowType /\ Sound(row'[n]) /\ (Kept(row, n) => Kept(row', n))
BY RowsSound DEF Kept, TypeOK

(* The steps of the health worker keep the invariant: the rows it marks    *)
(* and purges are those it read, and none was dropped meanwhile.           *)
LEMMA WorkerRegistryStep ==
    ASSUME RegistryInvariant, Cycle \/ CycleFails
    PROVE  RegistryInvariant'
<1>0. TypeOK
  BY DEF RegistryInvariant
<1>1. CASE ReadCycle
  <2>1. /\ worker'.marks \subseteq {n \in Names : Listed(n)}
        /\ worker'.purges \subseteq {n \in Names : Listed(n)}
        /\ worker' \in [pc : {"idle", "commit"}, marks : SUBSET Names, purges : SUBSET Names]
    BY <1>1 DEF ReadCycle, Purgeable
  <2>2. UNCHANGED <<row, gw, rec, argo, events>>
    BY <1>1 DEF ReadCycle, Quiet
  <2>3. \A n \in worker'.marks \cup worker'.purges : Kept(row', n)
    BY <1>0, <2>1, <2>2, ListedIsKept
  <2>4. TypeOK'
    BY <1>0, <2>1, <2>2 DEF TypeOK
  <2>5. \A g \in Gateways : Holding(row', gw'[g])
    BY <2>2 DEF RegistryInvariant
  <2> QED
    BY <2>3, <2>4, <2>5 DEF RegistryInvariant
<1>2. CASE CommitCycle
  <2>1. /\ row' = [n \in Names |-> row'[n]]
        /\ worker' = Resting /\ Quiet /\ UNCHANGED <<gw, rec, argo>>
    BY <1>2 DEF CommitCycle
  <2>2. ASSUME NEW n \in Names
        PROVE  row'[n] \in RowType /\ Sound(row'[n]) /\ (Kept(row, n) => Kept(row', n))
    <3>1. row'[n] = [row[n] EXCEPT !.status = IF n \in worker.marks THEN "OFFLINE" ELSE row[n].status,
                                   !.deleted = row[n].deleted \/ n \in worker.purges]
      BY <1>2 DEF CommitCycle
    <3>2. row[n] \in RowType
      BY <1>0 DEF TypeOK
    <3>3. CASE n \in worker.marks \cup worker.purges
      <4>1. row[n].status # "absent"
        BY <3>3 DEF RegistryInvariant, Kept
      <4> DEFINE s == IF n \in worker.marks THEN "OFFLINE" ELSE row[n].status
                 b == row[n].deleted \/ n \in worker.purges
      <4>2. s \in Statuses
        BY <3>2, <4>1 DEF RowType, Statuses
      <4>3. b \in BOOLEAN
        OBVIOUS
      <4>4. row'[n] = [row[n] EXCEPT !.status = s, !.deleted = b]
        BY <3>1
      <4> HIDE DEF s, b
      <4>5. 0 \in 0..Old
        BY Constants
      <4>6. row'[n] \in RowType /\ row'[n].status # "absent"
        BY <3>2, <4>2, <4>3, <4>4, <4>5 DEF RowType, Statuses
      <4> QED
        BY <4>6, Rewritten
    <3>4. CASE n \notin worker.marks \cup worker.purges
      <4>1. row'[n] = [row[n] EXCEPT !.status = row[n].status, !.deleted = row[n].deleted \/ FALSE]
        BY <3>1, <3>4
      <4>2. row[n].deleted \/ FALSE <=> row[n].deleted
        OBVIOUS
      <4>3. row[n].deleted \in BOOLEAN
        BY <3>2 DEF RowType
      <4>4. (row[n].deleted \/ FALSE) = row[n].deleted
        BY <4>3
      <4>5. row'[n] = row[n]
        BY <3>2, <4>1, <4>4 DEF RowType
      <4> QED
        BY <1>0, <4>5, Unwritten
    <3> QED
      BY <3>3, <3>4
  <2> QED
    BY <2>1, <2>2, EntryStep
<1>3. CASE CycleFails
  <2>1. worker' = Resting /\ Event /\ UNCHANGED <<row, gw, rec, argo>>
    BY <1>3 DEF CycleFails
  <2>2. row' = [n \in Names |-> row'[n]]
    BY <1>0, <2>1 DEF TypeOK
  <2>3. \A n \in Names : row'[n] \in RowType /\ Sound(row'[n]) /\ (Kept(row, n) => Kept(row', n))
    BY <1>0, <2>1, Unwritten
  <2> QED
    BY <2>1, <2>2, <2>3, EntryStep
<1> QED
  BY <1>1, <1>2, <1>3 DEF Cycle

(* The steps of the reconciler keep it. *)
LEMMA ReconcilerRegistryStep ==
    ASSUME RegistryInvariant, Reconcile
    PROVE  RegistryInvariant'
<1>0. TypeOK /\ Apps \subseteq Names
  BY DEF RegistryInvariant, Names
<1>1. CASE FetchApps
  <2>1. /\ UNCHANGED <<row, gw, worker, argo, events>>
        /\ rec' \in [pc : {"idle", "commit"}, apps : [Apps -> Healths \cup {"gone"}]]
    BY <1>0, <1>1 DEF FetchApps, TypeOK, Quiet
  <2>2. TypeOK'
    BY <1>0, <2>1 DEF TypeOK
  <2> QED
    BY <2>1, <2>2 DEF RegistryInvariant
<1>2. CASE CommitEntries
  <2>1. rec' = NoCycle /\ Quiet /\ UNCHANGED <<gw, worker, argo>>
    BY <1>2 DEF CommitEntries
  <2>2. row' = row \/ row' = [n \in Names |-> IF n \in Apps THEN Reconciled(n) ELSE row[n]]
    BY <1>2 DEF CommitEntries
  <2>3. row' = [n \in Names |-> row'[n]]
    BY <1>0, <2>2 DEF TypeOK
  <2>4. ASSUME NEW n \in Names
        PROVE  row'[n] \in RowType /\ Sound(row'[n]) /\ (Kept(row, n) => Kept(row', n))
    <3>1. CASE row'[n] = row[n]
      BY <1>0, <3>1, Unwritten
    <3>2. CASE n \in Apps /\ row'[n] = Reconciled(n)
      <4> DEFINE h == rec.apps[n]
      <4>1. h \in Healths \cup {"gone"} /\ row[n] \in RowType
        BY <1>0, <3>2 DEF TypeOK
      <4>2. h # "gone" => h \in Statuses
        BY <4>1, RegistryNames DEF Statuses
      <4>3. "OFFLINE" \in Statuses /\ 0 \in 0..Old
        BY Constants DEF Statuses
      <4>4. CASE h = "gone" /\ Listed(n)
        <5>1. row'[n] = [row[n] EXCEPT !.status = "OFFLINE", !.deleted = TRUE]
          BY <3>2, <4>4 DEF Reconciled
        <5>2. row'[n] \in RowType /\ row'[n].status # "absent"
          BY <4>1, <4>3, <5>1 DEF RowType, Statuses
        <5> QED
          BY <5>2, Rewritten
      <4>5. CASE h = "gone" /\ ~Listed(n)
        BY <1>0, <3>2, <4>5, Unwritten DEF Reconciled
      <4>6. CASE h # "gone" /\ Listed(n)
        <5>1. row'[n] = [row[n] EXCEPT !.status = h, !.age = 0]
          BY <3>2, <4>6 DEF Reconciled
        <5>2. row'[n] \in RowType /\ row'[n].status # "absent"
          BY <4>1, <4>2, <4>3, <4>6, <5>1 DEF RowType, Statuses
        <5> QED
          BY <5>2, Rewritten
      <4>7. CASE h # "gone" /\ ~Listed(n)
        <5>1. row'[n] = [status |-> h, age |-> 0, deleted |-> FALSE]
          BY <3>2, <4>7 DEF Reconciled
        <5>2. row'[n] \in RowType /\ row'[n].status # "absent"
          BY <4>1, <4>2, <4>3, <4>7, <5>1 DEF RowType, Statuses
        <5> QED
          BY <5>2, Rewritten
      <4> QED
        BY <4>4, <4>5, <4>6, <4>7
    <3> QED
      BY <2>2, <3>1, <3>2
  <2> QED
    BY <2>1, <2>3, <2>4, EntryStep
<1> QED
  BY <1>1, <1>2 DEF Reconcile

(* Time, ArgoCD and the administrators keep it. *)
LEMMA OtherRegistryStep ==
    ASSUME RegistryInvariant,
           \/ Tick \/ Cleanup
           \/ \E a \in Apps : ArgoChanges(a)
           \/ \E n \in Names : Delete(n) \/ Restore(n)
    PROVE  RegistryInvariant'
<1>0. TypeOK /\ row \in [Names -> RowType] /\ "ONLINE" \in Statuses
  BY DEF RegistryInvariant, TypeOK, Statuses
(* A listed or a soft-deleted row is one. *)
<1>k. \A n \in Names : /\ Listed(n) => row[n].status # "absent"
                       /\ row[n].deleted => row[n].status # "absent"
  BY <1>0, ListedIsKept DEF Kept
<1>1. CASE Tick
  <2>1. /\ row' = [n \in Names |-> row'[n]]
        /\ (Event \/ Quiet) /\ UNCHANGED <<gw, worker, rec, argo>>
    BY <1>1 DEF Tick
  <2>2. ASSUME NEW n \in Names
        PROVE  row'[n] \in RowType /\ Sound(row'[n]) /\ (Kept(row, n) => Kept(row', n))
    <3>1. CASE Listed(n) /\ row[n].age < Old
      <4>1. row'[n] = [row[n] EXCEPT !.age = row[n].age + 1]
        BY <1>1, <3>1 DEF Tick
      <4>2. row[n] \in RowType /\ row[n].age \in 0..Old
        BY <1>0 DEF RowType
      <4>3. row[n].age + 1 \in 0..Old
        BY <3>1, <4>2, Constants
      <4>4. row'[n] \in RowType /\ row'[n].status # "absent"
        BY <1>0, <1>k, <3>1, <4>1, <4>2, <4>3 DEF RowType, Statuses
      <4> QED
        BY <4>4, Rewritten
    <3>2. CASE ~(Listed(n) /\ row[n].age < Old)
      BY <1>0, <1>1, <3>2, Unwritten DEF Tick
    <3> QED
      BY <3>1, <3>2
  <2> QED
    BY <2>1, <2>2, EntryStep
<1>2. CASE Cleanup
  <2>1. /\ row' = [n \in Names |-> row'[n]]
        /\ Event /\ UNCHANGED <<gw, worker, rec, argo>>
    BY <1>2 DEF Cleanup
  <2>2. ASSUME NEW n \in Names
        PROVE  row'[n] \in RowType /\ Sound(row'[n]) /\ (Kept(row, n) => Kept(row', n))
    <3>1. CASE n \in Purgeable
      <4>1. row'[n] = [row[n] EXCEPT !.deleted = TRUE] /\ Listed(n)
        BY <1>2, <3>1 DEF Cleanup, Purgeable
      <4>2. row[n] \in RowType /\ row[n].status # "absent"
        BY <1>0, <1>k, <4>1
      <4>3. row'[n] \in RowType /\ row'[n].status # "absent"
        BY <4>1, <4>2 DEF RowType, Statuses
      <4> QED
        BY <4>3, Rewritten
    <3>2. CASE n \notin Purgeable
      BY <1>0, <1>2, <3>2, Unwritten DEF Cleanup
    <3> QED
      BY <3>1, <3>2
  <2> QED
    BY <2>1, <2>2, EntryStep
<1>3. ASSUME NEW a \in Apps, ArgoChanges(a)
      PROVE  RegistryInvariant'
  <2>1. /\ UNCHANGED <<row, gw, worker, rec>>
        /\ argo' \in [Apps -> Healths \cup {"gone"}]
        /\ Event
    BY <1>0, <1>3 DEF ArgoChanges, TypeOK
  <2>2. events' \in 0..MaxEvents
    BY <1>0, <2>1, CounterTyped
  <2>3. TypeOK'
    BY <1>0, <2>1, <2>2 DEF TypeOK
  <2> QED
    BY <2>1, <2>3 DEF RegistryInvariant
(* One row is rewritten by an administrator. *)
<1>4. ASSUME NEW n \in Names, NEW r \in RowType, r.status # "absent", row' = [row EXCEPT ![n] = r],
             Event, UNCHANGED <<gw, worker, rec, argo>>
      PROVE  RegistryInvariant'
  <2>1. row' = [k \in Names |-> row'[k]] /\ row'[n] = r /\ \A k \in Names \ {n} : row'[k] = row[k]
    BY <1>0, <1>4
  <2>2. \A k \in Names : row'[k] \in RowType /\ Sound(row'[k]) /\ (Kept(row, k) => Kept(row', k))
    BY <1>0, <1>4, <2>1, Rewritten, Unwritten
  <2> QED
    BY <1>4, <2>1, <2>2, EntryStep
<1>5. ASSUME NEW n \in Names, Delete(n)
      PROVE  RegistryInvariant'
  <2> DEFINE r == [row[n] EXCEPT !.deleted = TRUE]
  <2>1. 0 \in 0..Old
    BY Constants
  <2>2. r \in RowType /\ r.status # "absent"
    BY <1>0, <1>k, <1>5, <2>1 DEF RowType, Statuses, Delete
  <2>3. row' = [row EXCEPT ![n] = r] /\ Event /\ UNCHANGED <<gw, worker, rec, argo>>
    BY <1>5 DEF Delete
  <2> HIDE DEF r
  <2> QED
    BY <1>4, <2>2, <2>3
<1>6. ASSUME NEW n \in Names, Restore(n)
      PROVE  RegistryInvariant'
  <2>1. PICK d \in row[n].age..Old : row' = [row EXCEPT ![n].deleted = FALSE, ![n].age = d]
    BY <1>6 DEF Restore
  <2> DEFINE r == [row[n] EXCEPT !.deleted = FALSE, !.age = d]
  <2>2. row[n] \in RowType /\ row[n].age \in 0..Old
    BY <1>0 DEF RowType
  <2>3. d \in 0..Old
    BY <2>1, <2>2, Constants
  <2>4. r \in RowType /\ r.status # "absent"
    BY <1>0, <1>k, <1>6, <2>2, <2>3 DEF RowType, Statuses, Restore
  <2>5. row' = [row EXCEPT ![n] = r]
    BY <1>0, <2>1
  <2>6. Event /\ UNCHANGED <<gw, worker, rec, argo>>
    BY <1>6 DEF Restore
  <2> HIDE DEF r
  <2> QED
    BY <1>4, <2>4, <2>5, <2>6
<1> QED
  BY <1>1, <1>2, <1>3, <1>5, <1>6

(* Every step keeps the invariant. *)
LEMMA NextRegistry == RegistryInvariant /\ [Next]_vars => RegistryInvariant'
<1> SUFFICES ASSUME RegistryInvariant, [Next]_vars PROVE RegistryInvariant'
  OBVIOUS
<1>1. CASE \E g \in Gateways : \/ Start(g) \/ Stop(g) \/ Call(g)
                             \/ RegistrationRefused(g) \/ RegistrationFails(g)
  BY <1>1, GatewayRegistryStep
<1>2. CASE Cycle \/ CycleFails
  BY <1>2, WorkerRegistryStep
<1>3. CASE Reconcile
  BY <1>3, ReconcilerRegistryStep
<1>4. CASE \/ Tick \/ Cleanup
           \/ \E a \in Apps : ArgoChanges(a)
           \/ \E n \in Names : Delete(n) \/ Restore(n)
  BY <1>4, OtherRegistryStep
<1>5. CASE UNCHANGED vars
  <2>1. TypeOK'
    BY <1>5 DEF vars, RegistryInvariant, TypeOK
  <2> QED
    BY <1>5, <2>1 DEF vars, RegistryInvariant
<1> QED
  BY <1>1, <1>2, <1>3, <1>4, <1>5 DEF Next

(* No interleaving of registrations, heartbeats, the health worker, the    *)
(* reconciler and administrators leaves a row half there: what a handler   *)
(* read is still in the table when it commits, although it never looks     *)
(* again, and a gateway registers again before its count of 404s passes    *)
(* the threshold.                                                          *)
THEOREM RegistryTypeCorrect == Spec => []TypeOK
<1>1. Init => RegistryInvariant
  BY InitRegistry
<1>2. RegistryInvariant /\ [Next]_vars => RegistryInvariant'
  BY NextRegistry
<1>3. RegistryInvariant => TypeOK
  BY DEF RegistryInvariant
<1> QED
  BY <1>1, <1>2, <1>3, PTL DEF Spec
==============================================================================
