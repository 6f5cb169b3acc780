-------------------------- MODULE PlaySessionProofs --------------------------
(***************************************************************************)
(* Plays, for any number of sessions, workers, devices, deliveries and     *)
(* restarts: slots are counted right, an accrued play is kept until it is  *)
(* paid, and the plays of a node implement PlayPromise.                    *)
(***************************************************************************)
EXTENDS PlaySession, FiniteSetTheorems, TLAPS

(***************************************************************************)
(* Types.                                                                  *)
(***************************************************************************)

LEMMA DeliveryTypes ==
    ASSUME DeliveryTypeOK, DeliveryNext
    PROVE  DeliveryTypeOK'
<1> USE DeliveryAssumption DEF DeliveryTypeOK
<1>1. ASSUME NEW p \in Peers, NEW w \in Wallets, Hello(p, w)
      PROVE  DeliveryTypeOK'
    BY <1>1 DEF Hello
<1>2. ASSUME NEW p \in Peers, Gone(p)
      PROVE  DeliveryTypeOK'
    BY <1>2 DEF Gone
<1>3. ASSUME NEW d \in Deliveries, NEW s \in Songs, NEW p \in Peers,
             StreamOpen(d, s, p)
      PROVE  DeliveryTypeOK'
  <2> DEFINE new == [ch |-> s, lw |-> bound[p],
                     cand |-> {bound[q] : q \in online_peers_for_song(s)},
                     sd |-> None, mw |-> None, legs |-> {"brokered"}]
  <2>1. {bound[q] : q \in online_peers_for_song(s)} \subseteq Wallets
    BY DEF online_peers_for_song
  <2>2. bound[p] \in Wallets \cup {None} /\ {"brokered"} \in SUBSET Legs
    BY DEF Legs
  <2>3. new \in Row
    BY <2>1, <2>2 DEF Row
  <2>4. /\ pd' = [pd EXCEPT ![d] = new] /\ minted' = minted \cup {d}
        /\ UNCHANGED <<bound, dr, rmw, changes, witnessed>>
    BY <1>3 DEF StreamOpen, mint_delivery
  <2> HIDE DEF new
  <2> QED
    BY <2>3, <2>4
<1>4. ASSUME NEW d \in Deliveries, NEW m \in Minis, NEW p \in Peers \cup {None},
             RelayReport(d, m, p)
      PROVE  DeliveryTypeOK'
  <2>1. pd[d] \in Row
    BY <1>4 DEF RelayReport
  <2>2. Attested(pd[d], p) \in Wallets \cup {None}
    BY <2>1 DEF Attested, Row
  <2> DEFINE new == [pd[d] EXCEPT !.mw = m, !.legs = @ \cup {"reported"},
                                  !.sd = Attested(pd[d], p)]
  <2>3. new \in Row
    BY <2>1, <2>2 DEF Row, Legs
  <2>4. /\ rmw' = [did |-> d, row |-> new]
        /\ UNCHANGED <<bound, pd, dr, minted, changes, witnessed>>
    BY <1>4 DEF RelayReport
  <2> HIDE DEF new
  <2> QED
    BY <2>3, <2>4 DEF Leg
<1>5. ASSUME NEW d \in Deliveries, NEW s \in Songs, RelayReceipt(d, s)
      PROVE  DeliveryTypeOK'
  <2>1. pd[d] \in Row
    BY <1>5 DEF RelayReceipt
  <2> DEFINE new == [pd[d] EXCEPT !.legs = @ \cup {"receipted"}]
  <2>2. new \in Row
    BY <2>1 DEF Row, Legs
  <2>3. /\ rmw' = [did |-> d, row |-> new]
        /\ UNCHANGED <<bound, pd, dr, minted, changes, witnessed>>
    BY <1>5 DEF RelayReceipt
  <2> HIDE DEF new
  <2> QED
    BY <2>2, <2>3 DEF Leg
<1>6. ASSUME LegWrite
      PROVE  DeliveryTypeOK'
  <2>1. rmw \in Leg /\ rmw.did \in Deliveries /\ rmw.row \in Row
    BY <1>6 DEF LegWrite, Leg
  <2>2. pd' \in [Deliveries -> Row \cup {None}]
    BY <1>6, <2>1 DEF LegWrite
  <2>3. dr' \in [Deliveries -> Row \cup {None}]
    BY <1>6, <2>1 DEF LegWrite
  <2>4. rmw.row.mw # None =>
           [did |-> rmw.did, song |-> rmw.row.ch, listener |-> rmw.row.lw,
            seeder |-> rmw.row.sd, mini |-> rmw.row.mw] \in Witness
    BY <2>1 DEF Row, Witness
  <2>5. witnessed' \subseteq Witness
    BY <1>6, <2>4 DEF LegWrite
  <2> QED
    BY <1>6, <2>2, <2>3, <2>5 DEF LegWrite
<1>7. ASSUME NEW d \in Deliveries, reap_stale_deliveries(d)
      PROVE  DeliveryTypeOK'
    BY <1>7 DEF reap_stale_deliveries
<1> HIDE DEF DeliveryTypeOK
<1> QED
    BY <1>1, <1>2, <1>3, <1>4, <1>5, <1>6, <1>7 DEF DeliveryNext

LEMMA SettlementTypes ==
    ASSUME SettlementTypeOK, SettlementNext
    PROVE  SettlementTypeOK'
<1> USE SessionAssumption DEF SettlementTypeOK
<1>1. CASE NextEpoch
    BY <1>1 DEF NextEpoch
<1>2. CASE settle_epoch_sweep
  <2>1. ASSUME NEW e \in Closed PROVE Settle(e, ProofsOf(e)) \in PoolTx
    <3>1. e \in 1..MaxEpoch
        BY DEF Closed
    <3>2. ProofsOf(e) \subseteq Proofs
        BY DEF ProofsOf, Rows, AccRow
    <3> QED
        BY <3>1, <3>2 DEF Settle, PoolTx
  <2>2. pool' \subseteq PoolTx
    BY <1>2, <2>1 DEF settle_epoch_sweep
  <2>3. accplay' \subseteq AccRow
    BY <1>2 DEF settle_epoch_sweep
  <2> QED
    BY <1>2, <2>2, <2>3 DEF settle_epoch_sweep
<1>3. ASSUME NEW t \in pool, Mined(t)
      PROVE  SettlementTypeOK'
  <2>1. t \in PoolTx
    OBVIOUS
  <2>2. /\ t.kind = "settle" => t.epoch \in 1..MaxEpoch
        /\ t.proofs \subseteq Proofs
    BY <2>1 DEF PoolTx
  <2>3. paid' \subseteq Proofs /\ pool' \subseteq PoolTx
    BY <1>3, <2>2 DEF Mined
  <2> QED
    BY <1>3, <2>2, <2>3 DEF Mined
<1>4. ASSUME NEW t \in pool, Evicted(t)
      PROVE  SettlementTypeOK'
    BY <1>4 DEF Evicted
<1> HIDE DEF SettlementTypeOK
<1> QED
    BY <1>1, <1>2, <1>3, <1>4 DEF SettlementNext

\* What a lookup in the tables gives.
LEMMA Lookups ==
    ASSUME TypeOK
    PROVE  /\ \A s \in Sessions : Known(s) =>
                  /\ sessions[s] \in Session
                  /\ sessions[s].req \in Request
           /\ \A w \in Workers : calls[w] # None =>
                  /\ calls[w] \in Call
                  /\ calls[w].sid \in Sessions
                  /\ calls[w].req \in Request
<1> USE DEF TypeOK
<1>1. Requests \subseteq Request
  BY SessionAssumption
<1>2. ASSUME NEW s \in Sessions, Known(s)
      PROVE  sessions[s] \in Session /\ sessions[s].req \in Request
  <2>1. sessions[s] \in Session
    BY <1>2 DEF Known
  <2> QED
    BY <1>1, <2>1 DEF Session
<1>3. ASSUME NEW w \in Workers, calls[w] # None
      PROVE  calls[w] \in Call /\ calls[w].sid \in Sessions
             /\ calls[w].req \in Request
  <2>1. calls[w] \in Call
    BY <1>3
  <2> QED
    BY <1>1, <2>1 DEF Call
<1> QED
  BY <1>2, <1>3

\* The lanes a proof gets are a witness's, or none.
LEMMA LanesWitnessed ==
    ASSUME DeliveryTypeOK, RowInv, NEW req \in Request
    PROVE  LET lanes == resolve_delivery_lanes(req) IN
           /\ lanes.seeder \in Wallets \cup {None}
           /\ lanes.mini \in Minis \cup {None}
           /\ lanes.mini = None => lanes.seeder = None
           /\ lanes.mini # None =>
                 \E w \in witnessed :
                    /\ w.did = req.did /\ w.song = req.song
                    /\ w.mini = lanes.mini
                    /\ w.listener \in {req.player, None}
                    /\ lanes.seeder \in {w.seeder, None} \ {req.player}
<1> DEFINE row == LaneRow(req.did)
<1>1. req.player \in Wallets /\ req.did \in Deliveries \cup {None}
  BY DEF Request
<1>2. req.player # None
  BY <1>1, DeliveryAssumption
<1>3. CASE \/ row = None \/ row.ch # req.song \/ row.lw \notin {None, req.player}
  BY <1>3 DEF resolve_delivery_lanes, NoLanes
<1>4. CASE ~(\/ row = None \/ row.ch # req.song \/ row.lw \notin {None, req.player})
  <2>1. req.did \in Deliveries /\ row \in Row /\ RowBacked(req.did, row)
    BY <1>1, <1>4 DEF LaneRow, DeliveryTypeOK, RowInv
  <2>2. row.sd \in Wallets \cup {None} /\ row.mw \in Minis \cup {None}
    BY <2>1 DEF Row
  <2> DEFINE lanes == [seeder |-> IF row.sd = req.player THEN None ELSE row.sd,
                       mini |-> row.mw]
             wit == [did |-> req.did, song |-> row.ch, listener |-> row.lw,
                     seeder |-> row.sd, mini |-> row.mw]
  <2>3. resolve_delivery_lanes(req) = lanes
    BY <1>4 DEF resolve_delivery_lanes
  <2>4. row.mw = None => row.sd = None
    BY <2>1 DEF RowBacked
  <2>5. row.mw # None => wit \in witnessed
    BY <2>1 DEF RowBacked
  <2>6. /\ wit.did = req.did /\ wit.song = req.song /\ wit.mini = lanes.mini
        /\ wit.listener \in {req.player, None}
        /\ lanes.seeder \in {wit.seeder, None} \ {req.player}
    BY <1>2, <1>4
  <2>7. lanes.mini # None =>
            \E w \in witnessed :
                /\ w.did = req.did /\ w.song = req.song
                /\ w.mini = lanes.mini
                /\ w.listener \in {req.player, None}
                /\ lanes.seeder \in {w.seeder, None} \ {req.player}
    <3> HIDE DEF wit
    <3> SUFFICES ASSUME lanes.mini # None
                 PROVE  \E w \in witnessed :
                            /\ w.did = req.did /\ w.song = req.song
                            /\ w.mini = lanes.mini
                            /\ w.listener \in {req.player, None}
                            /\ lanes.seeder \in {w.seeder, None} \ {req.player}
      OBVIOUS
    <3>1. wit \in witnessed
      BY <2>5
    <3> HIDE DEF lanes
    <3> WITNESS wit \in witnessed
    <3> QED
      BY <2>6
  <2>8. lanes.seeder \in Wallets \cup {None} /\ lanes.mini \in Minis \cup {None}
        /\ (lanes.mini = None => lanes.seeder = None)
    BY <2>2, <2>4
  <2> HIDE DEF lanes
  <2> QED
    BY <2>3, <2>7, <2>8
<1> QED
  BY <1>3, <1>4

\* A proof assembled for the first time is a well-formed one with its lanes
\* witnessed.
LEMMA ProofBacked ==
    ASSUME DeliveryTypeOK, RowInv, NEW req \in Request, NEW s \in Sessions
    PROVE  /\ Proof(s, req, 1) \in Proofs
           /\ Proof(s, req, 1).sid = s
           /\ BackedBy(witnessed, Proof(s, req, 1))
<1> DEFINE lanes == resolve_delivery_lanes(req)
           p == Proof(s, req, 1)
<1>1. /\ lanes.seeder \in Wallets \cup {None}
      /\ lanes.mini \in Minis \cup {None}
      /\ lanes.mini = None => lanes.seeder = None
      /\ lanes.mini # None =>
            \E w \in witnessed :
                /\ w.did = req.did /\ w.song = req.song
                /\ w.mini = lanes.mini
                /\ w.listener \in {req.player, None}
                /\ lanes.seeder \in {w.seeder, None} \ {req.player}
  BY LanesWitnessed
<1>2. p = [sid |-> s, player |-> req.player, song |-> req.song,
           did |-> req.did, seeder |-> lanes.seeder, mini |-> lanes.mini,
           build |-> 1]
  BY DEF Proof
<1> HIDE DEF lanes, p
<1>3. p \in Proofs
  <2>1. [sid : Sessions, player : Wallets, song : Songs,
         did : Deliveries \cup {None}, seeder : Wallets \cup {None},
         mini : Minis \cup {None}, build : {1}] \subseteq Proofs
    BY SessionAssumption
  <2>2. req.player \in Wallets /\ req.song \in Songs
        /\ req.did \in Deliveries \cup {None}
    BY DEF Request
  <2> QED
    BY <1>1, <1>2, <2>1, <2>2
<1>4. BackedBy(witnessed, p)
  BY <1>1, <1>2 DEF BackedBy, Promise!Backs
<1>5. p.sid = s
  BY <1>2
<1> QED
  BY <1>3, <1>4, <1>5 DEF p

(***************************************************************************)
(* Proofs that are out.                                                    *)
(***************************************************************************)

LEMMA OutMember ==
    ASSUME NEW s, NEW p
    PROVE  LET There == \/ p \in published /\ p.sid = s
                        \/ p # None /\ \E w \in Workers :
                               calls[w] # None /\ calls[w].sid = s /\ calls[w].proof = p
                        \/ p # None /\ Known(s) /\ sessions[s].proof = p
           IN (p \in Out(s) <=> There) /\ (p \in Out(s) <=> There)'
<1>1. \A ps, cs, ss : p \in OutOf(ps, cs, ss, s) <=>
               \/ p \in ps /\ p.sid = s
               \/ p # None /\ \E w \in Workers : /\ cs[w] # None /\ cs[w].sid = s
                                                 /\ cs[w].proof = p
               \/ p # None /\ ss[s] # None /\ ss[s].proof = p
  BY DEF OutOf
<1> QED
  BY <1>1 DEF Out, Known

\* Nothing of a session that has not been started.
LEMMA NothingBefore ==
    ASSUME PlayInv, NEW s \in Sessions, s \notin started
    PROVE  /\ ~Known(s) /\ Out(s) = {}
           /\ \A w \in Workers : calls[w] # None => calls[w].sid # s
<1>1. ~Known(s)
  BY DEF PlayInv, SessionInv, SessionOK
<1>2. \A w \in Workers : calls[w] # None => calls[w].sid # s
  BY DEF PlayInv, CallInv, CallOK
<1>3. ASSUME NEW p, p \in Out(s)
      PROVE  FALSE
  <2>1. p \notin published \/ p.sid # s
    BY DEF PlayInv, OneProofInv
  <2> QED
    BY <1>1, <1>2, <1>3, <2>1, OutMember DEF Known
<1> QED
  BY <1>1, <1>2, <1>3

\* Steps that change no proof, no claim and no call: beats, silence, sweeps.
LEMMA QuietKeeps ==
    ASSUME TypeOK, PlayInv,
           UNCHANGED <<calls, started, published, deliveryVars>>,
           \A s \in Sessions : Known(s)' =>
              /\ Known(s)
              /\ sessions'[s].proof = sessions[s].proof
              /\ sessions'[s].built = sessions[s].built
              /\ sessions'[s].completed = sessions[s].completed
              /\ sessions'[s].completing = sessions[s].completing
              /\ sessions'[s].awaiting = sessions[s].awaiting
    PROVE  PlayInv'
<1>1. ASSUME NEW s \in Sessions, NEW p
      PROVE  /\ p \in Out(s)' => p \in Out(s)
             /\ Known(s)' => (p \in Out(s)' <=> p \in Out(s))
  BY OutMember DEF Known
<1>2. RowInv'
  BY DEF PlayInv, RowInv, RowBacked, deliveryVars
<1>3. CallInv'
  BY <1>1 DEF PlayInv, CallInv, CallOK, TypeOK, Call, Backed, deliveryVars
<1>4. SessionInv'
  <2> SUFFICES ASSUME NEW s \in Sessions, Known(s)'
               PROVE  SessionOK(s)'
    BY DEF SessionInv
  <2>1. Known(s) /\ SessionOK(s)
    BY DEF PlayInv, SessionInv
  <2>2. Out(s)' = Out(s)
    BY <1>1
  <2> QED
    BY <2>1, <2>2 DEF SessionOK, Completing, Backed, deliveryVars
<1>5. OneProofInv'
  BY <1>1 DEF PlayInv, OneProofInv, Completing, Backed, deliveryVars
<1> QED
  BY <1>2, <1>3, <1>4, <1>5 DEF PlayInv

\* A step of worker w for session s keeps what holds of the other calls and
\* sessions; what it does to its own is for the step to show.
LEMMA WorkerKeeps ==
    ASSUME TypeOK, PlayInv, NEW w \in Workers, NEW s \in Sessions,
           RowInv', UNCHANGED <<started, witnessed>>,
           published \subseteq published',
           \A q \in published' : \/ q \in published
                                 \/ q.sid \in started /\ Backed(q),
           \A v \in Workers \ {w} : calls'[v] = calls[v],
           \A r \in Sessions \ {s} : sessions'[r] = sessions[r],
           calls[w] # None => calls[w].sid = s,
           calls'[w] # None => calls'[w].sid = s,
           \A r \in Sessions \ {s} : Out(r)' = Out(r),
           \/ Out(s)' = Out(s)
           \/ Completing(w, s) /\ \A p, q \in Out(s)' : p = q,
           Completing(w, s)' => \A v \in Workers \ {w} : ~Completing(v, s),
           calls'[w] # None => CallOK(w)',
           Known(s)' => SessionOK(s)'
    PROVE  PlayInv'
<1>1. ASSUME NEW v \in Workers \ {w}, NEW r \in Sessions
      PROVE  Completing(v, r)' <=> Completing(v, r)
  BY DEF Completing
<1>2. ASSUME NEW r \in Sessions \ {s}
      PROVE  ~Completing(w, r) /\ ~Completing(w, r)'
  BY DEF Completing
<1>3. CallInv'
  <2> SUFFICES ASSUME NEW v \in Workers, calls'[v] # None
               PROVE  CallOK(v)'
    BY DEF CallInv
  <2>1. CASE v = w
    BY <2>1
  <2>2. CASE v # w
    <3>1. calls'[v] = calls[v] /\ CallOK(v) /\ calls[v].sid \in Sessions
      BY <2>2, Lookups DEF PlayInv, CallInv
    <3>2. calls[v].at = "build" => Out(calls[v].sid)' = {}
      <4>1. CASE calls[v].sid # s
        BY <3>1, <4>1 DEF CallOK
      <4>2. CASE calls[v].sid = s /\ calls[v].at = "build"
        <5>1. Completing(v, s)
          BY <2>2, <3>1, <4>2 DEF CallOK, Completing
        <5>2. ~Completing(w, s)
          BY <2>2, <5>1 DEF PlayInv, OneProofInv
        <5> QED
          BY <3>1, <4>2, <5>2 DEF CallOK
      <4> QED
        BY <4>1, <4>2
    <3> QED
      BY <3>1, <3>2 DEF CallOK, Backed
  <2> QED
    BY <2>1, <2>2
<1>4. SessionInv'
  <2> SUFFICES ASSUME NEW r \in Sessions, Known(r)'
               PROVE  SessionOK(r)'
    BY DEF SessionInv
  <2>1. CASE r = s
    BY <2>1
  <2>2. CASE r # s
    <3>1. sessions'[r] = sessions[r] /\ SessionOK(r) /\ Out(r)' = Out(r)
      BY <2>2 DEF PlayInv, SessionInv, Known
    <3>2. \A v \in Workers : /\ Completing(v, r)' <=> Completing(v, r)
                             /\ Completing(v, r) => calls'[v] = calls[v]
      BY <1>1, <1>2, <2>2
    <3> QED
      BY <3>1, <3>2 DEF SessionOK, Backed
  <2> QED
    BY <2>1, <2>2
<1>5. OneProofInv'
  <2>1. \A q \in published' : q.sid \in started' /\ Backed(q)'
    BY DEF PlayInv, OneProofInv, Backed
  <2>2. \A r \in Sessions : \A p, q \in Out(r)' : p = q
    BY DEF PlayInv, OneProofInv
  <2>3. \A r \in Sessions : \A v, u \in Workers :
            Completing(v, r)' /\ Completing(u, r)' => v = u
    BY <1>1, <1>2 DEF PlayInv, OneProofInv
  <2> QED
    BY <2>1, <2>2, <2>3 DEF OneProofInv
<1> QED
  BY <1>3, <1>4, <1>5 DEF PlayInv

(***************************************************************************)
(* Slots.                                                                  *)
(***************************************************************************)

LEMMA HoldingFinite ==
    ASSUME NEW k
    PROVE  /\ IsFiniteSet(Holding(k)) /\ Cardinality(Holding(k)) \in Nat
           /\ IsFiniteSet(Holding(k)') /\ Cardinality(Holding(k)') \in Nat
<1>1. IsFiniteSet(Sessions)
  BY SessionAssumption
<1>2. Holding(k) \in SUBSET Sessions /\ Holding(k)' \in SUBSET Sessions
  BY DEF Holding
<1>3. IsFiniteSet(Holding(k)) /\ IsFiniteSet(Holding(k)')
  BY <1>1, <1>2, FS_Subset
<1> QED
  BY <1>3, FS_CardinalityType

LEMMA SlotsSame ==
    ASSUME SlotsCounted, live_by_device' = live_by_device,
           \A s \in Sessions : /\ Known(s)' <=> Known(s)
                               /\ Known(s) =>
                                   /\ sessions'[s].slot_held = sessions[s].slot_held
                                   /\ sessions'[s].req = sessions[s].req
    PROVE  SlotsCounted'
<1>1. ASSUME NEW k \in SlotKeys
      PROVE  Holding(k)' = Holding(k)
  BY DEF Holding, slot_key
<1> QED
  BY <1>1 DEF SlotsCounted

\* A session that lets its slot go, if it holds one.
LEMMA SlotReleased ==
    ASSUME TypeOK, SlotsCounted, NEW s \in Sessions, Known(s), NEW new,
           new # None, ~new.slot_held,
           sessions' = [sessions EXCEPT ![s] = new],
           live_by_device' =
               release_device_slot(s, sessions[s].slot_held, live_by_device)
    PROVE  SlotsCounted' /\ live_by_device' \in [SlotKeys -> Nat]
<1> DEFINE key == slot_key(sessions[s].req)
<1>1. live_by_device \in [SlotKeys -> Nat] /\ sessions[s].slot_held \in BOOLEAN
  BY Lookups DEF TypeOK, Session
<1>2. DOMAIN sessions = Sessions
  BY DEF TypeOK
<1>3. ASSUME NEW k \in SlotKeys
      PROVE  /\ Holding(k)' = Holding(k) \ {s}
             /\ s \in Holding(k) <=> sessions[s].slot_held /\ k = key
  BY <1>2 DEF Holding, Known
<1>4. ASSUME NEW k \in SlotKeys
      PROVE  /\ live_by_device'[k] = Cardinality(Holding(k)')
             /\ live_by_device'[k] \in Nat
             /\ live_by_device'[k] <= live_by_device[k]
  <2>1. live_by_device[k] = Cardinality(Holding(k))
    BY DEF SlotsCounted
  <2>2. Cardinality(Holding(k) \ {s}) =
            IF s \in Holding(k) THEN Cardinality(Holding(k)) - 1
            ELSE Cardinality(Holding(k))
    BY HoldingFinite, FS_RemoveElement
  <2>3. live_by_device'[k] = IF sessions[s].slot_held /\ k = key
                             THEN live_by_device[k] - 1 ELSE live_by_device[k]
    BY <1>1 DEF release_device_slot
  <2>4. live_by_device'[k] = Cardinality(Holding(k)')
    BY <1>3, <2>1, <2>2, <2>3
  <2>5. Cardinality(Holding(k)') \in Nat
    BY HoldingFinite
  <2> QED
    BY <1>1, <2>3, <2>4, <2>5
<1>5. live_by_device' \in [SlotKeys -> Nat]
  <2>1. DOMAIN live_by_device' = SlotKeys /\ live_by_device' = [k \in SlotKeys |-> live_by_device'[k]]
    BY <1>1 DEF release_device_slot
  <2> QED
    BY <1>4, <2>1
<1>6. kMaxConcurrentPerDevice \in Nat
  BY SessionAssumption
<1>7. ASSUME NEW k \in SlotKeys, DEVICE_CAP_ENFORCE
      PROVE  live_by_device'[k] <= kMaxConcurrentPerDevice
  <2>1. live_by_device[k] <= kMaxConcurrentPerDevice
    BY <1>7 DEF SlotsCounted
  <2> QED
    BY <1>1, <1>4, <1>6, <2>1
<1> QED
  BY <1>4, <1>5, <1>7 DEF SlotsCounted

(***************************************************************************)
(* Sessions begin, beat, fall silent and are swept.                        *)
(***************************************************************************)

LEMMA StartKeeps ==
    ASSUME TypeOK, SlotsCounted, PlayInv, NEW s \in Sessions, NEW req \in Requests,
           NEW ahead \in BOOLEAN, post_session_start(s, req, ahead),
           UNCHANGED <<deliveryVars, settlementVars>>
    PROVE  TypeOK' /\ SlotsCounted' /\ PlayInv'
<1> DEFINE new == [req |-> req, beats |-> 0, silent |-> FALSE, ahead |-> ahead,
                   slot_held |-> req.dev # None, completed |-> FALSE,
                   completing |-> FALSE, awaiting |-> FALSE, proof |-> None,
                   built |-> 0]
<1>1. /\ s \notin started /\ started' = started \cup {s}
      /\ live_by_device' = IF req.dev = None THEN live_by_device
                           ELSE [live_by_device EXCEPT ![slot_key(req)] = @ + 1]
      /\ sessions' = [sessions EXCEPT ![s] = new]
      /\ UNCHANGED <<ddur, calls, reaping, restarts, published>>
  BY DEF post_session_start
<1>2. /\ ~Known(s) /\ Out(s) = {}
      /\ \A w \in Workers : calls[w] # None => calls[w].sid # s
  BY <1>1, NothingBefore
<1>3. new \in Session /\ new # None
  <2>1. new \in Session
    BY SessionAssumption DEF Session
  <2> QED
    BY <2>1, RecordAssumption
<1>4. new.req = req /\ new.built = 0 /\ new.proof = None /\ ~new.awaiting
      /\ ~new.completed
  OBVIOUS
<1> HIDE DEF new
<1>5. TypeOK'
  <2>1. sessions' \in [Sessions -> Session \cup {None}]
    BY <1>1, <1>3 DEF TypeOK
  <2>2. live_by_device' \in [SlotKeys -> Nat]
    <3>1. req \in Request
      BY SessionAssumption
    <3>2. req.dev # None => slot_key(req) \in SlotKeys
      BY <3>1 DEF Request, slot_key, SlotKeys
    <3> QED
      BY <1>1, <3>2 DEF TypeOK
  <2>3. DeliveryTypeOK' /\ SettlementTypeOK'
    BY DEF TypeOK, DeliveryTypeOK, SettlementTypeOK, deliveryVars, settlementVars
  <2> QED
    BY <1>1, <2>1, <2>2, <2>3 DEF TypeOK
<1>6. \A r \in Sessions : Out(r)' = Out(r)
  <2> SUFFICES ASSUME NEW r \in Sessions, NEW p
               PROVE  p \in Out(r)' <=> p \in Out(r)
    OBVIOUS
  <2>1. \/ sessions'[r] = sessions[r]
        \/ r = s /\ sessions[r] = None /\ sessions'[r].proof = None
    BY <1>1, <1>2, <1>4 DEF TypeOK, Known
  <2> QED
    BY <1>1, <2>1, OutMember DEF Known
<1>7. RowInv'
  BY DEF PlayInv, RowInv, RowBacked, deliveryVars
<1>8. CallInv'
  BY <1>1, <1>6 DEF PlayInv, CallInv, CallOK, TypeOK, Call, Backed, deliveryVars
<1>9. SessionInv'
  <2> SUFFICES ASSUME NEW r \in Sessions, Known(r)'
               PROVE  SessionOK(r)'
    BY DEF SessionInv
  <2>1. CASE r = s
    <3>1. sessions'[r] = new /\ r \in started'
      BY <1>1, <2>1 DEF TypeOK
    <3>2. Out(r)' = {}
      BY <1>2, <1>6, <2>1
    <3>3. \A w \in Workers : ~Completing(w, r)'
      BY <1>1, <1>2, <2>1 DEF Completing
    <3> QED
      BY <1>4, <3>1, <3>2, <3>3 DEF SessionOK
  <2>2. CASE r # s
    <3>1. sessions'[r] = sessions[r] /\ Known(r)
      BY <1>1, <2>2 DEF TypeOK, Known
    <3> QED
      BY <1>1, <1>6, <3>1 DEF PlayInv, SessionInv, SessionOK, Completing, Backed, deliveryVars
  <2> QED
    BY <2>1, <2>2
<1>10. OneProofInv'
  BY <1>1, <1>6 DEF PlayInv, OneProofInv, Completing, Backed, deliveryVars
<1>11. SlotsCounted'
  <2> SUFFICES ASSUME NEW k \in SlotKeys
               PROVE  /\ live_by_device'[k] = Cardinality(Holding(k)')
                      /\ DEVICE_CAP_ENFORCE =>
                            live_by_device'[k] <= kMaxConcurrentPerDevice
    BY DEF SlotsCounted
  <2> DEFINE charged == req.dev # None /\ k = slot_key(req)
  <2>1. /\ live_by_device[k] = Cardinality(Holding(k))
        /\ DEVICE_CAP_ENFORCE => live_by_device[k] <= kMaxConcurrentPerDevice
    BY DEF SlotsCounted
  <2>2. s \notin Holding(k)
    BY <1>2 DEF Holding
  <2>3. Holding(k)' = IF charged THEN Holding(k) \cup {s} ELSE Holding(k)
    <3>1. ASSUME NEW r \in Sessions, r # s
          PROVE  r \in Holding(k)' <=> r \in Holding(k)
      BY <1>1, <3>1 DEF Holding, Known, TypeOK
    <3>2. s \in Holding(k)' <=> charged
      <4>1. sessions'[s] = new
        BY <1>1 DEF TypeOK
      <4>2. new.slot_held <=> req.dev # None
        BY DEF new
      <4> QED
        BY <1>3, <1>4, <4>1, <4>2 DEF Holding, Known
    <3>3. Holding(k) \subseteq Sessions /\ Holding(k)' \subseteq Sessions
      BY DEF Holding
    <3> QED
      BY <2>2, <3>1, <3>2, <3>3
  <2>4. Cardinality(Holding(k) \cup {s}) = Cardinality(Holding(k)) + 1
    BY <2>2, HoldingFinite, FS_AddElement
  <2>5. live_by_device'[k] = IF charged THEN live_by_device[k] + 1
                             ELSE live_by_device[k]
    BY <1>1 DEF TypeOK
  <2>6. DEVICE_CAP_ENFORCE /\ charged =>
            live_by_device[k] < kMaxConcurrentPerDevice
    BY DEF post_session_start, Admitted
  <2>7. live_by_device[k] \in Nat /\ kMaxConcurrentPerDevice \in Nat
    BY SessionAssumption DEF TypeOK
  <2> HIDE DEF charged
  <2>8. live_by_device'[k] = Cardinality(Holding(k)')
    BY <2>1, <2>3, <2>4, <2>5
  <2> QED
    BY <2>1, <2>5, <2>6, <2>7, <2>8
<1> QED
  BY <1>5, <1>7, <1>8, <1>9, <1>10, <1>11 DEF PlayInv

\* One session changes in what neither slots nor proofs depend on.
LEMMA BeatKeeps ==
    ASSUME TypeOK, SlotsCounted, PlayInv, NEW s \in Sessions, Known(s), NEW new,
           new \in Session, sessions' = [sessions EXCEPT ![s] = new],
           new.req = sessions[s].req, new.slot_held = sessions[s].slot_held,
           new.proof = sessions[s].proof, new.built = sessions[s].built,
           new.completed = sessions[s].completed,
           new.completing = sessions[s].completing,
           new.awaiting = sessions[s].awaiting,
           UNCHANGED <<live_by_device, ddur, calls, reaping, started, restarts,
                       published, deliveryVars, settlementVars>>
    PROVE  TypeOK' /\ SlotsCounted' /\ PlayInv'
<1>1. new # None
  BY RecordAssumption
<1>2. ASSUME NEW r \in Sessions
      PROVE  sessions'[r] = IF r = s THEN new ELSE sessions[r]
  BY DEF TypeOK
<1>3. TypeOK'
  BY DEF TypeOK, DeliveryTypeOK, SettlementTypeOK, deliveryVars, settlementVars
<1>4. SlotsCounted'
  BY <1>1, <1>2, SlotsSame DEF Known
<1>5. PlayInv'
  BY <1>1, <1>2, QuietKeeps DEF Known
<1> QED
  BY <1>3, <1>4, <1>5

LEMMA HeartbeatKeeps ==
    ASSUME TypeOK, SlotsCounted, PlayInv, NEW s \in Sessions,
           NEW ahead \in BOOLEAN, post_session_heartbeat(s, ahead),
           UNCHANGED <<deliveryVars, settlementVars>>
    PROVE  TypeOK' /\ SlotsCounted' /\ PlayInv'
<1> DEFINE new == [sessions[s] EXCEPT
                      !.beats = IF @ < MIN_BEATS THEN @ + 1 ELSE @,
                      !.silent = FALSE, !.ahead = ahead]
<1>1. Known(s) /\ sessions[s] \in Session
  BY Lookups DEF post_session_heartbeat
<1>2. new \in Session
  <2>1. /\ sessions[s].beats \in 0..MIN_BEATS /\ MIN_BEATS \in Nat
    BY <1>1, SessionAssumption DEF Session
  <2>2. (IF sessions[s].beats < MIN_BEATS THEN sessions[s].beats + 1
         ELSE sessions[s].beats) \in 0..MIN_BEATS
    BY <2>1
  <2> QED
    BY <1>1, <2>2 DEF Session
<1>3. /\ new.req = sessions[s].req /\ new.slot_held = sessions[s].slot_held
      /\ new.proof = sessions[s].proof /\ new.built = sessions[s].built
      /\ new.completed = sessions[s].completed
      /\ new.completing = sessions[s].completing
      /\ new.awaiting = sessions[s].awaiting
  BY <1>1 DEF Session
<1>4. /\ sessions' = [sessions EXCEPT ![s] = new]
      /\ UNCHANGED <<live_by_device, ddur, calls, reaping, started, restarts,
                     published>>
  BY <1>1 DEF post_session_heartbeat, TypeOK, Session
<1> HIDE DEF new
<1> QED
  BY <1>1, <1>2, <1>3, <1>4, BeatKeeps

LEMMA SilenceKeeps ==
    ASSUME TypeOK, SlotsCounted, PlayInv, NEW s \in Sessions, Silence(s),
           UNCHANGED <<deliveryVars, settlementVars>>
    PROVE  TypeOK' /\ SlotsCounted' /\ PlayInv'
<1> DEFINE new == [sessions[s] EXCEPT !.silent = TRUE]
<1>1. Known(s) /\ sessions[s] \in Session
  BY Lookups DEF Silence
<1>2. new \in Session
  BY <1>1 DEF Session
<1>3. /\ new.req = sessions[s].req /\ new.slot_held = sessions[s].slot_held
      /\ new.proof = sessions[s].proof /\ new.built = sessions[s].built
      /\ new.completed = sessions[s].completed
      /\ new.completing = sessions[s].completing
      /\ new.awaiting = sessions[s].awaiting
  BY <1>1 DEF Session
<1>4. /\ sessions' = [sessions EXCEPT ![s] = new]
      /\ UNCHANGED <<live_by_device, ddur, calls, reaping, started, restarts,
                     published>>
  BY DEF Silence
<1> HIDE DEF new
<1> QED
  BY <1>1, <1>2, <1>3, <1>4, BeatKeeps

LEMMA ClockKeeps ==
    ASSUME TypeOK, SlotsCounted, PlayInv, reaper_clock,
           UNCHANGED <<deliveryVars, settlementVars>>
    PROVE  TypeOK' /\ SlotsCounted' /\ PlayInv'
<1> USE DEF reaper_clock
<1>1. TypeOK'
  BY DEF TypeOK, DeliveryTypeOK, SettlementTypeOK, deliveryVars, settlementVars
<1>2. SlotsCounted'
  BY SlotsSame DEF Known
<1>3. PlayInv'
  BY QuietKeeps DEF Known
<1> QED
  BY <1>1, <1>2, <1>3

LEMMA SweepKeeps ==
    ASSUME TypeOK, SlotsCounted, PlayInv, NEW dropped \in SUBSET Idle,
           reaper_sweep(dropped), UNCHANGED <<deliveryVars, settlementVars>>
    PROVE  TypeOK' /\ SlotsCounted' /\ PlayInv'
<1>1. /\ live_by_device' = [k \in SlotKeys |->
            live_by_device[k] - Cardinality(HeldBy(k, Idle))]
      /\ sessions' = [s \in Sessions |->
            IF s \in dropped \/ ~Known(s) THEN None
            ELSE [sessions[s] EXCEPT !.slot_held = @ /\ s \notin Idle]]
      /\ reaping' = FALSE
      /\ UNCHANGED <<ddur, calls, started, restarts, published>>
  BY DEF reaper_sweep
<1>2. ASSUME NEW s \in Sessions
      PROVE  IF s \in dropped \/ ~Known(s) THEN sessions'[s] = None
             ELSE /\ sessions[s] \in Session
                  /\ sessions'[s] = [sessions[s] EXCEPT
                        !.slot_held = sessions[s].slot_held /\ s \notin Idle]
  BY <1>1, Lookups
<1>3. ASSUME NEW s \in Sessions, s \notin dropped, Known(s)
      PROVE  /\ sessions'[s] \in Session
             /\ sessions'[s].slot_held <=> sessions[s].slot_held /\ s \notin Idle
             /\ sessions'[s].req = sessions[s].req
             /\ sessions'[s].proof = sessions[s].proof
             /\ sessions'[s].built = sessions[s].built
             /\ sessions'[s].completed = sessions[s].completed
             /\ sessions'[s].completing = sessions[s].completing
             /\ sessions'[s].awaiting = sessions[s].awaiting
  <2>1. /\ sessions[s] \in Session
        /\ sessions'[s] = [sessions[s] EXCEPT
              !.slot_held = sessions[s].slot_held /\ s \notin Idle]
    BY <1>2, <1>3
  <2>2. \A held \in BOOLEAN :
           LET new == [sessions[s] EXCEPT !.slot_held = held]
           IN  /\ new \in Session /\ new.slot_held = held
               /\ new.req = sessions[s].req /\ new.proof = sessions[s].proof
               /\ new.built = sessions[s].built
               /\ new.completed = sessions[s].completed
               /\ new.completing = sessions[s].completing
               /\ new.awaiting = sessions[s].awaiting
    BY <2>1 DEF Session
  <2> DEFINE keeps == sessions[s].slot_held /\ s \notin Idle
  <2>3. keeps \in BOOLEAN
    OBVIOUS
  <2>4. sessions'[s] = [sessions[s] EXCEPT !.slot_held = keeps]
    BY <2>1
  <2>5. keeps <=> sessions[s].slot_held /\ s \notin Idle
    OBVIOUS
  <2> HIDE DEF keeps
  <2>6. /\ sessions'[s] \in Session /\ sessions'[s].slot_held = keeps
        /\ sessions'[s].req = sessions[s].req /\ sessions'[s].proof = sessions[s].proof
        /\ sessions'[s].built = sessions[s].built
        /\ sessions'[s].completed = sessions[s].completed
        /\ sessions'[s].completing = sessions[s].completing
        /\ sessions'[s].awaiting = sessions[s].awaiting
    BY <2>2, <2>3, <2>4
  <2> QED
    BY <2>5, <2>6
<1>4. ASSUME NEW k \in SlotKeys
      PROVE  /\ Holding(k)' = Holding(k) \ Idle
             /\ HeldBy(k, Idle) = Holding(k) \cap Idle
  <2>1. Holding(k)' = Holding(k) \ Idle
    <3> SUFFICES ASSUME NEW s \in Sessions
                 PROVE  s \in Holding(k)' <=> s \in Holding(k) /\ s \notin Idle
      BY DEF Holding
    <3>1. CASE s \in dropped \/ ~Known(s)
      BY <1>2, <3>1 DEF Holding, Known
    <3>2. CASE s \notin dropped /\ Known(s)
      BY <1>3, <3>2, RecordAssumption DEF Holding, Known, slot_key
    <3> QED
      BY <3>1, <3>2
  <2>2. HeldBy(k, Idle) = Holding(k) \cap Idle
    BY DEF HeldBy, Holding, Idle, Wrapped
  <2> QED
    BY <2>1, <2>2
<1>5. ASSUME NEW k \in SlotKeys
      PROVE  /\ live_by_device'[k] = Cardinality(Holding(k)')
             /\ live_by_device'[k] \in Nat
             /\ live_by_device'[k] <= live_by_device[k]
  <2>1. live_by_device[k] = Cardinality(Holding(k)) /\ live_by_device[k] \in Nat
    BY DEF SlotsCounted, TypeOK
  <2>2. Cardinality(Holding(k) \ Idle) =
            Cardinality(Holding(k)) - Cardinality(Holding(k) \cap Idle)
    BY HoldingFinite, FS_Difference
  <2>3. Cardinality(Holding(k) \cap Idle) \in Nat
    BY HoldingFinite, FS_Intersection, FS_CardinalityType
  <2>4. live_by_device'[k] = Cardinality(Holding(k)')
    BY <1>1, <1>4, <2>1, <2>2
  <2>5. Cardinality(Holding(k)') \in Nat
    BY HoldingFinite
  <2>6. live_by_device'[k] = live_by_device[k] - Cardinality(Holding(k) \cap Idle)
    BY <1>1, <1>4
  <2> QED
    BY <2>1, <2>3, <2>4, <2>5, <2>6
<1>6. SlotsCounted'
  <2>1. kMaxConcurrentPerDevice \in Nat
    BY SessionAssumption
  <2>2. ASSUME NEW k \in SlotKeys, DEVICE_CAP_ENFORCE
        PROVE  live_by_device'[k] <= kMaxConcurrentPerDevice
    <3>1. live_by_device[k] <= kMaxConcurrentPerDevice /\ live_by_device[k] \in Nat
      BY <2>2 DEF SlotsCounted, TypeOK
    <3> QED
      BY <1>5, <2>1, <3>1
  <2> QED
    BY <1>5, <2>2 DEF SlotsCounted
<1>7. TypeOK'
  <2>1. live_by_device' \in [SlotKeys -> Nat]
    BY <1>1, <1>5
  <2>2. sessions' \in [Sessions -> Session \cup {None}]
    BY <1>1, <1>2, <1>3
  <2> QED
    BY <1>1, <2>1, <2>2 DEF TypeOK, DeliveryTypeOK, SettlementTypeOK,
                            deliveryVars, settlementVars
<1>8. PlayInv'
  BY <1>1, <1>2, <1>3, QuietKeeps DEF Known
<1> QED
  BY <1>6, <1>7, <1>8

(***************************************************************************)
(* Completions and co-signatures.                                          *)
(***************************************************************************)

\* What a worker knows at the head of a step of its call.
LEMMA Working ==
    ASSUME TypeOK, PlayInv, NEW w \in Workers, calls[w] # None
    PROVE  /\ calls[w] \in Call /\ CallOK(w)
           /\ calls[w].sid \in Sessions /\ calls[w].req \in Request
           /\ calls[w].proof \in Proofs \cup {None}
           /\ Known(calls[w].sid) => /\ sessions[calls[w].sid] \in Session
                                    /\ SessionOK(calls[w].sid)
  BY Lookups DEF PlayInv, CallInv, SessionInv, Call

\* Two workers are never in a complete of the same session.
LEMMA OneCompletes ==
    ASSUME PlayInv, NEW s \in Sessions, NEW w \in Workers, Completing(w, s)
    PROVE  \A v \in Workers \ {w} : ~Completing(v, s)
  BY DEF PlayInv, OneProofInv

LEMMA ClaimKeeps ==
    ASSUME TypeOK, SlotsCounted, PlayInv, NEW w \in Workers, NEW s \in Sessions,
           CompleteClaim(w, s), UNCHANGED <<deliveryVars, settlementVars>>
    PROVE  TypeOK' /\ SlotsCounted' /\ PlayInv'
<1> DEFINE at == IF sessions[s].beats < MIN_BEATS \/ used(s)
                 THEN "leave" ELSE "build"
           call == [op |-> "complete", sid |-> s, req |-> sessions[s].req,
                    at |-> at, proof |-> None, epoch |-> 0]
           new == [sessions[s] EXCEPT !.completing = TRUE]
<1>1. /\ calls[w] = None /\ Known(s) /\ MayComplete(s)
      /\ sessions' = [sessions EXCEPT ![s] = new]
      /\ calls' = [calls EXCEPT ![w] = call]
      /\ UNCHANGED <<live_by_device, ddur, reaping, started, restarts, published>>
  BY DEF CompleteClaim, Enter
<1>2. sessions[s] \in Session /\ SessionOK(s)
  BY <1>1, Lookups DEF PlayInv, SessionInv
<1>3. call \in Call /\ call # None
  <2>1. at \in {"build", "leave"} /\ sessions[s].req \in Requests
    BY <1>2 DEF Session
  <2>2. 0 \in 0..MaxEpoch
    BY SessionAssumption
  <2> HIDE DEF at
  <2>3. call \in Call
    BY <2>1, <2>2 DEF Call
  <2> QED
    BY <2>3, RecordAssumption
<1>4. /\ new \in Session /\ new # None /\ new.completing
      /\ new.req = sessions[s].req /\ new.slot_held = sessions[s].slot_held
      /\ new.proof = sessions[s].proof /\ new.built = sessions[s].built
      /\ new.completed = sessions[s].completed
      /\ new.awaiting = sessions[s].awaiting
  <2>1. new \in Session
    BY <1>2 DEF Session
  <2> QED
    BY <1>2, <2>1, RecordAssumption DEF Session
<1>5. /\ call.op = "complete" /\ call.sid = s /\ call.proof = None
      /\ call.at \in {"build", "leave"}
  OBVIOUS
<1> HIDE DEF at, call, new
<1>6. /\ sessions'[s] = new /\ calls'[w] = call
      /\ \A r \in Sessions \ {s} : sessions'[r] = sessions[r]
      /\ \A v \in Workers \ {w} : calls'[v] = calls[v]
  BY <1>1 DEF TypeOK
<1>7. TypeOK'
  BY <1>1, <1>3, <1>4 DEF TypeOK, DeliveryTypeOK, SettlementTypeOK,
                          deliveryVars, settlementVars
<1>8. SlotsCounted'
  BY <1>1, <1>4, <1>6, SlotsSame DEF Known
<1>9. ASSUME NEW r \in Sessions PROVE Out(r)' = Out(r)
  <2>1. \A p : p \in Out(r)' <=> p \in Out(r)
    BY <1>1, <1>4, <1>5, <1>6, OutMember DEF Known
  <2> QED
    BY <2>1
<1>10. Out(s) = {} /\ \A v \in Workers : ~Completing(v, s)
  BY <1>1, <1>2 DEF MayComplete, SessionOK
<1>11. CallOK(w)'
  BY <1>1, <1>2, <1>5, <1>6, <1>9, <1>10 DEF CallOK, SessionOK, Emitting
<1>12. SessionOK(s)'
  <2>1. Out(s)' = {}
    BY <1>9, <1>10
  <2>2. new.proof = None
    BY <1>4, <1>6, <2>1, OutMember DEF Known
  <2>3. s \in started /\ ~(new.built # 0) /\ ~new.awaiting
    BY <1>2, <1>4, <1>10, <2>2 DEF SessionOK
  <2> QED
    BY <1>1, <1>4, <1>6, <2>1, <2>2, <2>3 DEF SessionOK
<1>13. RowInv'
  BY DEF PlayInv, RowInv, RowBacked, deliveryVars
<1>14. PlayInv'
  <2>1. /\ UNCHANGED <<started, witnessed>> /\ published \subseteq published'
        /\ \A q \in published' : \/ q \in published
                                 \/ q.sid \in started /\ Backed(q)
    BY <1>1 DEF deliveryVars
  <2>2. /\ calls[w] # None => calls[w].sid = s
        /\ calls'[w] # None => calls'[w].sid = s
    BY <1>1, <1>5, <1>6
  <2> QED
    BY <1>6, <1>9, <1>10, <1>11, <1>12, <1>13, <2>1, <2>2, WorkerKeeps
<1> QED
  BY <1>7, <1>8, <1>14

LEMMA CosignReadKeeps ==
    ASSUME TypeOK, SlotsCounted, PlayInv, NEW w \in Workers, NEW s \in Sessions,
           CosignRead(w, s), UNCHANGED <<deliveryVars, settlementVars>>
    PROVE  TypeOK' /\ SlotsCounted' /\ PlayInv'
<1> DEFINE call == [op |-> "cosign", sid |-> s, req |-> sessions[s].req,
                    at |-> "count", proof |-> sessions[s].proof, epoch |-> 0]
<1>1. /\ calls[w] = None /\ Known(s) /\ MayCosign(s)
      /\ calls' = [calls EXCEPT ![w] = call]
      /\ UNCHANGED <<sessions, live_by_device, ddur, reaping, started, restarts,
                     published>>
  BY DEF CosignRead, Enter
<1>2. sessions[s] \in Session /\ SessionOK(s)
  BY <1>1, Lookups DEF PlayInv, SessionInv
<1>3. call \in Call /\ call # None
  <2>1. /\ sessions[s].req \in Requests /\ sessions[s].proof \in Proofs \cup {None}
        /\ 0 \in 0..MaxEpoch
    BY <1>2, SessionAssumption DEF Session
  <2>2. call \in Call
    BY <2>1 DEF Call
  <2> QED
    BY <2>2, RecordAssumption
<1>4. /\ call.op = "cosign" /\ call.sid = s /\ call.at = "count"
      /\ call.proof = sessions[s].proof
  OBVIOUS
<1> HIDE DEF call
<1>5. /\ calls'[w] = call
      /\ \A v \in Workers \ {w} : calls'[v] = calls[v]
  BY <1>1 DEF TypeOK
<1>6. TypeOK'
  BY <1>1, <1>3 DEF TypeOK, DeliveryTypeOK, SettlementTypeOK,
                    deliveryVars, settlementVars
<1>7. SlotsCounted'
  BY <1>1, SlotsSame DEF Known
<1>8. ASSUME NEW r \in Sessions PROVE Out(r)' = Out(r)
  <2>1. \A p : p \in Out(r)' <=> p \in Out(r)
    BY <1>1, <1>4, <1>5, OutMember DEF Known
  <2> QED
    BY <2>1
<1>9. CallOK(w)'
  BY <1>1, <1>2, <1>4, <1>5
     DEF CallOK, SessionOK, MayCosign, Emitting, Backed, deliveryVars
<1>10. SessionOK(s)'
  <2>1. \A v \in Workers : /\ Completing(v, s)' => Completing(v, s)
                           /\ Completing(v, s) => calls'[v] = calls[v]
    BY <1>1, <1>4, <1>5 DEF Completing
  <2> QED
    BY <1>1, <1>2, <1>8, <2>1
       DEF SessionOK, MayCosign, Backed, deliveryVars
<1>11. RowInv'
  BY DEF PlayInv, RowInv, RowBacked, deliveryVars
<1>12. ~Completing(w, s)'
  BY <1>4, <1>5 DEF Completing
<1>13. PlayInv'
  <2>1. /\ UNCHANGED <<started, witnessed>> /\ published \subseteq published'
        /\ \A q \in published' : \/ q \in published
                                 \/ q.sid \in started /\ Backed(q)
    BY <1>1 DEF deliveryVars
  <2>2. /\ calls[w] # None => calls[w].sid = s
        /\ calls'[w] # None => calls'[w].sid = s
        /\ \A r \in Sessions \ {s} : sessions'[r] = sessions[r]
    BY <1>1, <1>4, <1>5
  <2> QED
    BY <1>5, <1>8, <1>9, <1>10, <1>11, <1>12, <2>1, <2>2, WorkerKeeps
<1> QED
  BY <1>6, <1>7, <1>13

\* Building a proof: nothing of the session was out before, and no other call
\* is in a complete of it.
LEMMA BuildKeeps ==
    ASSUME TypeOK, SlotsCounted, PlayInv, NEW w \in Workers,
           NEW cosign \in BOOLEAN, CompleteBuild(w, cosign),
           UNCHANGED <<deliveryVars, settlementVars>>
    PROVE  TypeOK' /\ SlotsCounted' /\ PlayInv'
<1>0. PICK s \in Sessions : s = calls[w].sid
  BY Working DEF CompleteBuild, At
<1>p. PICK p : p = Proof(s, calls[w].req, 1)
  OBVIOUS
<1> DEFINE n == IF Known(s) THEN sessions[s].built + 1 ELSE 1
           stash == [sessions[s] EXCEPT !.awaiting = TRUE, !.built = 1, !.proof = p]
           count == [sessions[s] EXCEPT !.built = 1]
           leave == [calls[w] EXCEPT !.at = "leave"]
           emit == [calls[w] EXCEPT !.at = "count", !.proof = p]
<1>1. /\ calls[w] # None /\ calls[w].op = "complete" /\ calls[w].at = "build"
      /\ UNCHANGED <<live_by_device, ddur, reaping, started, restarts, published>>
  BY DEF CompleteBuild, At
<1>2. /\ calls[w] \in Call /\ CallOK(w) /\ calls[w].sid = s
      /\ calls[w].req \in Request /\ calls[w].proof \in Proofs \cup {None}
      /\ Known(s) => sessions[s] \in Session /\ SessionOK(s)
  BY <1>0, <1>1, Working
<1>3. Out(s) = {} /\ Completing(w, s)
  BY <1>1, <1>2 DEF CallOK, Completing
<1>4. calls[w].proof = None /\ (Known(s) => sessions[s].proof = None)
  <2>1. calls[w].proof \notin Out(s) /\ sessions[s].proof \notin Out(s)
    BY <1>3
  <2> QED
    BY <1>1, <1>2, <2>1, OutMember
<1>5. n = 1
  BY <1>2, <1>3 DEF SessionOK, Session
<1>6. p \in Proofs /\ p.sid = s /\ BackedBy(witnessed, p) /\ p # None
  BY <1>2, <1>p, ProofBacked, RecordAssumption DEF TypeOK, PlayInv
<1>7. \/ /\ calls' = [calls EXCEPT ![w] = leave]
         /\ sessions' = IF ~Known(s) THEN sessions
                        ELSE [sessions EXCEPT ![s] = stash]
      \/ calls' = [calls EXCEPT ![w] = leave] /\ sessions' = sessions
      \/ /\ calls' = [calls EXCEPT ![w] = emit]
         /\ sessions' = IF ~Known(s) THEN sessions
                        ELSE [sessions EXCEPT ![s] = count]
  <2>1. Proof(s, calls[w].req, n) = p
    BY <1>5, <1>p
  <2> USE <1>1, <1>2 DEF CompleteBuild, Goto, TypeOK
  <2>2. CASE cosign
    <3>1. /\ calls' = [calls EXCEPT ![w] = leave]
          /\ sessions' = IF ~Known(s) THEN sessions
                         ELSE [sessions EXCEPT ![s].awaiting = TRUE,
                                               ![s].built = n,
                                               ![s].proof = p]
      BY <2>1, <2>2
    <3>2. Known(s) => [sessions EXCEPT ![s].awaiting = TRUE, ![s].built = n,
                                       ![s].proof = p]
                      = [sessions EXCEPT ![s] = stash]
      BY <1>5 DEF Session
    <3> QED
      BY <3>1, <3>2
  <2>3. CASE ~cosign /\ REQUIRE_COSIGN
    BY <2>3
  <2>4. CASE ~cosign /\ ~REQUIRE_COSIGN
    <3>1. /\ calls' = [calls EXCEPT ![w].at = "count", ![w].proof = p]
          /\ sessions' = IF ~Known(s) THEN sessions
                         ELSE [sessions EXCEPT ![s].built = n]
      BY <2>1, <2>4
    <3>2. [calls EXCEPT ![w].at = "count", ![w].proof = p]
             = [calls EXCEPT ![w] = emit]
      BY DEF Call
    <3> QED
      BY <1>5, <3>1, <3>2
  <2> QED
    BY <2>2, <2>3, <2>4
<1>8. /\ leave \in Call /\ leave.sid = s /\ leave.op = "complete"
      /\ leave.at = "leave" /\ leave.proof = None
      /\ emit \in Call /\ emit.sid = s /\ emit.op = "complete"
      /\ emit.at = "count" /\ emit.proof = p
  BY <1>1, <1>2, <1>4, <1>6 DEF Call
<1>9. Known(s) =>
      /\ stash \in Session /\ stash.awaiting /\ stash.proof = p
      /\ count \in Session /\ count.awaiting = sessions[s].awaiting
      /\ count.proof = None
  BY <1>2, <1>4, <1>6 DEF Session
<1>10. Known(s) => \A new \in {stash, count} :
      /\ new.req = sessions[s].req /\ new.slot_held = sessions[s].slot_held
      /\ new.completed = sessions[s].completed
      /\ new.completing = sessions[s].completing
  BY <1>2 DEF Session
<1> HIDE DEF n, stash, count, leave, emit
<1>11. /\ calls'[w] \in {leave, emit}
       /\ \A v \in Workers \ {w} : calls'[v] = calls[v]
       /\ \A r \in Sessions \ {s} : sessions'[r] = sessions[r]
       /\ calls'[w] # None
       /\ Known(s)' <=> Known(s)
  <2>1. leave # None /\ emit # None
    BY <1>8, RecordAssumption
  <2>2. Known(s) => stash # None /\ count # None
    BY <1>9, RecordAssumption
  <2> QED
    BY <1>2, <1>7, <2>1, <2>2 DEF TypeOK, Known
<1>12. TypeOK'
  <2>1. calls' \in [Workers -> Call \cup {None}]
    BY <1>7, <1>8 DEF TypeOK
  <2>2. sessions' \in [Sessions -> Session \cup {None}]
    BY <1>7, <1>9 DEF TypeOK
  <2> QED
    BY <1>1, <2>1, <2>2 DEF TypeOK, DeliveryTypeOK, SettlementTypeOK,
                            deliveryVars, settlementVars
<1>13. Known(s) => sessions'[s] \in {sessions[s], stash, count}
  BY <1>2, <1>7 DEF TypeOK
<1>14. SlotsCounted'
  <2>1. ASSUME NEW r \in Sessions
        PROVE  /\ Known(r)' <=> Known(r)
               /\ Known(r) => /\ sessions'[r].slot_held = sessions[r].slot_held
                              /\ sessions'[r].req = sessions[r].req
    BY <1>10, <1>11, <1>13 DEF Known
  <2> QED
    BY <1>1, <2>1, SlotsSame
<1>15. ASSUME NEW r \in Sessions \ {s} PROVE Out(r)' = Out(r)
  <2>1. /\ published' = published /\ sessions'[r] = sessions[r]
        /\ calls[w].sid = s /\ calls'[w].sid = s
        /\ \A v \in Workers \ {w} : calls'[v] = calls[v]
    BY <1>1, <1>2, <1>8, <1>11
  <2>2. ASSUME NEW q PROVE q \in Out(r)' <=> q \in Out(r)
    BY <2>1, OutMember DEF Known
  <2> QED
    BY <2>2
<1>16. \A q \in Out(s)' : q = p
  <2> SUFFICES ASSUME NEW q \in Out(s)' PROVE q = p
    OBVIOUS
  <2>1. ASSUME NEW v \in Workers \ {w}, calls[v] # None, calls[v].sid = s
        PROVE  calls[v].proof = None
    BY <1>3, <2>1, OutMember
  <2>2. ~(q \in published /\ q.sid = s)
    BY <1>3, OutMember
  <2>3. calls'[w].proof \in {None, p}
    BY <1>8, <1>11
  <2>4. Known(s) => sessions'[s].proof \in {None, p}
    BY <1>4, <1>9, <1>13
  <2> QED
    BY <1>1, <1>11, <2>1, <2>2, <2>3, <2>4, OutMember DEF Known
<1>17. CallOK(w)'
  <2>1. calls'[w].sid \in started'
    BY <1>1, <1>2, <1>8, <1>11 DEF CallOK
  <2>2. witnessed' = witnessed
    BY DEF deliveryVars
  <2> QED
    BY <1>6, <1>8, <1>11, <2>1, <2>2 DEF CallOK, Emitting, Backed
<1>18. Known(s)' => SessionOK(s)'
  <2> SUFFICES ASSUME Known(s)'
               PROVE  SessionOK(s)'
    OBVIOUS
  <2>0. witnessed' = witnessed
    BY DEF deliveryVars
  <2>1. Known(s) /\ SessionOK(s)
    BY <1>2, <1>11
  <2>2. sessions[s].completing \/ sessions[s].completed
    BY <1>3, <2>1 DEF SessionOK
  <2>3. sessions'[s].completing \/ sessions'[s].completed
    BY <1>10, <1>13, <2>1, <2>2
  <2>4. sessions'[s].proof # None => sessions'[s].proof = p
    BY <1>4, <1>9, <1>13, <2>1
  <2>5. s \in started'
    BY <1>1, <1>2 DEF CallOK
  <2>6. \/ sessions'[s] = stash
        \/ sessions'[s] = sessions[s] /\ calls'[w] = leave
        \/ calls'[w] = emit
    BY <1>2, <1>7, <2>1 DEF TypeOK
  <2>7. CASE sessions'[s] = stash
    <3>1. p \in Out(s)'
      BY <1>6, <1>9, <2>1, <2>7, OutMember
    <3> QED
      BY <1>6, <1>9, <2>0, <2>1, <2>3, <2>5, <2>7, <3>1 DEF SessionOK, Backed
  <2>8. CASE sessions'[s] = sessions[s] /\ calls'[w] = leave
    <3>1. Out(s)' = {}
      <4>1. p \notin Out(s)'
        <5>1. p \notin Out(s)
          BY <1>3
        <5> QED
          BY <1>1, <1>6, <1>8, <1>11, <2>8, <5>1, OutMember DEF Known
      <4> QED
        BY <1>16, <4>1
    <3>2. ~sessions[s].awaiting /\ ~(sessions[s].built # 0)
      BY <1>3, <1>4, <2>1 DEF SessionOK
    <3> QED
      BY <1>4, <2>1, <2>3, <2>5, <2>8, <3>1, <3>2 DEF SessionOK
  <2>9. CASE calls'[w] = emit
    <3>1. p \in Out(s)'
      BY <1>6, <1>8, <1>11, <2>9, OutMember
    <3>2. Completing(w, s)' /\ calls'[w].at \in Emitting
      BY <1>8, <1>11, <2>9 DEF Completing, Emitting
    <3>3. \/ /\ sessions'[s].proof = None
             /\ sessions'[s].awaiting = sessions[s].awaiting
          \/ sessions'[s] = stash
      BY <1>4, <1>9, <1>13, <2>1
    <3>4. CASE sessions'[s].proof = None /\ sessions'[s].awaiting = sessions[s].awaiting
      BY <1>4, <2>1, <2>3, <2>5, <3>1, <3>2, <3>4 DEF SessionOK
    <3> QED
      BY <2>7, <3>3, <3>4
  <2> QED
    BY <2>6, <2>7, <2>8, <2>9
<1>19. RowInv'
  BY DEF PlayInv, RowInv, RowBacked, deliveryVars
<1>20. PlayInv'
  <2>1. /\ UNCHANGED <<started, witnessed>> /\ published \subseteq published'
        /\ \A q \in published' : \/ q \in published
                                 \/ q.sid \in started /\ Backed(q)
    BY <1>1 DEF deliveryVars
  <2>2. /\ calls[w] # None => calls[w].sid = s
        /\ calls'[w] # None => calls'[w].sid = s
    BY <1>2, <1>8, <1>11
  <2>3. Completing(w, s) /\ \A q, r \in Out(s)' : q = r
    BY <1>3, <1>16
  <2>4. \A v \in Workers \ {w} : ~Completing(v, s)
    BY <1>2, <1>3, OneCompletes
  <2> QED
    BY <1>2, <1>11, <1>15, <1>17, <1>18, <1>19, <2>1, <2>2, <2>3, <2>4, WorkerKeeps
<1> QED
  BY <1>12, <1>14, <1>20

\* A call goes from one point of emit_mint to the next.
LEMMA EmitKeeps ==
    ASSUME TypeOK, SlotsCounted, PlayInv, NEW w \in Workers, NEW s \in Sessions,
           calls[w] # None, calls[w].sid = s, calls[w].at \in Emitting,
           NEW call \in Call, calls' = [calls EXCEPT ![w] = call],
           call.sid = s, call.op = calls[w].op, call.proof = calls[w].proof,
           call.at \in Emitting, call.at = "publish" => call.epoch >= 1,
           call.at \in {"consume", "finish"} => calls[w].proof \in published',
           published' \in {published, published \cup {calls[w].proof}},
           UNCHANGED <<sessions, live_by_device, started, witnessed>>, RowInv'
    PROVE  SlotsCounted' /\ PlayInv'
<1>1. /\ CallOK(w) /\ calls[w].proof # None /\ calls[w].proof.sid = s
      /\ Backed(calls[w].proof) /\ s \in started
      /\ Known(s) => SessionOK(s)
  BY Working DEF CallOK
<1>2. call # None
  BY RecordAssumption
<1>3. /\ calls'[w] = call
      /\ \A v \in Workers \ {w} : calls'[v] = calls[v]
  BY DEF TypeOK
<1>4. ASSUME NEW r \in Sessions PROVE Out(r)' = Out(r)
  <2>1. \A p : p \in Out(r)' <=> p \in Out(r)
    BY <1>1, <1>2, <1>3, OutMember DEF Known
  <2> QED
    BY <2>1
<1>5. CallOK(w)'
  BY <1>1, <1>3, <1>4 DEF CallOK, Backed, Emitting
<1>6. ASSUME NEW v \in Workers
      PROVE  /\ Completing(v, s)' <=> Completing(v, s)
             /\ Completing(v, s) /\ calls[v].at \in Emitting
                   => calls'[v].at \in Emitting
  BY <1>2, <1>3 DEF Completing
<1>7. Known(s)' => SessionOK(s)'
  <2> SUFFICES ASSUME Known(s)'
               PROVE  SessionOK(s)'
    OBVIOUS
  <2>1. SessionOK(s)
    BY <1>1 DEF Known
  <2> QED
    BY <1>4, <1>6, <2>1 DEF SessionOK, Backed
<1>8. Completing(w, s)' => \A v \in Workers \ {w} : ~Completing(v, s)
  BY <1>6, OneCompletes
<1>9. /\ \A q \in published' : \/ q \in published
                               \/ q.sid \in started /\ Backed(q)
      /\ published \subseteq published'
      /\ \A r \in Sessions \ {s} : sessions'[r] = sessions[r]
      /\ calls'[w] # None => calls'[w].sid = s
  BY <1>1, <1>3
<1>10. PlayInv'
  BY <1>3, <1>4, <1>5, <1>7, <1>8, <1>9, WorkerKeeps
<1>11. SlotsCounted'
  BY SlotsSame DEF Known
<1> QED
  BY <1>10, <1>11

LEMMA CountKeeps ==
    ASSUME TypeOK, SlotsCounted, PlayInv, NEW w \in Workers, EmitCount(w),
           UNCHANGED <<deliveryVars, settlementVars>>
    PROVE  TypeOK' /\ SlotsCounted' /\ PlayInv'
<1> DEFINE call == [calls[w] EXCEPT !.at = "publish", !.epoch = epoch]
           dev == calls[w].req.dev
<1>1. /\ calls[w] # None /\ calls[w].at = "count"
      /\ calls' = [calls EXCEPT ![w].at = "publish", ![w].epoch = epoch]
      /\ ddur' = IF dev = None \/ ddur[dev] = kDailyCoverageCap THEN ddur
                 ELSE [ddur EXCEPT ![dev] = @ + 1]
      /\ UNCHANGED <<sessions, live_by_device, reaping, started, restarts,
                     published>>
  BY DEF EmitCount, At
<1>2. /\ calls[w] \in Call /\ calls[w].sid \in Sessions
      /\ calls[w].req \in Request
  BY <1>1, Working
<1>3. epoch \in 0..MaxEpoch /\ epoch >= 1
  BY SessionAssumption DEF TypeOK, SettlementTypeOK
<1>4. /\ call \in Call /\ call.sid = calls[w].sid /\ call.op = calls[w].op
      /\ call.proof = calls[w].proof /\ call.at = "publish" /\ call.epoch >= 1
  BY <1>2, <1>3 DEF Call
<1>5. calls' = [calls EXCEPT ![w] = call]
  BY <1>1, <1>2 DEF Call, TypeOK
<1> HIDE DEF call
<1>6. ddur' \in [Devices -> 0..kDailyCoverageCap]
  <2>1. kDailyCoverageCap \in Nat
    BY SessionAssumption
  <2>2. dev \in Devices \cup {None}
    BY <1>2 DEF Request
  <2> HIDE DEF dev
  <2> QED
    BY <1>1, <2>1, <2>2 DEF TypeOK
<1>7. TypeOK'
  BY <1>1, <1>4, <1>5, <1>6, ZenonT(60) DEF TypeOK, DeliveryTypeOK, SettlementTypeOK,
                                deliveryVars, settlementVars
<1>8. RowInv' /\ witnessed' = witnessed
  BY DEF PlayInv, RowInv, RowBacked, deliveryVars
<1>9. /\ calls[w].at \in Emitting /\ call.at \in Emitting
      /\ call.at \notin {"consume", "finish"}
      /\ published' \in {published, published \cup {calls[w].proof}}
  BY <1>1, <1>4 DEF Emitting
<1> QED
  BY <1>1, <1>2, <1>4, <1>5, <1>7, <1>8, <1>9, EmitKeeps

LEMMA PublishKeeps ==
    ASSUME TypeOK, SlotsCounted, PlayInv, NEW w \in Workers, EmitPublish(w),
           UNCHANGED deliveryVars
    PROVE  TypeOK' /\ SlotsCounted' /\ PlayInv'
<1> DEFINE next == IF calls[w].req.did = None THEN "finish" ELSE "consume"
           call == [calls[w] EXCEPT !.at = next]
           row == [epoch |-> calls[w].epoch, proof |-> calls[w].proof]
<1>1. /\ calls[w] # None /\ calls[w].at = "publish"
      /\ calls' = [calls EXCEPT ![w] = call]
      /\ Publish(calls[w].proof, calls[w].epoch)
      /\ published' = published \cup {calls[w].proof}
      /\ UNCHANGED <<sessions, live_by_device, ddur, reaping, started, restarts>>
  BY DEF EmitPublish, At, Goto
<1>2. /\ calls[w] \in Call /\ calls[w].sid \in Sessions /\ CallOK(w)
      /\ calls[w].proof \in Proofs \cup {None}
  BY <1>1, Working
<1>3. calls[w].proof \in Proofs /\ calls[w].epoch \in 1..MaxEpoch
  BY <1>1, <1>2, SessionAssumption DEF CallOK, Call, Emitting
<1>4. next \in {"finish", "consume"}
  OBVIOUS
<1> HIDE DEF next
<1>5. /\ call \in Call /\ call.sid = calls[w].sid /\ call.op = calls[w].op
      /\ call.proof = calls[w].proof /\ call.at = next
  BY <1>2, <1>4 DEF Call
<1> HIDE DEF call
<1>6. SettlementTypeOK'
  <2>1. row \in AccRow
    BY <1>3 DEF AccRow
  <2>2. Mint(calls[w].proof) \in PoolTx
    BY <1>3 DEF Mint, PoolTx
  <2>3. SettlementTypeOK
    BY DEF TypeOK
  <2>4. /\ \/ /\ accplay' = accplay \cup {row}
              /\ late' \in {late, late \cup {row}}
              /\ pool' = pool
           \/ /\ pool' = pool \cup {Mint(calls[w].proof)}
              /\ UNCHANGED <<accplay, late>>
        /\ UNCHANGED <<batch, epoch, us, paid>>
    BY <1>1 DEF Publish
  <2> HIDE DEF row
  <2> QED
    BY <2>1, <2>2, <2>3, <2>4 DEF SettlementTypeOK
<1>7. TypeOK'
  BY <1>1, <1>3, <1>5, <1>6 DEF TypeOK, DeliveryTypeOK, deliveryVars
<1>8. RowInv' /\ witnessed' = witnessed
  BY DEF PlayInv, RowInv, RowBacked, deliveryVars
<1>9. {"publish", "finish", "consume"} \subseteq Emitting /\ next # "publish"
  BY <1>4 DEF Emitting
<1>10. SlotsCounted' /\ PlayInv'
  BY <1>1, <1>2, <1>4, <1>5, <1>8, <1>9, EmitKeeps
<1> QED
  BY <1>7, <1>10

LEMMA ConsumeKeeps ==
    ASSUME TypeOK, SlotsCounted, PlayInv, NEW w \in Workers, EmitConsume(w),
           UNCHANGED settlementVars
    PROVE  TypeOK' /\ SlotsCounted' /\ PlayInv'
<1> DEFINE call == [calls[w] EXCEPT !.at = "finish"]
<1>1. /\ calls[w] # None /\ calls[w].at = "consume"
      /\ calls' = [calls EXCEPT ![w] = call]
      /\ pd' = [pd EXCEPT ![calls[w].req.did] = None]
      /\ dr' = [dr EXCEPT ![calls[w].req.did] = None]
      /\ UNCHANGED <<bound, minted, rmw, changes, witnessed>>
      /\ UNCHANGED <<sessions, live_by_device, ddur, reaping, started, restarts,
                     published>>
  BY DEF EmitConsume, At, Goto
<1>2. calls[w] \in Call /\ calls[w].sid \in Sessions /\ CallOK(w)
  BY <1>1, Working
<1>3. calls[w].proof \in published
  BY <1>1, <1>2 DEF CallOK, Emitting
<1>4. /\ call \in Call /\ call.sid = calls[w].sid /\ call.op = calls[w].op
      /\ call.proof = calls[w].proof /\ call.at = "finish"
  BY <1>2 DEF Call
<1> HIDE DEF call
<1>5. DeliveryTypeOK'
  BY <1>1 DEF TypeOK, DeliveryTypeOK
<1>6. RowInv'
  <2>1. \A d \in Deliveries : pd'[d] \in {pd[d], None} /\ dr'[d] \in {dr[d], None}
    BY <1>1 DEF TypeOK, DeliveryTypeOK
  <2>2. ASSUME NEW d \in Deliveries
        PROVE  /\ pd'[d] # None => RowBacked(d, pd'[d])
               /\ dr'[d] # None => RowBacked(d, dr'[d])
    BY <2>1 DEF PlayInv, RowInv
  <2> QED
    BY <1>1, <2>2 DEF PlayInv, RowInv, RowBacked
<1>7. TypeOK'
  BY <1>1, <1>4, <1>5 DEF TypeOK, SettlementTypeOK, settlementVars
<1>8. {"consume", "finish"} \subseteq Emitting
  BY DEF Emitting
<1>9. SlotsCounted' /\ PlayInv'
  BY <1>1, <1>2, <1>3, <1>4, <1>6, <1>8, EmitKeeps
<1> QED
  BY <1>7, <1>9

\* A session is completed, and its call goes on to leave.
LEMMA FinishKeeps ==
    ASSUME TypeOK, SlotsCounted, PlayInv, NEW w \in Workers, CompleteFinish(w),
           UNCHANGED <<deliveryVars, settlementVars>>
    PROVE  TypeOK' /\ SlotsCounted' /\ PlayInv'
<1>0. PICK s \in Sessions : s = calls[w].sid
  BY Working DEF CompleteFinish, At
<1> DEFINE call == [calls[w] EXCEPT !.at = "leave"]
           new == [sessions[s] EXCEPT !.completed = TRUE]
<1>1. /\ calls[w] # None /\ calls[w].op = "complete" /\ calls[w].at = "finish"
      /\ sessions' = IF Known(s) THEN [sessions EXCEPT ![s] = new] ELSE sessions
      /\ calls' = [calls EXCEPT ![w] = call]
      /\ UNCHANGED <<live_by_device, ddur, reaping, started, restarts, published>>
  BY <1>0 DEF CompleteFinish, At, Goto
<1>2. /\ calls[w] \in Call /\ CallOK(w) /\ calls[w].sid = s
      /\ Known(s) => sessions[s] \in Session /\ SessionOK(s)
  BY <1>0, <1>1, Working
<1>3. /\ call \in Call /\ call.sid = s /\ call.op = "complete"
      /\ call.at = "leave" /\ call.proof = calls[w].proof /\ call # None
  <2>1. call \in Call
    BY <1>2 DEF Call
  <2> QED
    BY <1>1, <1>2, <2>1, RecordAssumption DEF Call
<1>4. Known(s) =>
         /\ new \in Session /\ new # None /\ new.completed
         /\ new.req = sessions[s].req /\ new.slot_held = sessions[s].slot_held
         /\ new.proof = sessions[s].proof /\ new.built = sessions[s].built
         /\ new.awaiting = sessions[s].awaiting
  <2>1. Known(s) => new \in Session
    BY <1>2 DEF Session
  <2> QED
    BY <1>2, <2>1, RecordAssumption DEF Session
<1> HIDE DEF call, new
<1>5. /\ calls'[w] = call
      /\ \A v \in Workers \ {w} : calls'[v] = calls[v]
      /\ \A r \in Sessions \ {s} : sessions'[r] = sessions[r]
      /\ sessions'[s] = IF Known(s) THEN new ELSE None
      /\ Known(s)' <=> Known(s)
  BY <1>1, <1>4 DEF TypeOK, Known
<1>6. TypeOK'
  <2>1. /\ calls' \in [Workers -> Call \cup {None}]
        /\ sessions' \in [Sessions -> Session \cup {None}]
    BY <1>1, <1>3, <1>4 DEF TypeOK
  <2> QED
    BY <1>1, <2>1 DEF TypeOK, DeliveryTypeOK, SettlementTypeOK,
                      deliveryVars, settlementVars
<1>7. SlotsCounted'
  <2>1. ASSUME NEW r \in Sessions
        PROVE  /\ Known(r)' <=> Known(r)
               /\ Known(r) => /\ sessions'[r].slot_held = sessions[r].slot_held
                              /\ sessions'[r].req = sessions[r].req
    BY <1>4, <1>5 DEF Known
  <2> QED
    BY <1>1, <2>1, SlotsSame
<1>8. ASSUME NEW r \in Sessions PROVE Out(r)' = Out(r)
  <2>1. \A p : p \in Out(r)' <=> p \in Out(r)
    BY <1>1, <1>2, <1>3, <1>4, <1>5, OutMember DEF Known
  <2> QED
    BY <2>1
<1>9. witnessed' = witnessed
  BY DEF deliveryVars
<1>10. CallOK(w)'
  BY <1>1, <1>2, <1>3, <1>5, <1>9 DEF CallOK, Emitting, Backed
<1>11. Known(s)' => SessionOK(s)'
  <2> SUFFICES ASSUME Known(s)'
               PROVE  SessionOK(s)'
    OBVIOUS
  <2>1. Known(s) /\ SessionOK(s)
    BY <1>2, <1>5
  <2> QED
    BY <1>1, <1>4, <1>5, <1>8, <1>9, <2>1 DEF SessionOK, Backed
<1>12. RowInv'
  BY DEF PlayInv, RowInv, RowBacked, deliveryVars
<1>13. PlayInv'
  <2>1. /\ UNCHANGED <<started, witnessed>> /\ published \subseteq published'
        /\ \A q \in published' : q \in published
    BY <1>1, <1>9
  <2>2. /\ calls[w] # None => calls[w].sid = s
        /\ calls'[w] # None => calls'[w].sid = s
    BY <1>2, <1>3, <1>5
  <2>3. Completing(w, s)
    BY <1>1, <1>2 DEF Completing
  <2>4. \A v \in Workers \ {w} : ~Completing(v, s)
    BY <2>3, OneCompletes
  <2> QED
    BY <1>5, <1>8, <1>10, <1>11, <1>12, <2>1, <2>2, <2>4, WorkerKeeps
<1> QED
  BY <1>6, <1>7, <1>13

\* A call ends, and the session lets its slot go.
LEMMA EndKeeps ==
    ASSUME TypeOK, SlotsCounted, PlayInv, NEW w \in Workers, NEW s \in Sessions,
           calls[w] # None, calls[w].sid = s, calls[w].at \in {"finish", "leave"},
           calls' = [calls EXCEPT ![w] = None], NEW new,
           live_by_device' = IF Known(s) THEN release_device_slot(
                                s, sessions[s].slot_held, live_by_device)
                             ELSE live_by_device,
           sessions' = IF Known(s) THEN [sessions EXCEPT ![s] = new]
                       ELSE sessions,
           Known(s) => /\ new \in Session /\ ~new.slot_held
                       /\ new.proof = sessions[s].proof
                       /\ new.built = sessions[s].built
                       /\ new.awaiting => sessions[s].awaiting
                       /\ \/ new.completed
                          \/ /\ calls[w].op = "complete" /\ calls[w].at = "leave"
                             /\ new.completed = sessions[s].completed
                             /\ new.awaiting = sessions[s].awaiting,
           UNCHANGED <<ddur, reaping, started, restarts, published>>,
           UNCHANGED <<deliveryVars, settlementVars>>
    PROVE  TypeOK' /\ SlotsCounted' /\ PlayInv'
<1>1. /\ CallOK(w) /\ calls[w].proof \in published \cup {None}
      /\ calls[w].proof # None => calls[w].proof.sid = s
      /\ Known(s) => SessionOK(s)
  BY Working DEF CallOK
<1>2. Known(s) => new # None
  BY RecordAssumption
<1>3. /\ calls'[w] = None
      /\ \A v \in Workers \ {w} : calls'[v] = calls[v]
      /\ \A r \in Sessions \ {s} : sessions'[r] = sessions[r]
      /\ sessions'[s] = IF Known(s) THEN new ELSE None
      /\ Known(s)' <=> Known(s)
  BY <1>2 DEF TypeOK, Known
<1>4. SlotsCounted' /\ live_by_device' \in [SlotKeys -> Nat]
  <2>1. CASE Known(s)
    BY <1>2, <2>1, SlotReleased
  <2>2. CASE ~Known(s)
    BY <2>2, SlotsSame DEF Known, TypeOK
  <2> QED
    BY <2>1, <2>2
<1>5. TypeOK'
  <2>1. /\ calls' \in [Workers -> Call \cup {None}]
        /\ sessions' \in [Sessions -> Session \cup {None}]
    BY DEF TypeOK
  <2> QED
    BY <1>4, <2>1 DEF TypeOK, DeliveryTypeOK, SettlementTypeOK,
                      deliveryVars, settlementVars
<1>6. ASSUME NEW r \in Sessions PROVE Out(r)' = Out(r)
  <2>1. \A p : p \in Out(r)' <=> p \in Out(r)
    BY <1>1, <1>2, <1>3, OutMember DEF Known
  <2> QED
    BY <2>1
<1>7. witnessed' = witnessed
  BY DEF deliveryVars
<1>8. \A v \in Workers : Completing(v, s)' =>
          v # w /\ Completing(v, s) /\ calls'[v] = calls[v]
  BY <1>3 DEF Completing
<1>9. \A v \in Workers : Completing(v, s) /\ calls[v].at \in Emitting =>
          (calls[w].op = "complete" => v = w)
  <2>1. calls[w].op = "complete" => Completing(w, s)
    BY DEF Completing
  <2> QED
    BY <2>1 DEF PlayInv, OneProofInv
<1>10. Known(s)' => SessionOK(s)'
  <2> SUFFICES ASSUME Known(s)'
               PROVE  SessionOK(s)'
    OBVIOUS
  <2>1. Known(s) /\ SessionOK(s) /\ sessions'[s] = new
    BY <1>1, <1>3
  <2>2. CASE new.completed
    BY <1>6, <1>7, <2>1, <2>2 DEF SessionOK, Backed
  <2>3. CASE /\ calls[w].op = "complete" /\ calls[w].at = "leave"
             /\ new.completed = sessions[s].completed
             /\ new.awaiting = sessions[s].awaiting
    <3>1. Completing(w, s) /\ calls[w].at \notin Emitting
      BY <2>3 DEF Completing, Emitting
    <3>2. \A v \in Workers : ~Completing(v, s)'
      BY <1>8, <3>1, OneCompletes
    <3>3. ~\E v \in Workers : Completing(v, s) /\ calls[v].at \in Emitting
      BY <1>9, <2>3, <3>1
    <3> QED
      BY <1>6, <1>7, <2>1, <2>3, <3>2, <3>3 DEF SessionOK, Backed
  <2> QED
    BY <2>1, <2>2, <2>3
<1>11. RowInv'
  BY DEF PlayInv, RowInv, RowBacked, deliveryVars
<1>12. PlayInv'
  <2>1. /\ UNCHANGED <<started, witnessed>> /\ published \subseteq published'
        /\ \A q \in published' : q \in published
    BY <1>7
  <2>2. ~Completing(w, s)'
    BY <1>8
  <2> QED
    BY <1>3, <1>6, <1>10, <1>11, <2>1, <2>2, WorkerKeeps
<1> QED
  BY <1>4, <1>5, <1>12

LEMMA LeaveKeeps ==
    ASSUME TypeOK, SlotsCounted, PlayInv, NEW w \in Workers, CompleteLeave(w),
           UNCHANGED <<deliveryVars, settlementVars>>
    PROVE  TypeOK' /\ SlotsCounted' /\ PlayInv'
<1>0. PICK s \in Sessions : s = calls[w].sid
  BY Working DEF CompleteLeave, At
<1>p. PICK new : new = [sessions[s] EXCEPT !.slot_held = FALSE,
                                           !.completing = FALSE]
  OBVIOUS
<1>1. /\ calls[w] # None /\ calls[w].op = "complete" /\ calls[w].at = "leave"
      /\ live_by_device' = IF Known(s) THEN release_device_slot(
                                s, sessions[s].slot_held, live_by_device)
                           ELSE live_by_device
      /\ calls' = [calls EXCEPT ![w] = None]
      /\ UNCHANGED <<ddur, reaping, started, restarts, published>>
  BY <1>0 DEF CompleteLeave, At
<1>2. Known(s) => sessions[s] \in Session
  BY Lookups
<1>3. sessions' = IF Known(s) THEN [sessions EXCEPT ![s] = new] ELSE sessions
  <2>1. CASE Known(s)
    <3>1. sessions' = [sessions EXCEPT ![s].slot_held = FALSE,
                                       ![s].completing = FALSE]
      BY <1>0, <2>1 DEF CompleteLeave
    <3> QED
      BY <1>2, <1>p, <2>1, <3>1 DEF TypeOK, Session
  <2>2. CASE ~Known(s)
    BY <1>0, <2>2 DEF CompleteLeave
  <2> QED
    BY <2>1, <2>2
<1>4. Known(s) => /\ new \in Session /\ ~new.slot_held
                  /\ new.proof = sessions[s].proof
                  /\ new.built = sessions[s].built
                  /\ new.awaiting = sessions[s].awaiting
                  /\ new.completed = sessions[s].completed
  BY <1>2, <1>p DEF Session
<1> QED
  BY <1>0, <1>1, <1>3, <1>4, EndKeeps

LEMMA CosignFinishKeeps ==
    ASSUME TypeOK, SlotsCounted, PlayInv, NEW w \in Workers, CosignFinish(w),
           UNCHANGED <<deliveryVars, settlementVars>>
    PROVE  TypeOK' /\ SlotsCounted' /\ PlayInv'
<1>0. PICK s \in Sessions : s = calls[w].sid
  BY Working DEF CosignFinish, At
<1>p. PICK new : new = [sessions[s] EXCEPT !.completed = TRUE,
                                           !.completing = FALSE,
                                           !.awaiting = FALSE,
                                           !.slot_held = FALSE]
  OBVIOUS
<1>1. /\ calls[w] # None /\ calls[w].op = "cosign" /\ calls[w].at = "finish"
      /\ live_by_device' = IF Known(s) THEN release_device_slot(
                                s, sessions[s].slot_held, live_by_device)
                           ELSE live_by_device
      /\ calls' = [calls EXCEPT ![w] = None]
      /\ UNCHANGED <<ddur, reaping, started, restarts, published>>
  BY <1>0 DEF CosignFinish, At
<1>2. Known(s) => sessions[s] \in Session
  BY Lookups
<1>3. sessions' = IF Known(s) THEN [sessions EXCEPT ![s] = new] ELSE sessions
  <2>1. CASE Known(s)
    <3>1. sessions' = [sessions EXCEPT ![s].completed = TRUE,
                                       ![s].completing = FALSE,
                                       ![s].awaiting = FALSE,
                                       ![s].slot_held = FALSE]
      BY <1>0, <2>1 DEF CosignFinish
    <3> QED
      BY <1>2, <1>p, <2>1, <3>1 DEF TypeOK, Session
  <2>2. CASE ~Known(s)
    BY <1>0, <2>2 DEF CosignFinish
  <2> QED
    BY <2>1, <2>2
<1>4. Known(s) => /\ new \in Session /\ ~new.slot_held
                  /\ new.proof = sessions[s].proof
                  /\ new.built = sessions[s].built
                  /\ ~new.awaiting /\ new.completed
  BY <1>2, <1>p DEF Session
<1> QED
  BY <1>0, <1>1, <1>3, <1>4, EndKeeps

(***************************************************************************)
(* Deliveries, settlement and restarts.                                    *)
(***************************************************************************)

LEMMA BackedGrows ==
    ASSUME NEW ws, NEW more, ws \subseteq more, NEW p, BackedBy(ws, p)
    PROVE  BackedBy(more, p)
  BY DEF BackedBy

\* No row shows lanes that no report brought.
LEMMA RowsKeep ==
    ASSUME DeliveryTypeOK, RowInv, DeliveryNext
    PROVE  RowInv' /\ witnessed \subseteq witnessed'
<1> USE DEF DeliveryTypeOK, RowInv
<1>1. ASSUME UNCHANGED <<pd, dr, rmw, witnessed>>
      PROVE  RowInv' /\ witnessed \subseteq witnessed'
  BY <1>1 DEF RowBacked
<1>2. ASSUME NEW d \in Deliveries, NEW s \in Songs, NEW p \in Peers,
             StreamOpen(d, s, p)
      PROVE  RowInv' /\ witnessed \subseteq witnessed'
  <2> DEFINE new == [ch |-> s, lw |-> bound[p],
                     cand |-> {bound[q] : q \in online_peers_for_song(s)},
                     sd |-> None, mw |-> None, legs |-> {"brokered"}]
  <2>1. /\ pd' = [pd EXCEPT ![d] = new]
        /\ UNCHANGED <<dr, rmw, witnessed>>
    BY <1>2 DEF StreamOpen, mint_delivery
  <2>2. new.mw = None /\ new.sd = None
    OBVIOUS
  <2> HIDE DEF new
  <2> QED
    BY <2>1, <2>2 DEF RowBacked
<1>3. ASSUME NEW d \in Deliveries, NEW m \in Minis, NEW p \in Peers \cup {None},
             RelayReport(d, m, p)
      PROVE  RowInv' /\ witnessed \subseteq witnessed'
  <2>1. /\ rmw' = [did |-> d,
                   row |-> [pd[d] EXCEPT !.mw = m, !.legs = @ \cup {"reported"},
                                         !.sd = Attested(pd[d], p)]]
        /\ pd[d] \in Row /\ UNCHANGED <<pd, dr, witnessed>>
    BY <1>3 DEF RelayReport
  <2>2. rmw'.row.mw = m /\ m # None
    BY <2>1, DeliveryAssumption DEF Row
  <2> QED
    BY <2>1, <2>2 DEF RowBacked
<1>4. ASSUME NEW d \in Deliveries, NEW s \in Songs, RelayReceipt(d, s)
      PROVE  RowInv' /\ witnessed \subseteq witnessed'
  <2>1. /\ rmw' = [did |-> d,
                   row |-> [pd[d] EXCEPT !.legs = @ \cup {"receipted"}]]
        /\ pd[d] \in Row /\ UNCHANGED <<pd, dr, witnessed>>
    BY <1>4 DEF RelayReceipt
  <2>2. rmw'.row.mw = pd[d].mw /\ rmw'.row.sd = pd[d].sd
    BY <2>1 DEF Row
  <2>3. pd[d].mw = None => pd[d].sd = None
    BY <2>1, RecordAssumption DEF RowBacked
  <2> QED
    BY <2>1, <2>2, <2>3 DEF RowBacked
<1>5. ASSUME LegWrite
      PROVE  RowInv' /\ witnessed \subseteq witnessed'
  <2>1. PICK d \in Deliveries, row \in Row : rmw.did = d /\ rmw.row = row
    BY <1>5 DEF LegWrite, Leg
  <2>2. RowBacked(d, row)'
    BY <1>5, <2>1 DEF LegWrite, RowBacked
  <2>3. /\ \A e \in Deliveries : /\ pd'[e] \in {pd[e], None, row}
                                 /\ dr'[e] \in {dr[e], None, row}
                                 /\ e # d => pd'[e] = pd[e] /\ dr'[e] = dr[e]
        /\ rmw' = None /\ witnessed \subseteq witnessed'
    BY <1>5, <2>1 DEF LegWrite
  <2>4. ASSUME NEW e \in Deliveries, NEW r, RowBacked(e, r)
        PROVE  RowBacked(e, r)'
    BY <2>3, <2>4 DEF RowBacked
  <2>5. ASSUME NEW e \in Deliveries
        PROVE  (/\ pd[e] # None => RowBacked(e, pd[e])
                /\ dr[e] # None => RowBacked(e, dr[e]))'
    <3>1. /\ pd'[e] \in {pd[e], None} \/ (pd'[e] = row /\ e = d)
          /\ dr'[e] \in {dr[e], None} \/ (dr'[e] = row /\ e = d)
      BY <2>3
    <3>2. /\ pd[e] # None => RowBacked(e, pd[e])
          /\ dr[e] # None => RowBacked(e, dr[e])
      OBVIOUS
    <3> QED
      BY <2>2, <2>3, <3>1, <3>2 DEF RowBacked
  <2> QED
    BY <2>3, <2>5
<1>6. ASSUME NEW d \in Deliveries, reap_stale_deliveries(d)
      PROVE  RowInv' /\ witnessed \subseteq witnessed'
  BY <1>6 DEF reap_stale_deliveries, RowBacked
<1> QED
  BY <1>1, <1>2, <1>3, <1>4, <1>5, <1>6 DEF DeliveryNext, Hello, Gone

LEMMA DeliveryKeeps ==
    ASSUME TypeOK, SlotsCounted, PlayInv, DeliveryNext,
           UNCHANGED <<settlementVars, playVars>>
    PROVE  TypeOK' /\ SlotsCounted' /\ PlayInv'
<1> USE DEF playVars
<1>1. TypeOK'
  BY DeliveryTypes DEF TypeOK, SettlementTypeOK, settlementVars
<1>2. RowInv' /\ witnessed \subseteq witnessed'
  BY RowsKeep DEF TypeOK, PlayInv
<1>3. \A p : BackedBy(witnessed, p) => BackedBy(witnessed', p)
  BY <1>2, BackedGrows
<1>4. ASSUME NEW s PROVE Out(s)' = Out(s)
  BY DEF Out
<1>5. CallInv'
  BY <1>3, <1>4 DEF PlayInv, CallInv, CallOK, Backed
<1>6. SessionInv'
  BY <1>3, <1>4 DEF PlayInv, SessionInv, SessionOK, Known, Completing, Backed
<1>7. OneProofInv'
  BY <1>3, <1>4 DEF PlayInv, OneProofInv, Completing, Backed
<1>8. SlotsCounted'
  BY SlotsSame DEF Known
<1> QED
  BY <1>1, <1>2, <1>5, <1>6, <1>7, <1>8 DEF PlayInv

LEMMA SettlementKeeps ==
    ASSUME TypeOK, SlotsCounted, PlayInv, SettlementNext,
           UNCHANGED <<deliveryVars, playVars>>
    PROVE  TypeOK' /\ SlotsCounted' /\ PlayInv'
<1> USE DEF playVars
<1>1. TypeOK'
  BY SettlementTypes DEF TypeOK, DeliveryTypeOK, deliveryVars
<1>2. SlotsCounted'
  BY SlotsSame DEF Known
<1>3. PlayInv'
  BY QuietKeeps DEF Known
<1> QED
  BY <1>1, <1>2, <1>3

LEMMA RestartKeeps ==
    ASSUME TypeOK, SlotsCounted, PlayInv, Restart
    PROVE  TypeOK' /\ SlotsCounted' /\ PlayInv'
<1> USE DEF Restart
<1>1. /\ sessions' = [s \in Sessions |-> None]
      /\ live_by_device' = [k \in SlotKeys |-> 0]
      /\ calls' = [w \in Workers |-> None]
      /\ UNCHANGED <<pd, dr, witnessed, started, published>>
      /\ rmw' = None
  OBVIOUS
<1>2. TypeOK'
  <2>1. DeliveryTypeOK'
    BY DEF TypeOK, DeliveryTypeOK
  <2>2. SettlementTypeOK'
    BY DEF TypeOK, SettlementTypeOK
  <2>3. restarts' \in 0..MaxRestarts
    BY SessionAssumption DEF TypeOK
  <2>4. live_by_device' \in [SlotKeys -> Nat]
    BY <1>1
  <2> QED
    BY <2>1, <2>2, <2>3, <2>4 DEF TypeOK
<1>3. SlotsCounted'
  <2> SUFFICES ASSUME NEW k \in SlotKeys
               PROVE  /\ live_by_device'[k] = Cardinality(Holding(k)')
                      /\ live_by_device'[k] <= kMaxConcurrentPerDevice
    BY DEF SlotsCounted
  <2>1. Holding(k)' = {}
    BY <1>1 DEF Holding, Known
  <2>2. live_by_device'[k] = 0 /\ 0 <= kMaxConcurrentPerDevice
    BY <1>1, SessionAssumption
  <2> QED
    BY <2>1, <2>2, FS_EmptySet
<1>4. RowInv'
  BY <1>1 DEF PlayInv, RowInv, RowBacked
<1>5. CallInv' /\ SessionInv'
  BY <1>1 DEF CallInv, SessionInv, Known
<1>6. OneProofInv'
  <2>1. ASSUME NEW s \in Sessions, NEW p, p \in Out(s)'
        PROVE  p \in Out(s)
    BY <1>1, <2>1, OutMember DEF Known
  <2>2. \A s \in Sessions : \A w \in Workers : ~Completing(w, s)'
    BY <1>1 DEF Completing
  <2> QED
    BY <1>1, <2>1, <2>2 DEF PlayInv, OneProofInv, Backed
<1> QED
  BY <1>2, <1>3, <1>4, <1>5, <1>6 DEF PlayInv

(***************************************************************************)
(* The theorems.                                                           *)
(***************************************************************************)

LEMMA InitHolds == Init => TypeOK /\ SlotsCounted /\ PlayInv
<1> SUFFICES ASSUME Init
             PROVE  TypeOK /\ SlotsCounted /\ PlayInv
  OBVIOUS
<1> USE DEF Init, DeliveryInit, SettlementInit
<1>1. TypeOK
  <2>1. DeliveryTypeOK
    BY DeliveryAssumption DEF DeliveryTypeOK
  <2>2. SettlementTypeOK
    BY SessionAssumption DEF SettlementTypeOK
  <2>3. 0 \in 0..MaxRestarts /\ 0 \in 0..kDailyCoverageCap
    BY SessionAssumption
  <2> QED
    BY <2>1, <2>2, <2>3 DEF TypeOK
<1>2. SlotsCounted
  <2>1. ASSUME NEW k PROVE Holding(k) = {}
    BY DEF Holding, Known
  <2> QED
    BY <2>1, FS_EmptySet, SessionAssumption DEF SlotsCounted
<1>3. \A s \in Sessions : Out(s) = {}
  BY OutMember DEF Known
<1>4. RowInv /\ CallInv /\ SessionInv
  BY DEF RowInv, CallInv, SessionInv, Known
<1>5. OneProofInv
  BY <1>3 DEF OneProofInv, Completing
<1> QED
  BY <1>1, <1>2, <1>4, <1>5 DEF PlayInv

LEMMA NextKeeps ==
    TypeOK /\ SlotsCounted /\ PlayInv /\ [Next]_vars
        => (TypeOK /\ SlotsCounted /\ PlayInv)'
<1> SUFFICES ASSUME TypeOK, SlotsCounted, PlayInv, [Next]_vars
             PROVE  TypeOK' /\ SlotsCounted' /\ PlayInv'
  OBVIOUS
<1>1. CASE Client
  BY <1>1, StartKeeps, HeartbeatKeeps, ClaimKeeps, CosignReadKeeps DEF Client
<1>2. CASE Time
  BY <1>2, SilenceKeeps DEF Time
<1>3. CASE Reaper
  BY <1>3, ClockKeeps, SweepKeeps DEF Reaper
<1>4. ASSUME NEW w \in Workers, WorkerStep(w)
      PROVE  TypeOK' /\ SlotsCounted' /\ PlayInv'
  BY <1>4, BuildKeeps, LeaveKeeps, CountKeeps, FinishKeeps, CosignFinishKeeps,
     PublishKeeps, ConsumeKeeps DEF WorkerStep
<1>5. CASE DeliveryNext /\ UNCHANGED <<settlementVars, playVars>>
  BY <1>5, DeliveryKeeps
<1>6. CASE SettlementNext /\ UNCHANGED <<deliveryVars, playVars>>
  BY <1>6, SettlementKeeps
<1>7. CASE Restart
  BY <1>7, RestartKeeps
<1>8. CASE UNCHANGED vars
  <2> USE <1>8 DEF vars, playVars
  <2>1. TypeOK'
    BY DEF TypeOK, DeliveryTypeOK, SettlementTypeOK, deliveryVars, settlementVars
  <2>2. SlotsCounted'
    BY SlotsSame DEF Known
  <2>3. PlayInv'
    BY QuietKeeps DEF Known
  <2> QED
    BY <2>1, <2>2, <2>3
<1> QED
  BY <1>1, <1>2, <1>3, <1>4, <1>5, <1>6, <1>7, <1>8 DEF Next

\* However completes, co-signatures, sweeps and restarts interleave, sessions,
\* calls, rows and the proofs that are out stay consistent with each other.
THEOREM PlayInvariant == Spec => [](TypeOK /\ SlotsCounted /\ PlayInv)
  BY InitHolds, NextKeeps, PTL DEF Spec

\* A device and wallet are charged for exactly the sessions that hold a slot,
\* and never beyond an enforced cap (release_device_slot_locked).
THEOREM SlotsAlwaysCounted == Spec => []SlotsCounted
  BY PlayInvariant, PTL

(***************************************************************************)
(* Accrued plays.                                                          *)
(***************************************************************************)

LEMMA AccrualKeeps ==
    ASSUME AccrualInv, [Next]_vars
    PROVE  /\ AccrualInv'
           /\ \A r \in accplay \ accplay' : used(r.proof.sid) \/ r \in late
<1>1. ASSUME UNCHANGED <<epoch, accplay, pool, us, paid, late>>
      PROVE  /\ AccrualInv'
             /\ \A r \in accplay \ accplay' : used(r.proof.sid) \/ r \in late
  BY <1>1 DEF AccrualInv, used
<1>2. ASSUME NEW p, NEW e, Publish(p, e)
      PROVE  /\ AccrualInv'
             /\ \A r \in accplay \ accplay' : used(r.proof.sid) \/ r \in late
  <2> DEFINE row == [epoch |-> e, proof |-> p]
  <2>1. UNCHANGED <<us, paid>>
    BY <1>2 DEF Publish
  <2>2. CASE batch
    <3>1. /\ accplay' = accplay \cup {row} /\ pool' = pool
          /\ late' = IF Emitted(e) THEN late \cup {row} ELSE late
      BY <1>2, <2>2 DEF Publish
    <3>2. row.epoch = e
      OBVIOUS
    <3> HIDE DEF row
    <3>3. AccrualInv'
      <4> SUFFICES ASSUME NEW r \in accplay'
                   PROVE  /\ r.epoch \in us => used(r.proof.sid) \/ r \in late'
                          /\ \A t \in pool : t.kind = "settle" /\ t.epoch = r.epoch
                                => r.proof \in t.proofs \/ r \in late'
        BY <2>1, <3>1 DEF AccrualInv, used
      <4>1. CASE r \in accplay
        BY <3>1, <4>1 DEF AccrualInv
      <4>2. CASE r = row
        BY <3>1, <3>2, <4>2 DEF Emitted
      <4> QED
        BY <3>1, <4>1, <4>2
    <3> QED
      BY <3>1, <3>3
  <2>3. CASE ~batch
    <3>1. pool' = pool \cup {Mint(p)} /\ UNCHANGED <<accplay, late>>
      BY <1>2, <2>3 DEF Publish
    <3>2. Mint(p).kind # "settle"
      BY DEF Mint
    <3> QED
      BY <2>1, <3>1, <3>2 DEF AccrualInv, used
  <2> QED
    BY <2>2, <2>3
<1>3. CASE settle_epoch_sweep
  <2>1. /\ accplay' = accplay \ UNION {Rows(e) : e \in Closed \cap us}
        /\ pool' = pool \cup {Settle(e, ProofsOf(e)) : e \in Closed \ us}
        /\ UNCHANGED <<us, paid, late>>
    BY <1>3 DEF settle_epoch_sweep
  <2>2. ASSUME NEW r \in accplay \ accplay'
        PROVE  used(r.proof.sid) \/ r \in late
    <3>1. r.epoch \in us
      BY <2>1 DEF Rows
    <3> QED
      BY <3>1 DEF AccrualInv
  <2>3. ASSUME NEW r \in accplay', NEW t \in pool', t.kind = "settle",
               t.epoch = r.epoch
        PROVE  r.proof \in t.proofs \/ r \in late
    <3>1. CASE t \in pool
      BY <2>1, <2>3, <3>1 DEF AccrualInv
    <3>2. CASE t \notin pool
      <4>1. PICK e \in Closed \ us : t = Settle(e, ProofsOf(e))
        BY <2>1, <2>3, <3>2
      <4>2. e = r.epoch /\ t.proofs = ProofsOf(e)
        BY <2>3, <4>1 DEF Settle
      <4>3. r \in Rows(e)
        BY <2>1, <2>3, <4>2 DEF Rows
      <4> QED
        BY <4>2, <4>3 DEF ProofsOf
    <3> QED
      BY <3>1, <3>2
  <2>4. AccrualInv'
    BY <2>1, <2>3 DEF AccrualInv, used
  <2> QED
    BY <2>2, <2>4
<1>4. ASSUME NEW t \in pool, Mined(t)
      PROVE  /\ AccrualInv'
             /\ \A r \in accplay \ accplay' : used(r.proof.sid) \/ r \in late
  <2>1. /\ pool' = pool \ {t} /\ UNCHANGED <<accplay, late>>
        /\ \/ UNCHANGED <<us, paid>>
           \/ /\ paid' = paid \cup {p \in t.proofs : ~used(p.sid)}
              /\ us' = IF t.kind = "settle" THEN us \cup {t.epoch} ELSE us
    BY <1>4 DEF Mined
  <2>2. paid \subseteq paid'
    BY <2>1
  <2>3. ASSUME NEW r \in accplay, r.epoch \in us'
        PROVE  used(r.proof.sid)' \/ r \in late
    <3>1. CASE r.epoch \in us
      BY <2>2, <3>1 DEF AccrualInv, used
    <3>2. CASE r.epoch \notin us
      <4>1. t.kind = "settle" /\ t.epoch = r.epoch
        BY <2>1, <2>3, <3>2
      <4>2. r.proof \in t.proofs \/ r \in late
        BY <4>1 DEF AccrualInv
      <4>3. paid' = paid \cup {p \in t.proofs : ~used(p.sid)}
        BY <2>1, <2>3, <3>2
      <4> QED
        BY <4>2, <4>3 DEF used
    <3> QED
      BY <3>1, <3>2
  <2> QED
    BY <2>1, <2>3 DEF AccrualInv
<1>5. ASSUME NEW t \in pool, Evicted(t)
      PROVE  /\ AccrualInv'
             /\ \A r \in accplay \ accplay' : used(r.proof.sid) \/ r \in late
  BY <1>5 DEF Evicted, AccrualInv, used
<1>6. CASE Client \/ Time \/ Reaper
  BY <1>1, <1>6 DEF Client, Time, Reaper, settlementVars
<1>7. ASSUME NEW w \in Workers, WorkerStep(w)
      PROVE  /\ AccrualInv'
             /\ \A r \in accplay \ accplay' : used(r.proof.sid) \/ r \in late
  <2>1. CASE EmitPublish(w)
    BY <1>2, <2>1 DEF EmitPublish
  <2>2. CASE ~EmitPublish(w)
    BY <1>1, <1>7, <2>2 DEF WorkerStep, settlementVars
  <2> QED
    BY <2>1, <2>2
<1>8. CASE DeliveryNext /\ UNCHANGED <<settlementVars, playVars>>
  BY <1>1, <1>8 DEF settlementVars
<1>9. CASE SettlementNext
  BY <1>1, <1>3, <1>4, <1>5, <1>9 DEF SettlementNext, NextEpoch, AccrualInv, used
<1>10. CASE Restart
  BY <1>1, <1>10 DEF Restart
<1>11. CASE UNCHANGED vars
  BY <1>1, <1>11 DEF vars, settlementVars
<1> QED
  BY <1>6, <1>7, <1>8, <1>9, <1>10, <1>11 DEF Next

\* An accrued play leaves the scratch only paid, unless its row was written
\* after the settlement of its epoch went out (settle_epoch_sweep).
THEOREM AccruedKeptUntilPaid == Spec => KeptUntilPaid
<1>1. Init => AccrualInv
  BY DEF Init, SettlementInit, AccrualInv
<1>2. AccrualInv /\ [Next]_vars => AccrualInv'
  BY AccrualKeeps
<1>3. AccrualInv /\ [Next]_vars =>
        [\A r \in accplay \ accplay' : used(r.proof.sid) \/ r \in late]_vars
  BY AccrualKeeps
<1> QED
  BY <1>1, <1>2, <1>3, PTL DEF Spec, KeptUntilPaid

(***************************************************************************)
(* The refinement.                                                         *)
(***************************************************************************)

LEMMA PublishRefines ==
    ASSUME TypeOK, PlayInv, NEW w \in Workers, EmitPublish(w),
           UNCHANGED deliveryVars
    PROVE  [Promise!Next]_<<published, witnessed>>
<1> DEFINE p == calls[w].proof
<1>1. /\ calls[w] # None /\ calls[w].at = "publish"
      /\ published' = published \cup {p} /\ witnessed' = witnessed
  BY DEF EmitPublish, At, deliveryVars
<1>2. /\ CallOK(w) /\ p # None /\ p \in Proofs
      /\ calls[w].sid \in Sessions /\ p.sid = calls[w].sid
      /\ BackedBy(witnessed, p)
  BY <1>1, Working DEF CallOK, Emitting, Backed
<1>3. p \in Out(calls[w].sid)
  BY <1>1, <1>2, OutMember
<1>4. \A q \in published : q.sid = p.sid => q = p
  <2> SUFFICES ASSUME NEW q \in published, q.sid = p.sid
               PROVE  q = p
    OBVIOUS
  <2>1. q \in Out(calls[w].sid)
    BY <1>2, OutMember
  <2> QED
    BY <1>2, <1>3, <2>1 DEF PlayInv, OneProofInv
<1> HIDE DEF p
<1>5. CASE p \in published
  BY <1>1, <1>5
<1>6. CASE p \notin published
  <2>1. Promise!Publish(p)
    BY <1>1, <1>2, <1>4, <1>6 DEF Promise!Publish, BackedBy
  <2> QED
    BY <1>2, <2>1 DEF Promise!Next
<1> QED
  BY <1>5, <1>6

LEMMA DeliveryRefines ==
    ASSUME TypeOK, PlayInv, DeliveryNext, UNCHANGED playVars
    PROVE  [Promise!Next]_<<published, witnessed>>
<1> DEFINE ws == witnessed' \ witnessed
<1>1. witnessed \subseteq witnessed' /\ witnessed' \subseteq Witness
  BY RowsKeep, DeliveryTypes DEF TypeOK, PlayInv, DeliveryTypeOK
<1>2. ws \in SUBSET Witness /\ witnessed' = witnessed \cup ws
      /\ published' = published
  BY <1>1 DEF playVars
<1> HIDE DEF ws
<1>3. Promise!Observe(ws)
  BY <1>2 DEF Promise!Observe
<1> QED
  BY <1>2, <1>3 DEF Promise!Next

LEMMA StepRefines ==
    TypeOK /\ PlayInv /\ [Next]_vars => [Promise!Next]_<<published, witnessed>>
<1> SUFFICES ASSUME TypeOK, PlayInv, [Next]_vars
             PROVE  [Promise!Next]_<<published, witnessed>>
  OBVIOUS
<1>1. CASE Client
  BY <1>1 DEF Client, post_session_start, post_session_heartbeat, CompleteClaim,
              CosignRead, deliveryVars
<1>2. CASE Time \/ Reaper
  BY <1>2 DEF Time, Silence, Reaper, reaper_clock, reaper_sweep, deliveryVars
<1>3. ASSUME NEW w \in Workers, WorkerStep(w)
      PROVE  [Promise!Next]_<<published, witnessed>>
  <2>1. CASE EmitPublish(w) /\ UNCHANGED deliveryVars
    BY <2>1, PublishRefines
  <2>2. CASE EmitConsume(w)
    BY <2>2 DEF EmitConsume
  <2>3. CASE /\ \/ \E c \in BOOLEAN : CompleteBuild(w, c)
                \/ CompleteLeave(w)
                \/ EmitCount(w)
                \/ CompleteFinish(w)
                \/ CosignFinish(w)
             /\ UNCHANGED <<deliveryVars, settlementVars>>
    BY <2>3 DEF CompleteBuild, CompleteLeave, EmitCount, CompleteFinish,
                CosignFinish, deliveryVars
  <2> QED
    BY <1>3, <2>1, <2>2, <2>3 DEF WorkerStep
<1>4. CASE DeliveryNext /\ UNCHANGED <<settlementVars, playVars>>
  BY <1>4, DeliveryRefines
<1>5. CASE UNCHANGED <<deliveryVars, playVars>>
  BY <1>5 DEF deliveryVars, playVars
<1>6. CASE Restart
  BY <1>6 DEF Restart
<1>7. CASE UNCHANGED vars
  BY <1>7 DEF vars, deliveryVars, playVars
<1> QED
  BY <1>1, <1>2, <1>3, <1>4, <1>5, <1>6, <1>7 DEF Next

\* A node publishes one proof per session, and with lanes that were witnessed:
\* every step of the plays is a step of PlayPromise or leaves it alone.
THEOREM PlaysImplementPromise == Spec => PlaysKeepPromise
<1>1. Init => Promise!Init
  BY DEF Init, DeliveryInit, Promise!Init
<1> QED
  BY <1>1, PlayInvariant, StepRefines, PTL
     DEF Spec, PlaysKeepPromise, Promise!Spec
=============================================================================
