----------------------------- MODULE PlaySession -----------------------------
(***************************************************************************)
(* Play sessions of a serving node: session.start, heartbeat, complete and *)
(* cosign (HttpServer), their reaper, and the restart that forgets them,   *)
(* composed with the deliveries their lanes come from and the settlement   *)
(* of the proofs they publish.                                             *)
(*                                                                         *)
(* Verbs run on a pool of RPC workers; each holds sessions_mutex_ only for *)
(* short sections, so complete and cosign are chains of steps with calls   *)
(* as their program counters.  A session is silent once kSlotIdleReleaseMs *)
(* have passed since its last beat, and may then be past TIMEOUT_MS too.   *)
(* The reaper takes the time before the mutex, so a beat may carry a later *)
(* one (ahead), and the unsigned difference is then past every limit.      *)
(*                                                                         *)
(* Simplifications: one day; the coverage gates of complete are met once   *)
(* MIN_BEATS beats are in; keys and signatures are valid, and a relay's    *)
(* signature can always be had.                                            *)
(***************************************************************************)
EXTENDS Delivery, Settlement

CONSTANTS
    Sessions, Devices, Workers,
    Requests,           \* what clients start sessions with
    MIN_BEATS, kMaxConcurrentPerDevice, kDailyCoverageCap,
    REQUIRE_COSIGN,
    DEVICE_CAP_ENFORCE, \* otherwise a session past a cap is only logged
    MaxRestarts

Request == [player : Wallets, song : Songs, dev : Devices \cup {None},
            did : Deliveries \cup {None}]

ASSUME SessionAssumption ==
    /\ Requests \subseteq Request
    /\ MIN_BEATS \in Nat /\ kMaxConcurrentPerDevice \in Nat
    /\ kDailyCoverageCap \in Nat /\ MaxRestarts \in Nat
    /\ REQUIRE_COSIGN \in BOOLEAN /\ DEVICE_CAP_ENFORCE \in BOOLEAN
    /\ IsFiniteSet(Sessions) /\ MaxEpoch \in Nat \ {0}
    /\ [sid : Sessions, player : Wallets, song : Songs,
        did : Deliveries \cup {None}, seeder : Wallets \cup {None},
        mini : Minis \cup {None}, build : {1}] \subseteq Proofs

VARIABLES
    sessions,           \* sessions_: session id -> session or None
    live_by_device,     \* <<device, wallet>> -> slots taken
    ddur,               \* ddur: rows: device -> coverage counted today
    calls,              \* worker -> call in progress or None
    reaping,            \* the reaper has taken the time
    started, restarts,
    published           \* history: proofs that left the node

playVars == <<sessions, live_by_device, ddur, calls, reaping, started,
              restarts, published>>
vars == <<deliveryVars, settlementVars, playVars>>

SlotKeys == Devices \X Wallets
Session == [req : Requests, beats : 0..MIN_BEATS, silent : BOOLEAN, ahead : BOOLEAN,
            slot_held : BOOLEAN, completed : BOOLEAN, completing : BOOLEAN,
            awaiting : BOOLEAN, proof : Proofs \cup {None}, built : Nat]
Call == [op : {"complete", "cosign"}, sid : Sessions, req : Requests,
         at : {"build", "count", "publish", "consume", "finish", "leave"},
         proof : Proofs \cup {None}, epoch : 0..MaxEpoch]

ASSUME RecordAssumption ==
    /\ None \notin Session /\ None \notin Call /\ None \notin Proofs
    /\ None \notin Row /\ None \notin Leg

Init ==
    /\ DeliveryInit /\ SettlementInit
    /\ sessions = [s \in Sessions |-> None]
    /\ live_by_device = [k \in SlotKeys |-> 0]
    /\ ddur = [d \in Devices |-> 0]
    /\ calls = [w \in Workers |-> None]
    /\ reaping = FALSE
    /\ started = {}
    /\ restarts = 0
    /\ published = {}

Known(s) == sessions[s] # None
slot_key(req) == <<req.dev, req.player>>

-----------------------------------------------------------------------------
(* session.start and session.heartbeat                                     *)

\* The daily cap is read a little before the mutex; nothing here tells.
Admitted(req) ==
    DEVICE_CAP_ENFORCE /\ req.dev # None =>
        /\ ddur[req.dev] < kDailyCoverageCap
        /\ live_by_device[slot_key(req)] < kMaxConcurrentPerDevice

post_session_start(s, req, ahead) ==
    /\ s \notin started
    /\ ahead => reaping
    /\ Admitted(req)
    /\ started' = started \cup {s}
    /\ live_by_device' = IF req.dev = None THEN live_by_device
                         ELSE [live_by_device EXCEPT ![slot_key(req)] = @ + 1]
    /\ sessions' = [sessions EXCEPT ![s] =
            [req |-> req, beats |-> 0, silent |-> FALSE, ahead |-> ahead,
             slot_held |-> req.dev # None, completed |-> FALSE,
             completing |-> FALSE, awaiting |-> FALSE, proof |-> None,
             built |-> 0]]
    /\ UNCHANGED <<ddur, calls, reaping, restarts, published>>

post_session_heartbeat(s, ahead) ==
    /\ Known(s)
    /\ ahead => reaping
    /\ ~sessions[s].completed
    /\ sessions' = [sessions EXCEPT
            ![s].beats = IF @ < MIN_BEATS THEN @ + 1 ELSE @,
            ![s].silent = FALSE,
            ![s].ahead = ahead]
    /\ UNCHANGED <<live_by_device, ddur, calls, reaping, started, restarts,
                   published>>

-----------------------------------------------------------------------------
(* The reaper, and the passing of time.                                    *)

\* Mutant: a slot is given back whether it is held or not.
ReleaseAgain(s, held, live) == [live EXCEPT ![slot_key(sessions[s].req)] = @ - 1]

\* The slot of a session is given back once.
release_device_slot(s, held, live) ==
    IF held THEN [live EXCEPT ![slot_key(sessions[s].req)] = @ - 1] ELSE live

Silence(s) ==
    /\ Known(s)
    /\ ~sessions[s].silent
    /\ sessions' = [sessions EXCEPT ![s].silent = TRUE]
    /\ UNCHANGED <<live_by_device, ddur, calls, reaping, started, restarts,
                   published>>

reaper_clock ==
    /\ ~reaping
    /\ reaping' = TRUE
    /\ UNCHANGED <<sessions, live_by_device, ddur, calls, started, restarts,
                   published>>

\* now - last_heartbeat is past a limit, as the reaper computes it.  Silence
\* is taken as of the sweep: the two are a moment apart.
Wrapped == {s \in Sessions : Known(s) /\ sessions[s].ahead}
Idle == {s \in Sessions : Known(s) /\ sessions[s].silent} \cup Wrapped
HeldBy(k, ss) ==
    {s \in ss : sessions[s].slot_held /\ slot_key(sessions[s].req) = k}

\* Mutant: a dropped session takes its slot along.
ReaperDrops(dropped) ==
    /\ reaping
    /\ Wrapped \subseteq dropped
    /\ live_by_device' = [k \in SlotKeys |->
            live_by_device[k] - Cardinality(HeldBy(k, Idle \ dropped))]
    /\ sessions' = [s \in Sessions |->
            IF s \in dropped \/ ~Known(s) THEN None
            ELSE [sessions[s] EXCEPT !.slot_held = @ /\ s \notin Idle]]
    /\ reaping' = FALSE
    /\ UNCHANGED <<ddur, calls, started, restarts, published>>

\* Slots of idle sessions are given back, and those past TIMEOUT_MS dropped.
reaper_sweep(dropped) ==
    /\ reaping
    /\ Wrapped \subseteq dropped
    /\ live_by_device' = [k \in SlotKeys |->
            live_by_device[k] - Cardinality(HeldBy(k, Idle))]
    /\ sessions' = [s \in Sessions |->
            IF s \in dropped \/ ~Known(s) THEN None
            ELSE [sessions[s] EXCEPT !.slot_held = @ /\ s \notin Idle]]
    /\ reaping' = FALSE
    /\ UNCHANGED <<ddur, calls, started, restarts, published>>

-----------------------------------------------------------------------------
(* session.complete                                                        *)

Enter(w, s, op, at, proof) ==
    calls' = [calls EXCEPT ![w] =
        [op |-> op, sid |-> s, req |-> sessions[s].req, at |-> at,
         proof |-> proof, epoch |-> 0]]
Goto(w, at) == calls' = [calls EXCEPT ![w].at = at]
At(w, op, at) ==
    calls[w] # None /\ calls[w].op \in op /\ calls[w].at = at

\* Mutant: a completion in progress does not keep others out.
CompleteUnclaimed(s) == ~sessions[s].completed /\ ~sessions[s].awaiting

\* Under the mutex a session is claimed by one call.
MayComplete(s) ==
    ~sessions[s].completed /\ ~sessions[s].awaiting /\ ~sessions[s].completing

CompleteClaim(w, s) ==
    /\ calls[w] = None
    /\ Known(s)
    /\ MayComplete(s)
    /\ sessions' = [sessions EXCEPT ![s].completing = TRUE]
    /\ Enter(w, s, "complete",
             IF sessions[s].beats < MIN_BEATS \/ used(s) THEN "leave" ELSE "build",
             None)
    /\ UNCHANGED <<live_by_device, ddur, reaping, started, restarts, published>>

\* The row is looked up as dr: first, then as pd:.
LaneRow(did) == IF did = None THEN None
                ELSE IF dr[did] # None THEN dr[did] ELSE pd[did]

NoLanes == [seeder |-> None, mini |-> None]
resolve_delivery_lanes(req) ==
    LET row == LaneRow(req.did) IN
    IF \/ row = None
       \/ row.ch # req.song
       \/ row.lw \notin {None, req.player}
    THEN NoLanes
    ELSE [seeder |-> IF row.sd = req.player THEN None ELSE row.sd,
          mini |-> row.mw]

Proof(s, req, n) ==
    LET lanes == resolve_delivery_lanes(req) IN
    [sid |-> s, player |-> req.player, song |-> req.song, did |-> req.did,
     seeder |-> lanes.seeder, mini |-> lanes.mini, build |-> n]

\* The proof is assembled and node-signed; with cosign it is stashed in the
\* session, if that is still there, and without it goes on to be emitted,
\* unless the node wants co-signed proofs only.
CompleteBuild(w, cosign) ==
    /\ At(w, {"complete"}, "build")
    /\ LET s == calls[w].sid
           n == IF Known(s) THEN sessions[s].built + 1 ELSE 1
           p == Proof(s, calls[w].req, n)
       IN IF cosign
          THEN /\ Goto(w, "leave")
               /\ sessions' = IF ~Known(s) THEN sessions
                              ELSE [sessions EXCEPT ![s].awaiting = TRUE,
                                                    ![s].built = n,
                                                    ![s].proof = p]
          ELSE IF REQUIRE_COSIGN
          THEN Goto(w, "leave") /\ UNCHANGED sessions
          ELSE /\ calls' = [calls EXCEPT ![w].at = "count", ![w].proof = p]
               /\ sessions' = IF ~Known(s) THEN sessions
                              ELSE [sessions EXCEPT ![s].built = n]
    /\ UNCHANGED <<live_by_device, ddur, reaping, started, restarts, published>>

\* The scope guard of every exit: slot and claim are given back.
CompleteLeave(w) ==
    /\ At(w, {"complete"}, "leave")
    /\ LET s == calls[w].sid IN
        /\ live_by_device' = IF Known(s) THEN release_device_slot(
                                s, sessions[s].slot_held, live_by_device)
                             ELSE live_by_device
        /\ sessions' = IF Known(s)
                       THEN [sessions EXCEPT ![s].slot_held = FALSE,
                                             ![s].completing = FALSE]
                       ELSE sessions
    /\ calls' = [calls EXCEPT ![w] = None]
    /\ UNCHANGED <<ddur, reaping, started, restarts, published>>

-----------------------------------------------------------------------------
(* session.cosign                                                          *)

\* The pending proof is copied under the mutex; nothing claims the session.
\* After kCosignDeadlineMs a co-signature is refused: the step just never comes.
MayCosign(s) == sessions[s].awaiting /\ ~sessions[s].completed

CosignRead(w, s) ==
    /\ calls[w] = None
    /\ Known(s)
    /\ MayCosign(s)
    /\ ~used(s)                         \* check_play
    /\ Enter(w, s, "cosign", "count", sessions[s].proof)
    /\ UNCHANGED <<sessions, live_by_device, ddur, reaping, started, restarts,
                   published>>

-----------------------------------------------------------------------------
(* emit_mint, shared by both, and the section that follows it.             *)

\* Coverage counts for the device, under its shard lock.
EmitCount(w) ==
    /\ At(w, {"complete", "cosign"}, "count")
    /\ LET dev == calls[w].req.dev IN
        ddur' = IF dev = None \/ ddur[dev] = kDailyCoverageCap THEN ddur
                ELSE [ddur EXCEPT ![dev] = @ + 1]
    /\ calls' = [calls EXCEPT ![w].at = "publish", ![w].epoch = epoch]
    /\ UNCHANGED <<sessions, live_by_device, reaping, started, restarts,
                   published>>

EmitPublish(w) ==
    /\ At(w, {"complete", "cosign"}, "publish")
    /\ Publish(calls[w].proof, calls[w].epoch)
    /\ published' = published \cup {calls[w].proof}
    /\ Goto(w, IF calls[w].req.did = None THEN "finish" ELSE "consume")
    /\ UNCHANGED <<sessions, live_by_device, ddur, reaping, started, restarts>>

\* consume_delivery_row deletes both rows, and does not take pd_mu_.
EmitConsume(w) ==
    /\ At(w, {"complete", "cosign"}, "consume")
    /\ pd' = [pd EXCEPT ![calls[w].req.did] = None]
    /\ dr' = [dr EXCEPT ![calls[w].req.did] = None]
    /\ Goto(w, "finish")
    /\ UNCHANGED <<bound, minted, rmw, changes, witnessed>>
    /\ UNCHANGED <<sessions, live_by_device, ddur, reaping, started, restarts,
                   published>>

CompleteFinish(w) ==
    /\ At(w, {"complete"}, "finish")
    /\ LET s == calls[w].sid IN
        sessions' = IF Known(s) THEN [sessions EXCEPT ![s].completed = TRUE]
                    ELSE sessions
    /\ Goto(w, "leave")
    /\ UNCHANGED <<live_by_device, ddur, reaping, started, restarts, published>>

CosignFinish(w) ==
    /\ At(w, {"cosign"}, "finish")
    /\ LET s == calls[w].sid IN
        /\ live_by_device' = IF Known(s) THEN release_device_slot(
                                s, sessions[s].slot_held, live_by_device)
                             ELSE live_by_device
        /\ sessions' = IF Known(s)
                       THEN [sessions EXCEPT ![s].completed = TRUE,
                                             ![s].completing = FALSE,
                                             ![s].awaiting = FALSE,
                                             ![s].slot_held = FALSE]
                       ELSE sessions
    /\ calls' = [calls EXCEPT ![w] = None]
    /\ UNCHANGED <<ddur, reaping, started, restarts, published>>

-----------------------------------------------------------------------------

\* Rows and the pool outlive the process; sessions, slots, bindings and calls
\* do not.
Restart ==
    /\ restarts < MaxRestarts
    /\ restarts' = restarts + 1
    /\ sessions' = [s \in Sessions |-> None]
    /\ live_by_device' = [k \in SlotKeys |-> 0]
    /\ calls' = [w \in Workers |-> None]
    /\ reaping' = FALSE
    /\ bound' = [p \in Peers |-> None]
    /\ rmw' = None
    /\ batch' \in BOOLEAN
    /\ UNCHANGED <<pd, dr, minted, changes, witnessed, ddur, started, published>>
    /\ UNCHANGED <<epoch, accplay, pool, us, paid, late>>

\* The steps a worker takes once its call is admitted.
WorkerStep(w) ==
    \/ /\ \/ \E c \in BOOLEAN : CompleteBuild(w, c)
          \/ CompleteLeave(w)
          \/ EmitCount(w)
          \/ CompleteFinish(w)
          \/ CosignFinish(w)
       /\ UNCHANGED <<deliveryVars, settlementVars>>
    \/ EmitPublish(w) /\ UNCHANGED deliveryVars
    \/ EmitConsume(w) /\ UNCHANGED settlementVars

Client ==
    /\ \E s \in Sessions :
        \/ \E req \in Requests, ahead \in BOOLEAN :
               post_session_start(s, req, ahead)
        \/ \E ahead \in BOOLEAN : post_session_heartbeat(s, ahead)
        \/ \E w \in Workers : CompleteClaim(w, s) \/ CosignRead(w, s)
    /\ UNCHANGED <<deliveryVars, settlementVars>>

Time ==
    /\ \E s \in Sessions : Silence(s)
    /\ UNCHANGED <<deliveryVars, settlementVars>>

Reaper ==
    /\ reaper_clock \/ \E ss \in SUBSET Idle : reaper_sweep(ss)
    /\ UNCHANGED <<deliveryVars, settlementVars>>

Next ==
    \/ Client
    \/ Time
    \/ Reaper
    \/ \E w \in Workers : WorkerStep(w)
    \/ DeliveryNext /\ UNCHANGED <<settlementVars, playVars>>
    \/ SettlementNext /\ UNCHANGED <<deliveryVars, playVars>>
    \/ Restart

Spec == Init /\ [][Next]_vars

-----------------------------------------------------------------------------
(* Properties *)

TypeOK ==
    /\ DeliveryTypeOK /\ SettlementTypeOK
    /\ sessions \in [Sessions -> Session \cup {None}]
    /\ live_by_device \in [SlotKeys -> Nat]
    /\ ddur \in [Devices -> 0..kDailyCoverageCap]
    /\ calls \in [Workers -> Call \cup {None}]
    /\ reaping \in BOOLEAN
    /\ started \subseteq Sessions
    /\ restarts \in 0..MaxRestarts
    /\ published \subseteq Proofs

\* Whatever mix of completes, co-signatures, sweeps and restarts a session
\* went through, a device and wallet are charged for exactly the sessions that
\* hold a slot, and, where caps are enforced, never for more than allowed
\* (release_device_slot_locked, "exactly once per session lifetime").
Holding(k) == {s \in Sessions : Known(s) /\ sessions[s].slot_held
                               /\ slot_key(sessions[s].req) = k}
SlotsCounted ==
    \A k \in SlotKeys : /\ live_by_device[k] = Cardinality(Holding(k))
                        /\ DEVICE_CAP_ENFORCE =>
                               live_by_device[k] <= kMaxConcurrentPerDevice

\* The plays of this node implement PlayPromise: one proof per session, with
\* lanes that were witnessed, however calls, legs and restarts interleave.
Promise == INSTANCE PlayPromise WITH Witnesses <- Witness
PlaysKeepPromise == Promise!Spec

(***************************************************************************)
(* The inductive invariants behind these.  A session gives one proof       *)
(* because a proof that is out, in a call, in the session or published,    *)
(* keeps every later complete from building another; and the lanes of a    *)
(* proof were witnessed because no row shows what no report brought.       *)
(***************************************************************************)
Emitting == {"count", "publish", "consume", "finish"}

\* Worker w is in a complete of session s.
Completing(w, s) ==
    calls[w] # None /\ calls[w].op = "complete" /\ calls[w].sid = s

\* The proofs of session s that exist: published, in a call, or stashed.
OutOf(ps, cs, ss, s) ==
    {p \in ps : p.sid = s} \cup
    {p \in {cs[w].proof : w \in {v \in Workers :
                                      cs[v] # None /\ cs[v].sid = s}}
            \cup (IF ss[s] # None THEN {ss[s].proof} ELSE {}) : p # None}
Out(s) == OutOf(published, calls, sessions, s)

BackedBy(ws, p) ==
    /\ p.mini # None => \E w \in ws : Promise!Backs(w, p)
    /\ p.mini = None => p.seeder = None
Backed(p) == BackedBy(witnessed, p)

RowBacked(d, row) ==
    IF row.mw = None THEN row.sd = None
    ELSE [did |-> d, song |-> row.ch, listener |-> row.lw,
          seeder |-> row.sd, mini |-> row.mw] \in witnessed

RowInv ==
    /\ \A d \in Deliveries : /\ pd[d] # None => RowBacked(d, pd[d])
                             /\ dr[d] # None => RowBacked(d, dr[d])
    /\ rmw # None /\ rmw.row.mw = None => rmw.row.sd = None

CallOK(w) ==
    /\ calls[w].sid \in started
    /\ calls[w].at = "build" => calls[w].op = "complete" /\ Out(calls[w].sid) = {}
    /\ calls[w].op = "cosign" => calls[w].at \in Emitting
    /\ calls[w].at \in Emitting => calls[w].proof # None
    /\ calls[w].at = "publish" => calls[w].epoch >= 1
    /\ calls[w].at \in {"consume", "finish", "leave"}
          => calls[w].proof \in published \cup {None}
    /\ calls[w].proof # None => /\ calls[w].proof.sid = calls[w].sid
                               /\ Backed(calls[w].proof)
CallInv == \A w \in Workers : calls[w] # None => CallOK(w)

SessionOK(s) ==
    /\ s \in started
    /\ sessions[s].awaiting => sessions[s].proof # None
    /\ sessions[s].built # 0 => Out(s) # {}
    /\ sessions[s].proof # None => /\ sessions[s].proof.sid = s
                                  /\ Backed(sessions[s].proof)
    /\ \A w \in Workers : Completing(w, s) =>
           sessions[s].completing \/ sessions[s].completed
    /\ Out(s) # {} =>
           \/ sessions[s].completed \/ sessions[s].awaiting
           \/ \E w \in Workers : Completing(w, s) /\ calls[w].at \in Emitting
SessionInv == \A s \in Sessions : Known(s) => SessionOK(s)

OneProofInv ==
    /\ \A q \in published : q.sid \in started /\ Backed(q)
    /\ \A s \in Sessions : \A p, q \in Out(s) : p = q
    /\ \A s \in Sessions : \A w, v \in Workers :
          Completing(w, s) /\ Completing(v, s) => w = v

PlayInv == RowInv /\ CallInv /\ SessionInv /\ OneProofInv

\* A row of a settled epoch was paid or came late, and a settlement under way
\* takes in every row of its epoch that did not.
AccrualInv ==
    \A r \in accplay :
        /\ r.epoch \in us => used(r.proof.sid) \/ r \in late
        /\ \A t \in pool : t.kind = "settle" /\ t.epoch = r.epoch
                           => r.proof \in t.proofs \/ r \in late

\* An accrued play leaves the scratch only when it has been paid, unless its
\* row was written after the settlement of its epoch went out
\* (settle_epoch_sweep, "never silently lost").
KeptUntilPaid ==
    [][\A r \in accplay \ accplay' : used(r.proof.sid) \/ r \in late]_vars

\* Claims the code does not keep.

\* "a single relayed stream can only ever fund ONE play's seeder + relay lanes".
OneStreamOnePlay ==
    \A p, q \in published : p.did = q.did /\ p.mini # None /\ q.mini # None
                            => p.sid = q.sid

\* "the session itself lingers to TIMEOUT_MS for a late complete".
LingersForComplete ==
    [][\A s \in Sessions : Known(s) /\ sessions'[s] = None
            => sessions[s].silent \/ restarts' # restarts]_vars

\* "a settlement that failed ... is never silently lost with its accrued plays".
NeverSilentlyLost ==
    [][\A r \in accplay \ accplay' : used(r.proof.sid)]_vars

=============================================================================
