----------------------------- MODULE Settlement -----------------------------
(***************************************************************************)
(* How a finished play proof is paid: as a MINT of its own, or, with       *)
(* BOPWIRE_BATCH_SETTLE, accrued in an accplay: row and settled with its   *)
(* epoch by the reaper (HttpServer::settle_epoch_sweep).                   *)
(*                                                                         *)
(* The chain is seen from this node: a transaction of its own is mined or  *)
(* refused; the us: marker settles an epoch once and u: pays a session     *)
(* once.  BlockLedger has the amounts.                                     *)
(***************************************************************************)
EXTENDS Naturals, FiniteSets

CONSTANTS Proofs, MaxEpoch

VARIABLES
    batch,      \* batch_settle_enabled_
    epoch,      \* now / EPOCH_MS
    accplay,    \* accplay: rows, [epoch, proof]
    pool,       \* transactions ingested and not mined yet
    us,         \* epochs with a us: marker
    paid,       \* proofs credited on chain
    late        \* history: rows put after their epoch was first settled

settlementVars == <<batch, epoch, accplay, pool, us, paid, late>>

AccRow == [epoch : 1..MaxEpoch, proof : Proofs]
Mint(p) == [kind |-> "mint", epoch |-> 0, proofs |-> {p}]
Settle(e, ps) == [kind |-> "settle", epoch |-> e, proofs |-> ps]
PoolTx == [kind : {"mint"}, epoch : {0}, proofs : SUBSET Proofs]
          \cup [kind : {"settle"}, epoch : 1..MaxEpoch, proofs : SUBSET Proofs]

SettlementInit ==
    /\ batch \in BOOLEAN
    /\ epoch = 1
    /\ accplay = {}
    /\ pool = {}
    /\ us = {}
    /\ paid = {}
    /\ late = {}

SettlementTypeOK ==
    /\ batch \in BOOLEAN
    /\ epoch \in 1..MaxEpoch
    /\ accplay \subseteq AccRow
    /\ pool \subseteq PoolTx
    /\ us \subseteq 1..MaxEpoch
    /\ paid \subseteq Proofs
    /\ late \subseteq AccRow

used(sid) == \E p \in paid : p.sid = sid

\* An epoch is settled once it was emitted or has its marker.
Emitted(e) == e \in us \/ \E t \in pool : t.kind = "settle" /\ t.epoch = e

\* The tail of emit_mint: e is the epoch read at its head.
Publish(p, e) ==
    /\ IF batch
       THEN /\ accplay' = accplay \cup {[epoch |-> e, proof |-> p]}
            /\ late' = IF Emitted(e)
                       THEN late \cup {[epoch |-> e, proof |-> p]} ELSE late
            /\ UNCHANGED pool
       ELSE /\ pool' = pool \cup {Mint(p)}
            /\ UNCHANGED <<accplay, late>>
    /\ UNCHANGED <<batch, epoch, us, paid>>

NextEpoch ==
    /\ epoch < MaxEpoch
    /\ epoch' = epoch + 1
    /\ UNCHANGED <<batch, accplay, pool, us, paid, late>>

Rows(e) == {r \in accplay : r.epoch = e}
ProofsOf(e) == {r.proof : r \in Rows(e)}
Closed == {e \in 1..(epoch - 1) : Rows(e) # {}}

\* Mutant: the scratch is dropped as soon as its settlement is emitted.
SweepDropsEarly ==
    /\ batch
    /\ accplay' = accplay \ UNION {Rows(e) : e \in Closed}
    /\ pool' = pool \cup {Settle(e, ProofsOf(e)) : e \in Closed \ us}
    /\ <<accplay, pool>>' # <<accplay, pool>>
    /\ UNCHANGED <<batch, epoch, us, paid, late>>

\* Every closed epoch: scratch of a settled one is dropped, the others are
\* emitted, again at each sweep until their marker is there.
settle_epoch_sweep ==
    /\ batch
    /\ accplay' = accplay \ UNION {Rows(e) : e \in Closed \cap us}
    /\ pool' = pool \cup {Settle(e, ProofsOf(e)) : e \in Closed \ us}
    /\ <<accplay, pool>>' # <<accplay, pool>>
    /\ UNCHANGED <<batch, epoch, us, paid, late>>

\* A transaction of the pool leaves it: credited, or refused because its
\* session or its epoch has been.
Mined(t) ==
    /\ pool' = pool \ {t}
    /\ IF t.kind = "settle" /\ t.epoch \in us
       THEN UNCHANGED <<us, paid>>
       ELSE /\ paid' = paid \cup {p \in t.proofs : ~used(p.sid)}
            /\ us' = IF t.kind = "settle" THEN us \cup {t.epoch} ELSE us
    /\ UNCHANGED <<batch, epoch, accplay, late>>

\* A transaction that does not apply is evicted; a sweep may emit it again.
Evicted(t) ==
    /\ pool' = pool \ {t}
    /\ UNCHANGED <<batch, epoch, accplay, us, paid, late>>

SettlementNext ==
    \/ NextEpoch
    \/ settle_epoch_sweep
    \/ \E t \in pool : Mined(t) \/ Evicted(t)

=============================================================================
