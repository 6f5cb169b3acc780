----------------------------- MODULE BlockScope -----------------------------
(***************************************************************************)
(* The block-scoped half of Chain::apply_transactions that every kind of   *)
(* transaction shares: the all-or-nothing block, and the per-address nonce *)
(* that is read through a block-scoped overlay.                            *)
(*                                                                         *)
(* A leveldb WriteBatch cannot be read back, so what a transaction of a    *)
(* block wrote is invisible to db_.get until the batch commits.  A nonce   *)
(* therefore lives in three places: the committed nv: row (nonce), the row *)
(* staged in the batch (stNonce, the committed row overlaid by the batch), *)
(* and applied_nonce_in_block_ (ovNonce, NoNonce where the map has no      *)
(* entry).  Chain::mu_ serialises blocks: one block is open at a time.     *)
(*                                                                         *)
(* seen / stSeen is a history variable: how many nonce-bearing             *)
(* transactions of an address the chain (the open block) has applied.      *)
(***************************************************************************)
EXTENDS Integers, Wallets

CONSTANTS
    MaxHeight,   \* bound: blocks a behaviour commits
    MaxTx        \* bound: transactions of one block

ASSUME ScopeAssumption ==
    /\ MaxHeight \in Nat
    /\ MaxTx \in Nat

VARIABLES
    height,      \* tip_.height
    applying,    \* TRUE while apply_transactions runs on a block
    txs,         \* transactions of the open block applied so far
    nonce,       \* committed nv: rows
    stNonce,     \* nv: rows once the open batch commits
    ovNonce,     \* applied_nonce_in_block_
    seen, stSeen \* history: transactions applied per address

scopeVars == <<height, applying, txs, nonce, stNonce, ovNonce, seen, stSeen>>

NoNonce == -1

Nonces == 0..(MaxHeight * MaxTx)

NoOverlay == [a \in Address |-> NoNonce]

ScopeTypeOK ==
    /\ height \in Nat
    /\ applying \in BOOLEAN
    /\ txs \in 0..MaxTx
    /\ nonce \in [Address -> Nat]
    /\ stNonce \in [Address -> Nat]
    /\ ovNonce \in [Address -> Nat \cup {NoNonce}]
    /\ seen \in [Address -> Nat]
    /\ stSeen \in [Address -> Nat]

ScopeInit ==
    /\ height = 0
    /\ applying = FALSE
    /\ txs = 0
    /\ nonce = [a \in Address |-> 0]
    /\ stNonce = nonce
    /\ ovNonce = NoOverlay
    /\ seen = [a \in Address |-> 0]
    /\ stSeen = seen

\* Mutant: the overlay is ignored.
committed_nonce(a) == nonce[a]

(***************************************************************************)
(* Chain::next_expected_nonce and Chain::record_applied_nonce.             *)
(***************************************************************************)
next_expected_nonce(a) ==
    IF ovNonce[a] # NoNonce THEN ovNonce[a] ELSE nonce[a]

record_applied_nonce(a, n) == [ovNonce EXCEPT ![a] = n]

\* The loop of apply_transactions takes the block's next transaction.
NextTx ==
    /\ applying
    /\ txs < MaxTx
    /\ txs' = txs + 1
    /\ UNCHANGED <<height, applying>>

(***************************************************************************)
(* What every nonce-bearing apply_* does around its own effect: compare    *)
(* the signed nonce n with the expected one, stage n + 1, record it in the *)
(* overlay.  verify_signature is the choice of a: only a's key signs for a.*)
(***************************************************************************)
UseNonce(a, n) ==
    /\ NextTx
    /\ n = next_expected_nonce(a)
    /\ stNonce' = [stNonce EXCEPT ![a] = n + 1]
    /\ ovNonce' = record_applied_nonce(a, n + 1)
    /\ stSeen' = [stSeen EXCEPT ![a] = @ + 1]
    /\ UNCHANGED <<nonce, seen>>

\* A transaction that carries no nonce, and a later step of a transaction.
NoNonceUsed ==
    /\ NextTx
    /\ UNCHANGED <<nonce, stNonce, ovNonce, seen, stSeen>>

SameTx == applying /\ UNCHANGED scopeVars

\* No block is being applied: the node waits for one.
Idle == ~applying /\ UNCHANGED scopeVars

\* apply_transactions clears the block-scoped staging before the first tx.
OpenScope ==
    /\ ~applying
    /\ height < MaxHeight
    /\ applying' = TRUE
    /\ txs' = 0
    /\ stNonce' = nonce
    /\ ovNonce' = NoOverlay
    /\ stSeen' = seen
    /\ UNCHANGED <<height, nonce, seen>>

\* db_.write(batch) succeeded: everything staged commits at once.
CommitScope ==
    /\ applying
    /\ applying' = FALSE
    /\ txs' = 0
    /\ height' = height + 1
    /\ nonce' = stNonce
    /\ seen' = stSeen
    /\ UNCHANGED <<stNonce, ovNonce, stSeen>>

\* A transaction failed to apply, the state_root gate refused the block, the
\* write failed, or the apply was a trial: the batch is thrown away.
DropScope ==
    /\ applying
    /\ applying' = FALSE
    /\ txs' = 0
    /\ stNonce' = nonce
    /\ stSeen' = seen
    /\ UNCHANGED <<height, nonce, ovNonce, seen>>

(***************************************************************************)
(* A nonce is spent by exactly one transaction: the committed nonce of an  *)
(* address is the number of its transactions on the chain, so the same     *)
(* signed (address, nonce) pair never applies twice, not even to two       *)
(* transactions of one block, where only the overlay keeps them apart      *)
(* (Chain::next_expected_nonce, record_applied_nonce).                     *)
(***************************************************************************)
NonceSpentOnce == nonce = seen

(***************************************************************************)
(* The inductive strengthening: while a block is open the overlay, where   *)
(* it has an entry, agrees with the batch, and where it has none the batch *)
(* has not touched the row.                                                *)
(***************************************************************************)
ScopeInv ==
    /\ ScopeTypeOK
    /\ NonceSpentOnce
    /\ stNonce = stSeen
    /\ applying =>
         \A a \in Address :
            IF ovNonce[a] = NoNonce THEN stNonce[a] = nonce[a]
                                    ELSE stNonce[a] = ovNonce[a]
=============================================================================
