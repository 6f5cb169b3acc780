---------------------------- MODULE BlockLedger ----------------------------
(***************************************************************************)
(* The economic half of a block's state: what the TRANSFER, MINT,          *)
(* RELAY_REWARD, NODE_AUTH and SETTLEMENT_MINT branches of                 *)
(* Chain::apply_transactions do to balances, supply, play counts, the      *)
(* validator registry and the replay markers.                              *)
(*                                                                         *)
(* db holds the committed rows, st the rows as they will be once the open  *)
(* batch commits.  The code reads balances and the supply through the      *)
(* block-scoped Ledger overlay, which is st; everything else it reads with *)
(* db_.get, which sees db alone.  Every read below says which.             *)
(*                                                                         *)
(* Fields of db and st:                                                    *)
(*   bal    a: rows                   supply  c:total_supply               *)
(*   used   u: rows (sessions)        plays   s: rows, play_count          *)
(*   disc   s: rows, discoverer       pp      pp: rows <<song, player>>    *)
(*   songs  songs of blocks           auth    v: rows                      *)
(*   us     us: rows, as the number of settlements of a <<node, epoch>>    *)
(*   weight cumulative fork weight (cw: row of the tip)                    *)
(*   paid   history: how often a proof has been credited                   *)
(*   earner history: who was paid the node lane of a proof                 *)
(***************************************************************************)
EXTENDS BlockScope, MintSchedule, FiniteSets, Functions

CONSTANTS
    Proof,            \* the PlayProofs that exist
    Founder,          \* the founder, bootstrapped before Init
    GenesisSongs,     \* songs registered before Init, not played yet
    GenesisNodes,     \* serving nodes authorised before Init
    Epoch,            \* settlement epochs
    Amount,           \* amounts a TRANSFER or RELAY_REWARD may carry
    MAX_UNITS_PER_TX, \* kMaxUnitsPerTx
    MAX_CONSTITUENTS_PER_SETTLEMENT

ASSUME LedgerAssumption ==
    /\ Proof \subseteq PlayProof /\ IsFiniteSet(Proof)
    /\ IsFiniteSet(Address) /\ Founder \in Address
    /\ GenesisSongs \subseteq Song /\ GenesisNodes \subseteq Address
    /\ Amount \subseteq Nat
    /\ MAX_UNITS_PER_TX \in Nat
    /\ MAX_CONSTITUENTS_PER_SETTLEMENT \in Nat

VARIABLES
    db,        \* committed rows
    st,        \* rows once the open batch commits, and the Ledger overlay
    inBlock,   \* sessions_used_in_block_
    walk       \* the constituent walk of apply_settlement_mint

ledgerVars == <<db, st, inBlock, walk>>
vars == <<scopeVars, ledgerVars>>

NoCount == -1

Rows == [bal : [Account -> Nat], supply : Nat, used : SUBSET Session,
         plays : [Song -> Nat], disc : [Song -> Maybe],
         pp : SUBSET (Song \X Maybe), songs : SUBSET Song,
         auth : SUBSET Address, us : [Address \X Epoch -> Nat],
         weight : Nat, paid : [Proof -> Nat], earner : [Proof -> Maybe]]

Walk == [open : BOOLEAN, node : Maybe, epoch : Epoch \cup {NoCount},
         todo : SUBSET Proof, credits : [Account -> Nat],
         base : Nat, running : Nat, ord : [Song -> Nat \cup {NoCount}]]

NoWalk == [open |-> FALSE, node |-> NoAddr, epoch |-> NoCount, todo |-> {},
           credits |-> [a \in Account |-> 0], base |-> 0, running |-> 0,
           ord |-> [s \in Song |-> NoCount]]

TypeOK ==
    /\ ScopeTypeOK
    /\ db \in Rows
    /\ st \in Rows
    /\ inBlock \in SUBSET Session
    /\ walk \in Walk

\* The chain as a prefix left it that registered GenesisSongs, authorised
\* GenesisNodes and minted nothing; heights and nonces count from there.
GenesisRows ==
             [bal |-> [a \in Account |-> 0], supply |-> 0, used |-> {},
              plays |-> [s \in Song |-> 0], disc |-> [s \in Song |-> NoAddr],
              pp |-> {}, songs |-> GenesisSongs, auth |-> GenesisNodes,
              us |-> [e \in Address \X Epoch |-> 0], weight |-> 0,
              paid |-> [p \in Proof |-> 0],
              earner |-> [p \in Proof |-> NoAddr]]

Init ==
    /\ ScopeInit
    /\ db = GenesisRows
    /\ st = db
    /\ inBlock = {}
    /\ walk = NoWalk

-----------------------------------------------------------------------------
(***************************************************************************)
(* connect_block up to the first transaction: a song block must carry a    *)
(* song that is not on the chain yet (validate_block); apply_transactions  *)
(* resets the block-scoped staging.                                        *)
(***************************************************************************)
BeginBlock(newSongs) ==
    /\ OpenScope
    /\ newSongs \cap db.songs = {}
    /\ st' = [db EXCEPT !.songs = @ \cup newSongs]
    /\ inBlock' = {}
    /\ UNCHANGED <<db, walk>>

\* The end of connect_block: the batch is written, tip_ moves.
CommitBlock ==
    /\ CommitScope
    /\ ~walk.open
    /\ db' = st
    /\ UNCHANGED <<st, inBlock, walk>>

\* A transaction failed, the state_root gate refused the block, or the apply
\* was a trial.  Staging and overlay keep what they hold until the next block.
DropBlock ==
    /\ DropScope
    /\ ~walk.open
    /\ UNCHANGED ledgerVars

-----------------------------------------------------------------------------
(***************************************************************************)
(* The Ledger's overlay-aware primitives.                                  *)
(***************************************************************************)
credit_many(rows, credits, total) ==
    [rows EXCEPT !.bal = [a \in Account |-> @[a] + credits[a]],
                 !.supply = @ + total]

\* Ledger::transfer: a zero amount and a self-transfer change nothing.
transfer(rows, from, to, amount) ==
    IF amount = 0 \/ from = to THEN rows
    ELSE [rows EXCEPT !.bal[from] = @ - amount, !.bal[to] = @ + amount]

\* Mutant: the debit without decrement_supply.
burn_from_keeping_supply(rows, a, amount) == [rows EXCEPT !.bal[a] = @ - amount]

\* Ledger::debit then decrement_supply, which saturates at zero.
burn_from(rows, a, amount) ==
    [rows EXCEPT !.bal[a] = @ - amount,
                 !.supply = IF @ >= amount THEN @ - amount ELSE 0]

\* Mutant: every play takes the discoverer seat.
update_song_state_every_play(rows, p, before) ==
    [rows EXCEPT !.used = @ \cup {p.session},
                 !.plays[p.song] = before + 1,
                 !.disc[p.song] = p.player,
                 !.pp = @ \cup {<<p.song, p.player>>},
                 !.paid[p] = @ + 1]

(***************************************************************************)
(* What every credited play writes: the u: marker, update_song_state       *)
(* (the whole s: row, from the committed one, and pp:) and, for the        *)
(* history, the play.                                                      *)
(***************************************************************************)
update_song_state(rows, p, before) ==
    [rows EXCEPT !.used = @ \cup {p.session},
                 !.plays[p.song] = before + 1,
                 !.disc[p.song] = IF before = 0 THEN p.player ELSE db.disc[p.song],
                 !.pp = @ \cup {<<p.song, p.player>>},
                 !.paid[p] = @ + 1]

\* Mutant: the session marker is not consulted.
check_play_forgetful(p) == ProofVerifies(p, height + 1)

\* check_play: the proof verifies at this block's height and the session has
\* no committed u: marker.
check_play(p) ==
    /\ ProofVerifies(p, height + 1)
    /\ p.session \notin db.used

-----------------------------------------------------------------------------
apply_transfer(from, to, amount, n) ==
    /\ ~walk.open
    /\ UseNonce(from, n)
    /\ amount = 0 \/ Wallet(from) = to \/ st.bal[Wallet(from)] >= amount
    /\ st' = transfer(st, Wallet(from), to, amount)
    /\ UNCHANGED <<db, inBlock, walk>>

(***************************************************************************)
(* The MINT branch: validate_mint against committed state, the block's own *)
(* session set, the supply cap and the listener's balance in the overlay.  *)
(* The declared outputs and burn are the recomputed ones, since            *)
(* validate_mint refuses any others.                                       *)
(***************************************************************************)
apply_mint(p) ==
    LET before == db.plays[p.song]
        outs   == compute_mint_outputs(p, SongInfo[p.song], before, p.node)
        burn   == BurnFor(before, db.supply)
        total  == OutSum(outs)
        rows   == IF burn > 0 THEN burn_from(st, Wallet(p.player), burn)
                              ELSE st
    IN  /\ ~walk.open
        /\ NoNonceUsed
        /\ check_play(p)
        /\ p.song \in db.songs
        /\ p.session \notin inBlock
        /\ total > 0 => st.supply + total <= SUPPLY_CAP
        /\ burn > 0 => st.bal[Wallet(p.player)] >= burn
        /\ inBlock' = inBlock \cup {p.session}
        /\ st' = [credit_many(update_song_state(rows, p, before),
                              [a \in Account |-> Collects(outs, a)], total)
                    EXCEPT !.weight = @ + 1, !.earner[p] = p.node]
        /\ UNCHANGED <<db, walk>>

apply_relay_reward(issuer, target, amount, n) ==
    /\ ~walk.open
    /\ issuer = Founder
    /\ UseNonce(issuer, n)
    /\ amount > 0 /\ amount <= MAX_UNITS_PER_TX
    /\ st.supply + amount <= SUPPLY_CAP
    /\ st' = [st EXCEPT !.bal[target] = @ + amount, !.supply = @ + amount]
    /\ UNCHANGED <<db, inBlock, walk>>

apply_node_auth(issuer, node, authorize, n) ==
    /\ ~walk.open
    /\ issuer = Founder
    /\ UseNonce(issuer, n)
    /\ st' = [st EXCEPT !.auth = IF authorize THEN @ \cup {node}
                                              ELSE @ \ {node}]
    /\ UNCHANGED <<db, inBlock, walk>>

-----------------------------------------------------------------------------
(***************************************************************************)
(* apply_settlement_mint.  The checks on the transaction and its body; the *)
(* body is a set because a repeated (song, session) pair is refused and    *)
(* the leaves are sorted.  The weight a settlement adds is the number of   *)
(* constituents it DECLARES (count_plays).                                 *)
(***************************************************************************)
CanonicalLess(p, q) ==
    \/ p.song < q.song
    \/ p.song = q.song /\ p.session < q.session

BeginSettlement(node, epoch, body) ==
    /\ ~walk.open
    /\ NoNonceUsed
    /\ node \in db.auth
    /\ body # {} /\ Cardinality(body) <= MAX_CONSTITUENTS_PER_SETTLEMENT
    /\ db.us[<<node, epoch>>] = 0
    /\ \A p, q \in body : p # q => CanonicalLess(p, q) \/ CanonicalLess(q, p)
    /\ walk' = [NoWalk EXCEPT !.open = TRUE, !.node = node, !.epoch = epoch,
                              !.todo = body, !.base = st.supply,
                              !.running = st.supply]
    /\ st' = [st EXCEPT !.weight = @ + Cardinality(body)]
    /\ UNCHANGED <<db, inBlock>>

First(p) == \A q \in walk.todo : p = q \/ CanonicalLess(p, q)

\* Mutant: every leaf reads one more than the committed count.
LeafCount_ahead(p) == db.plays[p.song] + 1

\* song_ord: the play count stepped within this settlement.
LeafCount(p) ==
    IF walk.ord[p.song] = NoCount THEN db.plays[p.song] ELSE walk.ord[p.song]

LeafOutputs(p) ==
    compute_mint_outputs(p, SongInfo[p.song], LeafCount(p), walk.node)

\* Mutant: the cap is tested against the supply the walk started from.
LeafAccepted_base_supply(p) ==
    LET total == OutSum(LeafOutputs(p))
        burn  == BurnFor(LeafCount(p), walk.base)
    IN  /\ check_play(p)
        /\ p.session \notin inBlock
        /\ p.song \in db.songs
        /\ total > 0 => walk.base + total <= SUPPLY_CAP
        /\ burn > 0 => st.bal[Wallet(p.player)] >= burn

\* Mutant: a session another transaction of the block consumed is paid again.
LeafAccepted_reused_session(p) ==
    LET total == OutSum(LeafOutputs(p))
        burn  == BurnFor(LeafCount(p), walk.base)
    IN  /\ check_play(p)
        /\ p.song \in db.songs
        /\ total > 0 => walk.running + total <= SUPPLY_CAP
        /\ burn > 0 => st.bal[Wallet(p.player)] >= burn

\* The tests after which the walk says `continue`, negated.
LeafAccepted(p) ==
    LET total == OutSum(LeafOutputs(p))
        burn  == BurnFor(LeafCount(p), walk.base)
    IN  /\ check_play(p)
        /\ p.session \notin inBlock
        /\ p.song \in db.songs
        /\ total > 0 => walk.running + total <= SUPPLY_CAP
        /\ burn > 0 => st.bal[Wallet(p.player)] >= burn

AcceptLeaf(p) ==
    LET outs == LeafOutputs(p)
    IN  /\ walk.open /\ SameTx
        /\ p \in walk.todo /\ First(p) /\ LeafAccepted(p)
        /\ walk' = [walk EXCEPT !.todo = @ \ {p},
                       !.credits = [a \in Account |-> @[a] + Collects(outs, a)],
                       !.running = @ + OutSum(outs),
                       !.ord[p.song] = LeafCount(p) + 1]
        /\ inBlock' = inBlock \cup {p.session}
        /\ st' = [update_song_state(st, p, LeafCount(p))
                    EXCEPT !.earner[p] = walk.node]
        /\ UNCHANGED db

SkipLeaf(p) ==
    /\ walk.open /\ SameTx
    /\ p \in walk.todo /\ First(p) /\ ~LeafAccepted(p)
    /\ walk' = [walk EXCEPT !.todo = @ \ {p}]
    /\ UNCHANGED <<db, st, inBlock>>

\* credit_many of the aggregated credits, then the us: marker.  The sum of the
\* credits is what the walk added to running_supply.
FinishSettlement ==
    /\ walk.open /\ SameTx
    /\ walk.todo = {}
    /\ st' = [credit_many(st, walk.credits, walk.running - walk.base)
                EXCEPT !.us[<<walk.node, walk.epoch>>] = @ + 1]
    /\ walk' = NoWalk
    /\ UNCHANGED <<db, inBlock>>

-----------------------------------------------------------------------------
Begin == \E newSongs \in {{}} \cup {{s} : s \in Song} : BeginBlock(newSongs)

Transfer == \E from \in Address, to \in Account, amount \in Amount,
               n \in Nonces : apply_transfer(from, to, amount, n)

Mint == \E p \in Proof : apply_mint(p)

RelayReward == \E i \in Address, t \in {Wallet(a) : a \in Address},
                  amount \in Amount, n \in Nonces :
                    apply_relay_reward(i, t, amount, n)

NodeAuth == \E i, node \in Address, authorize \in BOOLEAN,
               n \in Nonces : apply_node_auth(i, node, authorize, n)

Settle == \E node \in Address, e \in Epoch, body \in SUBSET Proof :
             BeginSettlement(node, e, body)

Leaf == \E p \in Proof : AcceptLeaf(p) \/ SkipLeaf(p)

Wait == Idle /\ UNCHANGED ledgerVars

Next ==
    \/ Begin
    \/ CommitBlock
    \/ DropBlock
    \/ Transfer
    \/ Mint
    \/ RelayReward
    \/ NodeAuth
    \/ Settle
    \/ Leaf
    \/ FinishSettlement
    \/ Wait

Spec == Init /\ [][Next]_vars

-----------------------------------------------------------------------------
(***************************************************************************)
(* The supply counter is the sum of the balances: no credit is lost when   *)
(* several outputs, transactions or settlement leaves of one block touch   *)
(* one account, and every burn leaves both sides (Ledger::credit_many,     *)
(* transfer, debit, decrement_supply over the shared overlay).             *)
(***************************************************************************)
Balanced(rows) == rows.supply = SumFunction(rows.bal)

LedgerBalanced == Balanced(db)

(***************************************************************************)
(* No block takes the supply past SUPPLY_CAP, although a MINT tests the    *)
(* cap against the overlay, a settlement against a private running supply, *)
(* and a burn is computed from the committed one (apply_mint,              *)
(* apply_relay_reward, apply_settlement_mint).                             *)
(***************************************************************************)
SupplyCapped == db.supply <= SUPPLY_CAP

(***************************************************************************)
(* A session is paid at most once, whichever MINTs and settlements of one  *)
(* block or of several carry proofs of it, and it is paid exactly when its *)
(* u: marker is on the chain (check_play, sessions_used_in_block_).        *)
(***************************************************************************)
PaidOnce(rows) ==
    /\ \A p \in Proof : rows.paid[p] <= 1
    /\ \A p, q \in Proof :
          rows.paid[p] > 0 /\ rows.paid[q] > 0 /\ p.session = q.session
            => p = q
    /\ \A p \in Proof : rows.paid[p] > 0 => p.session \in rows.used
    /\ \A s \in rows.used : \E p \in Proof : p.session = s /\ rows.paid[p] > 0

SessionPaidOnce == PaidOnce(db)

\* How many plays of a song have been credited.
PaidFor(rows, s) == {p \in Proof : p.song = s /\ rows.paid[p] > 0}

PlaysPaid(s) == Cardinality(PaidFor(db, s))

(***************************************************************************)
(* The play count, which chooses the reward tier and the burn, moves       *)
(* forward whenever a play of the song is credited, and never runs ahead   *)
(* of the plays credited: a later MINT of a block overwrites the count a   *)
(* settlement stepped, but not below committed + 1 (update_song_state).    *)
(***************************************************************************)
CountsBounded(rows) ==
    \A s \in Song :
        /\ rows.plays[s] <= Cardinality(PaidFor(rows, s))
        /\ PaidFor(rows, s) # {} => rows.plays[s] > 0

PlayCountBounded == CountsBounded(db)

(***************************************************************************)
(* Once a block has committed a song's first credited play, the discoverer *)
(* seat stays as that block left it, empty or not: no later play takes it, *)
(* and none empties it (update_song_state rewrites the whole row, and its  *)
(* play_count_before == 0 test reads a count that the walk has stepped).   *)
(***************************************************************************)
DiscovererFinal ==
    [][\A s \in Song : db.plays[s] > 0 => db'.disc[s] = db.disc[s]]_db

(***************************************************************************)
(* The inductive invariant behind every property above.  StagedInv: what   *)
(* the open block has staged keeps the cap, the sessions and the seats,    *)
(* the sessions the block consumed are exactly the u: rows it added, and   *)
(* the walk's private supply stands between the overlay's and the cap.     *)
(* BooksInv: the staged rows balance and count as the committed ones do,   *)
(* what the walk holds back is what its private supply is ahead by, and a  *)
(* stepped count is behind the plays paid so far.                          *)
(***************************************************************************)
SupplyInv ==
    /\ SupplyCapped
    /\ applying => st.supply <= SUPPLY_CAP

SessionInv ==
    /\ SessionPaidOnce
    /\ applying => PaidOnce(st) /\ st.used = db.used \cup inBlock

DiscInv ==
    applying => \A s \in Song : db.plays[s] > 0 =>
                    st.disc[s] = db.disc[s] /\ st.plays[s] > 0

WalkInv ==
    /\ \A s \in Song : walk.ord[s] # 0
    /\ walk.open =>
          /\ applying
          /\ walk.node \in Address /\ walk.epoch \in Epoch
          /\ walk.base = st.supply
          /\ walk.base <= walk.running /\ walk.running <= SUPPLY_CAP

StagedInv == TypeOK /\ ScopeInv /\ SupplyInv /\ SessionInv /\ DiscInv /\ WalkInv

BalanceInv ==
    /\ LedgerBalanced
    /\ applying => Balanced(st)
    /\ walk.open => walk.running = walk.base + SumFunction(walk.credits)

CountInv ==
    /\ PlayCountBounded
    /\ applying => /\ CountsBounded(st)
                   /\ \A p \in Proof : db.paid[p] > 0 => st.paid[p] > 0
    /\ walk.open =>
          \A s \in Song : walk.ord[s] <= Cardinality(PaidFor(st, s))

BooksInv == BalanceInv /\ CountInv

LedgerInv == StagedInv /\ BooksInv

-----------------------------------------------------------------------------
(***************************************************************************)
(* The claims of comments and documents that the code does not keep.       *)
(***************************************************************************)

(***************************************************************************)
(* Every credited play is counted: "play_count++" in apply_mint and in     *)
(* apply_settlement_mint.                                                  *)
(***************************************************************************)
EveryPlayCounted == \A s \in Song : db.plays[s] = PlaysPaid(s)

(***************************************************************************)
(* A song that was played has a discoverer: "discoverer on first play"     *)
(* (apply_mint).                                                           *)
(***************************************************************************)
PlayedHasDiscoverer == \A s \in Song : db.plays[s] > 0 => db.disc[s] # NoAddr

(***************************************************************************)
(* Fork weight counts verified constituents only (the comment on           *)
(* MAX_CONSTITUENTS_PER_SETTLEMENT in chain.h).                            *)
(***************************************************************************)
WeightIsVerifiedPlays ==
    db.weight = Cardinality({p \in Proof : db.paid[p] > 0})

(***************************************************************************)
(* A node settles an epoch at most once (apply_settlement_mint's epoch     *)
(* replay guard).                                                          *)
(***************************************************************************)
EpochSettledOnce == \A e \in Address \X Epoch : db.us[e] <= 1

(***************************************************************************)
(* The node that signed the proof is the node that earns the node lane     *)
(* (recompute_mint).                                                       *)
(***************************************************************************)
SignerEarnsNodeLane == \A p \in Proof : db.paid[p] > 0 => db.earner[p] = p.node
=============================================================================
