------------------------------ MODULE Producer ------------------------------
(***************************************************************************)
(* The block producer of one node: CandidateManager::heartbeat_loop, fed   *)
(* by RatsApi's two mempools and racing with blocks that arrive from peers.*)
(*                                                                         *)
(* heartbeat_loop takes Chain::mu_ anew for each trial, build and commit,  *)
(* so a pass is a chain of steps, phase being its program counter, and a   *)
(* peer's block, a submission or a restart may fall between any two.  The  *)
(* wait at the head of the loop ends on a signal or after 30 seconds, so   *)
(* it is no step of its own.                                               *)
(*                                                                         *)
(* Simplifications: song ids are ordered like content hashes; a            *)
(* transaction applies when its nonce is the next one of its sender and    *)
(* what it Requires has landed, unless it is Poison (no funds, no          *)
(* authority); all transactions have one size, so the byte budget is       *)
(* MAX_TXS_PER_BLOCK; stamps are not in the future.                        *)
(***************************************************************************)
EXTENDS Integers, FiniteSets, Functions

CONSTANTS
    Song,           \* positive numbers, in content-hash order
    Alike,          \* {s, t}: encodings of one song by the fuzzy verdict
    Tx,             \* transactions that pass the structural pre-flight
    Poison, Requires,
    PROPAGATION_WINDOW_MS, MAX_TXS_PER_SENDER_PER_BLOCK, MAX_TXS_PER_BLOCK,
    MAX_RETRIES,    \* 3
    MaxTime, MaxPeerBlocks, MaxRestarts

NoSong == 0

\* sender is 0 for a MINT.  "system" stands for SETTLEMENT_MINT, NODE_AUTH and
\* CHECKPOINT, "metered" for the transactions users sign.
Kind == {"metered", "mint", "reward", "system"}
TxShape == [sender : Nat, nonce : Nat, hash : Nat, kind : Kind]

ASSUME ProducerAssumption ==
    /\ Song \subseteq Nat \ {NoSong}
    /\ Alike \subseteq SUBSET Song
    /\ Tx \subseteq TxShape
    /\ Poison \subseteq Tx
    /\ Requires \in [Tx -> SUBSET Tx]
    /\ PROPAGATION_WINDOW_MS \in Nat \ {0}
    /\ MAX_TXS_PER_SENDER_PER_BLOCK \in Nat /\ MAX_TXS_PER_BLOCK \in Nat
    /\ MAX_RETRIES \in Nat \ {0}
    /\ MaxTime \in Nat /\ MaxPeerBlocks \in Nat /\ MaxRestarts \in Nat

\* Every MINT carries sender zero and nobody signs as zero; tx_hash is unique.
ASSUME TotalOrderAssumption ==
    /\ \A t \in Tx : t.sender = 0 <=> t.kind = "mint"
    /\ \A t, u \in Tx :
          t.sender = u.sender /\ t.nonce = u.nonce /\ t.hash = u.hash => t = u

VARIABLES
    now,
    mempool,        \* p: and pt: rows: transaction -> submit_ms
    sp,             \* sp: rows: song -> submit_ms
    arriving,       \* ingest_fpsubmit between its sp: row and its enqueue
    songs,          \* pending_songs_: song -> submit, retries
    landed, catalog, height,            \* the chain
    phase, at, reg, reg_ms, included, prev,   \* locals of heartbeat_loop
    peers, restarts,                    \* how many of each there were
    hist            \* history, see HistInit

chainVars == <<landed, catalog, height>>
poolVars == <<mempool, sp, arriving>>
localVars == <<phase, at, reg, reg_ms, included, prev>>
boundVars == <<peers, restarts>>
vars == <<now, poolVars, songs, chainVars, localVars, boundVars, hist>>

Registration == [submit : Nat, retries : 0..MAX_RETRIES]
Phases == {"wait", "assemble", "gate", "build", "commit", "failed"}

\* offered: transactions inside the boundary of this pass and not deleted;
\* queued, avoidable, unknown: transactions deleted although all they have to
\* follow was in the mempool, or in this pass, and as of unknown type;
\* races: per song, blocks of peers that came between build and commit.
HistInit == [offered |-> {}, queued |-> {}, avoidable |-> {}, unknown |-> {},
             races |-> [s \in Song |-> 0]]

PartialFunctions(S, T) == UNION {[D -> T] : D \in SUBSET S}
Put(f, k, v) == [x \in DOMAIN f \cup {k} |-> IF x = k THEN v ELSE f[x]]
Drop(f, S) == Restrict(f, DOMAIN f \ S)

TypeOK ==
    /\ now \in 0..MaxTime
    /\ mempool \in PartialFunctions(Tx, 0..MaxTime)
    /\ sp \in PartialFunctions(Song, 0..MaxTime)
    /\ arriving \in SUBSET (Song \X (0..MaxTime))
    /\ DOMAIN songs \subseteq Song
    /\ \A s \in DOMAIN songs : songs[s] \in Registration
    /\ landed \subseteq Tx /\ catalog \subseteq Song /\ height \in Nat
    /\ phase \in Phases /\ at \in 0..MaxTime
    /\ reg \in Song \cup {NoSong} /\ reg_ms \in 0..MaxTime
    /\ included \subseteq {t \in Tx : t.kind # "system"} /\ prev \in 0..height
    /\ peers \in 0..MaxPeerBlocks /\ restarts \in 0..MaxRestarts

Init ==
    /\ now = 0
    /\ mempool = <<>> /\ sp = <<>> /\ arriving = {} /\ songs = <<>>
    /\ landed = {} /\ catalog = {} /\ height = 0
    /\ phase = "wait" /\ at = 0 /\ reg = NoSong /\ reg_ms = 0
    /\ included = {} /\ prev = 0
    /\ peers = 0 /\ restarts = 0
    /\ hist = HistInit

-----------------------------------------------------------------------------
(***************************************************************************)
(* What the chain says of a song and of a list of transactions.            *)
(***************************************************************************)

\* Mutant: only the exact index is consulted.
song_on_chain_exact(s) == s \in catalog

song_on_chain(s) == \E c \in catalog : c = s \/ {c, s} \in Alike

\* The (sender, nonce, tx_hash) order of a block body.
Before(t, u) ==
    \/ t.sender < u.sender
    \/ t.sender = u.sender /\ t.nonce < u.nonce
    \/ t.sender = u.sender /\ t.nonce = u.nonce /\ t.hash < u.hash

Earlier(t, body) == {u \in body : Before(u, t)}
UpTo(t, body) == Earlier(t, body) \cup {t}
From(t, body) == {u \in body : u.sender = t.sender}

\* t applies after the transactions of body before it, if those apply.
Applies(t, body) ==
    LET before == landed \cup Earlier(t, body)
    IN  /\ t \notin Poison /\ t \notin landed
        /\ t.kind # "mint" => t.nonce = Cardinality(From(t, before))
        /\ Requires[t] \subseteq before

\* The transaction first_unappliable_tx points at, as a set.
FirstUnappliable(body) ==
    {t \in body : ~Applies(t, body)
                  /\ \A u \in Earlier(t, body) : Applies(u, body)}

-----------------------------------------------------------------------------
(***************************************************************************)
(* The mempools: ingest_tx, ingest_fpsubmit and its enqueue_registration.  *)
(* Both keep the smaller stamp.                                            *)
(***************************************************************************)
ingest_tx(t, ms) ==
    /\ ms <= now
    /\ t \in DOMAIN mempool => ms < mempool[t]
    /\ mempool' = Put(mempool, t, ms)
    /\ UNCHANGED <<now, sp, arriving, songs, chainVars, localVars, boundVars,
                   hist>>

ingest_fpsubmit(s, ms) ==
    /\ ms <= now /\ ms + PROPAGATION_WINDOW_MS <= MaxTime
    /\ arriving = {}
    /\ ~song_on_chain(s)
    /\ s \in DOMAIN sp => ms < sp[s]
    /\ sp' = Put(sp, s, ms)
    /\ arriving' = {<<s, ms>>}
    /\ UNCHANGED <<now, mempool, songs, chainVars, localVars, boundVars, hist>>

\* A stale row of a song that has landed is pruned by the next submission.
RefuseLanded(s) ==
    /\ arriving = {}
    /\ song_on_chain(s)
    /\ s \in DOMAIN sp
    /\ sp' = Drop(sp, {s})
    /\ UNCHANGED <<now, mempool, arriving, songs, chainVars, localVars,
                   boundVars, hist>>

enqueue_registration ==
    \E r \in arriving :
       /\ songs' = Put(songs, r[1], [submit |-> r[2], retries |-> 0])
       /\ arriving' = {}
       /\ UNCHANGED <<now, mempool, sp, chainVars, localVars, boundVars, hist>>

-----------------------------------------------------------------------------
(***************************************************************************)
(* One pass of heartbeat_loop.                                             *)
(***************************************************************************)
Mature(ms, clock) == clock - ms >= PROPAGATION_WINDOW_MS

Selectable(clock) ==
    {s \in DOMAIN songs : songs[s].retries < MAX_RETRIES
                          /\ Mature(songs[s].submit, clock)}

\* The lowest mature song that is not on chain.
SelectSong(clock) ==
    LET open == {s \in Selectable(clock) : ~song_on_chain(s)}
    IN  IF open = {} THEN NoSong
        ELSE CHOOSE s \in open : \A u \in open : s <= u

\* The selection scan, which prunes the landed songs it walks past.
Scan ==
    LET s      == SelectSong(now)
        pruned == {u \in Selectable(now) :
                     song_on_chain(u) /\ (s # NoSong => u < s)}
    IN  /\ phase = "wait"
        /\ phase' = "assemble"
        /\ at' = now
        /\ reg' = s
        /\ reg_ms' = IF s = NoSong THEN 0 ELSE songs[s].submit
        /\ songs' = Drop(songs, pruned)
        /\ sp' = Drop(sp, pruned)
        /\ UNCHANGED <<now, mempool, arriving, chainVars, included, prev,
                       boundVars, hist>>

\* Mutant: the verdict of the pre-flight is forgotten.
InBoundary_unchecked ==
    {t \in DOMAIN mempool :
       IF reg # NoSong THEN mempool[t] <= reg_ms ELSE Mature(mempool[t], at)}

\* Transactions inside the boundary: up to the song's stamp, or mature.
InBoundary ==
    {t \in DOMAIN mempool :
       /\ t.kind # "system"
       /\ IF reg # NoSong THEN mempool[t] <= reg_ms ELSE Mature(mempool[t], at)}

\* Mutant: the cap skips the metered transactions above it and keeps the rest.
SenderCapped_holes(body) ==
    {t \in body : t.kind = "metered" =>
       Cardinality({u \in UpTo(t, From(t, body)) : u.kind = "metered"})
          <= MAX_TXS_PER_SENDER_PER_BLOCK}

\* Past its cap a sender's whole tail waits, exempt transactions included.
SenderCapped(body) ==
    {t \in body :
       Cardinality({u \in UpTo(t, From(t, body)) : u.kind = "metered"})
          <= MAX_TXS_PER_SENDER_PER_BLOCK}

TakePrefix(body) ==
    {t \in body : Cardinality(UpTo(t, body)) <= MAX_TXS_PER_BLOCK}

\* Pre-flight, which deletes what it does not know, boundary and caps.
Assemble ==
    LET unknown == {t \in DOMAIN mempool : t.kind = "system"}
    IN  /\ phase = "assemble"
        /\ phase' = "gate"
        /\ mempool' = Drop(mempool, unknown)
        /\ included' = TakePrefix(SenderCapped(InBoundary))
        /\ hist' = [hist EXCEPT !.offered = InBoundary,
                                !.unknown = @ \cup unknown]
        /\ UNCHANGED <<now, sp, arriving, songs, chainVars, at, reg, reg_ms,
                       prev, boundVars>>

\* A transaction that is not poison and whose nonce is still to come.
StillValid(t) ==
    /\ t \notin Poison /\ t \notin landed
    /\ t.kind # "mint" => t.nonce >= Cardinality(From(t, landed))

\* pool holds t and all that t has to follow, and nothing that may take its place.
InRun(t, pool) ==
    LET good   == {u \in pool : StillValid(u) /\ Requires[u] \subseteq landed}
        rivals == {u \in From(t, pool) :
                     StillValid(u) /\ Requires[u] \subseteq landed \cup Earlier(u, pool)}
    IN  /\ t \in good
        /\ t.kind # "mint" =>
              /\ \A u \in rivals : u.nonce = t.nonce => u = t
              /\ \A n \in Cardinality(From(t, landed))..(t.nonce - 1) :
                    \E u \in From(t, good) : u.nonce = n

Delete(t) ==
    /\ mempool' = Drop(mempool, {t})
    /\ hist' = [hist EXCEPT
                  !.offered = @ \ {t},
                  !.queued = IF InRun(t, DOMAIN mempool) THEN @ \cup {t} ELSE @,
                  !.avoidable = IF InRun(t, hist.offered) THEN @ \cup {t} ELSE @]

\* The applicability gate: one trial of the body under the chain's lock.
Gate ==
    /\ phase = "gate"
    /\ \E t \in FirstUnappliable(included) :
          included' = included \ {t} /\ Delete(t)
    /\ UNCHANGED <<now, sp, arriving, songs, chainVars, phase, at, reg, reg_ms,
                   prev, boundVars>>

GateClean ==
    /\ phase = "gate"
    /\ FirstUnappliable(included) = {}
    /\ phase' = IF reg = NoSong /\ included = {} THEN "wait" ELSE "build"
    /\ UNCHANGED <<now, poolVars, songs, chainVars, at, reg, reg_ms, included,
                   prev, boundVars, hist>>

Build ==
    /\ phase = "build"
    /\ phase' = "commit"
    /\ prev' = height
    /\ UNCHANGED <<now, poolVars, songs, chainVars, at, reg, reg_ms, included,
                   boundVars, hist>>

\* What connect_block checks of a block on top of prev_hash parent.
Connects(parent, s, body) ==
    /\ parent = height
    /\ s # NoSong => ~song_on_chain(s)
    /\ FirstUnappliable(body) = {}

\* What its batch writes.
Connect(s, body) ==
    /\ landed' = landed \cup body
    /\ catalog' = catalog \cup ({s} \ {NoSong})
    /\ height' = height + 1
    /\ mempool' = Drop(mempool, body)
    /\ sp' = Drop(sp, {s})

commit_block ==
    /\ phase = "commit"
    /\ Connects(prev, reg, included)
    /\ Connect(reg, included)
    /\ songs' = Drop(songs, {reg})
    /\ phase' = "wait"
    /\ UNCHANGED <<now, arriving, at, reg, reg_ms, included, prev, boundVars,
                   hist>>

CommitRejected ==
    /\ phase = "commit"
    /\ ~Connects(prev, reg, included)
    /\ phase' = "failed"
    /\ hist' = [hist EXCEPT !.races =
                  [s \in Song |-> IF s = reg /\ prev # height
                                  THEN @[s] + 1 ELSE @[s]]]
    /\ UNCHANGED <<now, poolVars, songs, chainVars, at, reg, reg_ms, included,
                   prev, boundVars>>

\* The backstop: a transaction at fault is evicted and the song is spared.
EvictPoison ==
    /\ phase = "failed"
    /\ \E t \in FirstUnappliable(included) : Delete(t)
    /\ phase' = "wait"
    /\ UNCHANGED <<now, sp, arriving, songs, chainVars, at, reg, reg_ms,
                   included, prev, boundVars>>

\* One more retry for the song; it is dropped when landed or out of retries.
Retry ==
    LET tries == songs[reg].retries + 1
        gone  == song_on_chain(reg) \/ tries >= MAX_RETRIES
    IN  IF reg \notin DOMAIN songs THEN UNCHANGED <<songs, sp>>
        ELSE IF gone THEN songs' = Drop(songs, {reg}) /\ sp' = Drop(sp, {reg})
        ELSE songs' = [songs EXCEPT ![reg].retries = tries] /\ UNCHANGED sp

\* Mutant: the song pays for a transaction that went stale.
Penalize_always ==
    /\ phase = "failed"
    /\ Retry
    /\ phase' = "wait"
    /\ UNCHANGED <<now, mempool, arriving, chainVars, at, reg, reg_ms, included,
                   prev, boundVars, hist>>

Penalize ==
    /\ phase = "failed"
    /\ FirstUnappliable(included) = {}
    /\ Retry
    /\ phase' = "wait"
    /\ UNCHANGED <<now, mempool, arriving, chainVars, at, reg, reg_ms, included,
                   prev, boundVars, hist>>

-----------------------------------------------------------------------------
\* A block of a peer, connected on the network thread; one transaction is
\* enough to make those of this node stale.
PeerBlock(s, body) ==
    /\ peers < MaxPeerBlocks
    /\ s # NoSong \/ body # {}
    /\ Connects(height, s, body)
    /\ Connect(s, body)
    /\ peers' = peers + 1
    /\ UNCHANGED <<now, arriving, songs, localVars, restarts, hist>>

\* Mutant: the buffer is not refilled.
Restart_empty ==
    /\ restarts < MaxRestarts
    /\ restarts' = restarts + 1
    /\ songs' = <<>>
    /\ arriving' = {}
    /\ phase' = "wait" /\ at' = 0 /\ reg' = NoSong /\ reg_ms' = 0
    /\ included' = {} /\ prev' = 0
    /\ UNCHANGED <<now, mempool, sp, chainVars, peers, hist>>

\* The process stops anywhere; load_pending_songs_from_db_ refills the buffer.
Restart ==
    LET kept == {s \in DOMAIN sp : ~song_on_chain(s)}
    IN  /\ restarts < MaxRestarts
        /\ restarts' = restarts + 1
        /\ sp' = Restrict(sp, kept)
        /\ songs' = [s \in kept |-> [submit |-> sp[s], retries |-> 0]]
        /\ arriving' = {}
        /\ phase' = "wait" /\ at' = 0 /\ reg' = NoSong /\ reg_ms' = 0
        /\ included' = {} /\ prev' = 0
        /\ UNCHANGED <<now, mempool, chainVars, peers, hist>>

Tick ==
    /\ now < MaxTime
    /\ now' = now + 1
    /\ UNCHANGED <<poolVars, songs, chainVars, localVars, boundVars, hist>>

Pass ==
    \/ Scan \/ Assemble \/ Gate \/ GateClean \/ Build \/ commit_block
    \/ CommitRejected \/ EvictPoison \/ Penalize

Next ==
    \/ Pass
    \/ \E ms \in 0..MaxTime :
          \/ \E t \in Tx : ingest_tx(t, ms)
          \/ \E s \in Song : ingest_fpsubmit(s, ms)
    \/ \E s \in Song : RefuseLanded(s)
    \/ enqueue_registration
    \/ \E s \in Song \cup {NoSong} :
          \E body \in {{}} \cup {{t} : t \in {u \in Tx : u.kind # "system"}} :
             PeerBlock(s, body)
    \/ Restart
    \/ Tick

\* The producer thread and the callback that submitted a song keep running,
\* and time passes: heartbeat_loop blocks on nothing but a timed wait.
Fairness == WF_vars(Pass) /\ WF_vars(enqueue_registration) /\ WF_vars(Tick)

Spec == Init /\ [][Next]_vars

FairSpec == Spec /\ Fairness

-----------------------------------------------------------------------------
(***************************************************************************)
(* One song once: no two encodings of one song are on the chain, whichever *)
(* of this node and its peers registered them and however their steps      *)
(* interleaved (song_on_chain, asked again by connect_block).              *)
(***************************************************************************)
OneSongOnce == \A s, t \in catalog : s # t => {s, t} \notin Alike

(***************************************************************************)
(* A song is charged a retry only for a block of a peer that came between  *)
(* the build and the commit of its block: poison, and transactions that    *)
(* went stale under the producer, are never charged to it (the backstop of *)
(* heartbeat_loop).                                                        *)
(***************************************************************************)
RetriesAreRaces ==
    \A s \in DOMAIN songs : songs[s].retries <= hist.races[s]

(***************************************************************************)
(* The caps never cost a transaction its life: the gate deletes none whose *)
(* whole run of nonces was inside the boundary of that pass (the tail rule *)
(* of the per-sender cap).                                                 *)
(***************************************************************************)
CapsSpareTails == hist.avoidable = {}

(***************************************************************************)
(* A submitted song lands, itself or another encoding of it, as long as    *)
(* peers win fewer than MAX_RETRIES races: poison in the mempool,          *)
(* restarts, earlier songs and duplicates only delay it.                   *)
(***************************************************************************)
SongLands == \A s \in Song : s \in DOMAIN sp ~> song_on_chain(s)

(***************************************************************************)
(* The claims of comments that the code does not keep.                     *)
(***************************************************************************)

\* "only genuine poison is dropped" by the gate: not a transaction whose whole
\* run of nonces waits in the mempool.
OnlyPoisonDropped == hist.queued = {}

\* Settlements, node authorisations and checkpoints are "reward throughput",
\* exempt from the sender cap: the producer does not delete them.
SystemIssuanceKept == hist.unknown = {}

\* "now only decides WHEN this node mints, never WHAT": for one state of chain
\* and mempool, any two moments that select a song select the same one.
SelectionClockFree ==
    \A t1, t2 \in 0..MaxTime :
       NoSong \notin {SelectSong(t1), SelectSong(t2)} =>
          SelectSong(t1) = SelectSong(t2)

\* "a restart re-derives the identical build set" from the sp: rows.
RestartRederives ==
    \A s \in DOMAIN songs : s \in DOMAIN sp \/ song_on_chain(s)
=============================================================================
