------------------------------ MODULE Transfer ------------------------------
(***************************************************************************)
(* The player's download of one song: PieceDownloader.run with its worker  *)
(* pool, its .partial, .bitmap and .meta files and its policy for sources, *)
(* over fetchRange of RatsClient, _tryPieceDownload as the caller and      *)
(* swarm.fetch of the player server at the other end.                      *)
(*                                                                         *)
(* Workers share one isolate: what runs between two awaits is one action.  *)
(* The process may die at any await; flushed bytes survive.                *)
(*                                                                         *)
(* Simplifications: sizes are counted in pieces; the bytes of a piece are  *)
(* the song's ("good"), another's ("bad") or what truncate() leaves        *)
(* ("zero"), one choice for a reply; the round-robin cursor of _nextSource *)
(* is a free choice among the sources it would not skip; chunks, pacing    *)
(* and the relay hop appear as what fetchRange makes of them: an answer,   *)
(* an RPC error, or an exception of another kind.                          *)
(***************************************************************************)
EXTENDS Integers, Sequences, FiniteSets, FiniteSetsExt

CONSTANTS
    Source,             \* keys of PeerSource
    Seeded, Dht,        \* those the full node names, and those findSources does
    Liar,               \* the sources that may send other bytes, or whose copy is cut
    Claim,              \* what a source's replies may name as total_size
    Size,               \* of the song
    Worker,
    maxWorkers, fetchPieces, perPeerRetryCap,
    kPerSeederWindow,
    MaxBare,            \* bound: runs without a manifest from the full node
    MaxFaults           \* bound: crashes and refused writes

Main == "run"               \* run() itself, which writes the probed piece

ASSUME TransferAssumption ==
    /\ Liar \subseteq Source /\ Seeded \subseteq Source /\ Dht \subseteq Source
    /\ Size \in Nat \ {0}
    /\ Claim \in [Source -> SUBSET (Nat \ {0})]
    /\ \A s \in Source \ Liar : Claim[s] = {Size}
    /\ IsFiniteSet(Worker) /\ Cardinality(Worker) = maxWorkers
    /\ Main \notin Worker
    /\ {fetchPieces, perPeerRetryCap, kPerSeederWindow} \subseteq Nat \ {0}

VARIABLES
    partial,    \* the .partial file, <<>> when there is none
    bitmapFile, \* the .bitmap file, <<>> when there is none
    meta,       \* total_size in the .meta file, 0 when there is none
    final,      \* finalCachePath: "none", "good" or "bad"
    phase,      \* where run() is
    manifest,   \* this run has a PieceManifest
    total,      \* _totalSize, 0 while unknown
    bitmap,     \* _bitmap
    claimed,    \* _claimedPieces
    pool,       \* _sources
    unprobed,   \* what the probe has still to walk
    walked,     \* the length of _sources when the probe began to walk it
    errors, banned, cooling,    \* _perPeerErrors, _bannedPeers, _cooldownUntil
    terminal,   \* _terminalError
    worker,     \* the futures of _worker
    flows,      \* _flows of SeederFlows
    unsent,     \* for observation: what replies of this run left out of their range
    bare, faults

disk == <<partial, bitmapFile, meta, final>>
peers == <<pool, errors, banned, cooling, flows>>
search == <<unprobed, walked>>
bounds == <<bare, faults>>
transferVars == <<disk, phase, manifest, total, bitmap, claimed, search,
                  terminal, worker, peers, unsent, bounds>>

Byte == {"zero", "good", "bad"}
Phases == {"idle", "open", "probe", "next", "probed", "work", "verify",
           "wipe_bitmap", "wipe_meta"}
Pcs == {"loop", "fetch", "write", "bit", "refill", "done"}

Nobody == "none"
Thread == Worker \cup {Main}
Gone == [pc |-> "done", src |-> Nobody, range |-> {}, got |-> <<>>]
Fresh == [Gone EXCEPT !.pc = "loop"]

TransferTypeOK ==
    /\ partial \in Seq(Byte) /\ bitmapFile \in Seq(BOOLEAN)
    /\ bitmap \in Seq(BOOLEAN) /\ meta \in Nat /\ total \in Nat
    /\ final \in {"none", "good", "bad"}
    /\ phase \in Phases /\ manifest \in BOOLEAN /\ terminal \in BOOLEAN
    /\ claimed \subseteq Nat /\ unsent \subseteq Nat
    /\ walked \in Nat
    /\ pool \subseteq Source /\ unprobed \subseteq Source
    /\ banned \subseteq Source /\ cooling \subseteq Source
    /\ errors \in [Source -> Nat]
    /\ flows \in [Source -> Nat]
    /\ \A w \in Thread : /\ worker[w].pc \in Pcs
                         /\ worker[w].src \in Source \cup {Nobody}
                         /\ worker[w].range \subseteq Nat

TransferInit ==
    /\ partial = <<>> /\ bitmapFile = <<>> /\ meta = 0 /\ final = "none"
    /\ phase = "idle" /\ manifest = FALSE /\ total = 0 /\ bitmap = <<>>
    /\ claimed = {} /\ pool = {} /\ unprobed = {} /\ walked = 0
    /\ unsent = {}
    /\ errors = [s \in Source |-> 0] /\ banned = {} /\ cooling = {}
    /\ terminal = FALSE /\ worker = [w \in Thread |-> Gone]
    /\ flows = [s \in Source |-> 0]
    /\ bare = 0 /\ faults = 0

-----------------------------------------------------------------------------
Pieces == 1..Len(bitmap)
Missing == {p \in Pieces : ~ bitmap[p]}
isComplete == Len(bitmap) > 0 /\ Missing = {}

\* A well-formed manifest covers this download.
manifestActive == manifest /\ total = Size

\* What a run leaves when it returns or throws, and what a crash leaves.
Forget ==
    /\ phase' = "idle" /\ manifest' = FALSE /\ total' = 0 /\ bitmap' = <<>>
    /\ claimed' = {} /\ pool' = {} /\ unprobed' = {} /\ walked' = 0
    /\ unsent' = {}
    /\ errors' = [s \in Source |-> 0] /\ banned' = {} /\ cooling' = {}
    /\ terminal' = FALSE /\ worker' = [w \in Thread |-> Gone]
    /\ flows' = [s \in Source |-> 0]

\* A stall: a ban if another source is left, else a cooldown.
markPeerError(s) ==
    LET count == errors[s] + 1
        otherUsable == \E o \in pool \ {s} : o \notin banned
    IN  CASE count < perPeerRetryCap ->
                /\ errors' = [errors EXCEPT ![s] = count]
                /\ UNCHANGED <<pool, banned, cooling>>
          [] count >= perPeerRetryCap /\ ~ otherUsable ->
                /\ errors' = [errors EXCEPT ![s] = 0]
                /\ cooling' = cooling \cup {s}
                /\ UNCHANGED <<pool, banned>>
          [] OTHER ->
                /\ errors' = [errors EXCEPT ![s] = count]
                /\ banned' = banned \cup {s} /\ pool' = pool \ {s}
                /\ UNCHANGED cooling

Ban(s) ==
    /\ banned' = banned \cup {s}
    /\ UNCHANGED <<pool, errors, cooling>>

-----------------------------------------------------------------------------
(***************************************************************************)
(* run(): resume, size, files.                                             *)
(***************************************************************************)

\* _tryPieceDownload starts a run: _loadMeta, the seeds, the manifest's size.
\* Without seeds the DHT is asked first; without either nothing starts.
Run ==
    /\ phase = "idle" /\ final = "none" /\ Seeded \cup Dht # {}
    /\ \E mf \in BOOLEAN :
          /\ mf \/ bare < MaxBare
          /\ manifest' = mf
          /\ bare' = IF mf THEN bare ELSE bare + 1
          /\ total' = IF meta # 0 THEN meta ELSE IF mf THEN Size ELSE 0
    /\ pool' = IF Seeded # {} THEN Seeded ELSE Dht
    /\ IF total' # 0
       THEN phase' = "open" /\ UNCHANGED <<unprobed, walked>>
       ELSE phase' = "probe" /\ unprobed' = pool' /\ walked' = Cardinality(pool')
    /\ UNCHANGED <<disk, bitmap, claimed, errors, banned, cooling, flows, unsent,
                   terminal, worker, faults>>

\* The answer of the findSources that a seeded run does not wait for. No await
\* lies between a failed probe and the next source.
TopUp ==
    /\ phase \notin {"idle", "next"} /\ Seeded # {} /\ ~ Dht \subseteq pool
    /\ pool' = pool \cup Dht
    /\ UNCHANGED <<disk, phase, manifest, total, bitmap, claimed, search, unsent,
                   terminal, worker, errors, banned, cooling, flows, bounds>>

\* _openPartialAndBitmap: the partial file is created or grown, never cut; a
\* bitmap of another length is replaced.
Grown(n) == [p \in 1..(IF Len(partial) < n THEN n ELSE Len(partial)) |->
                IF p <= Len(partial) THEN partial[p] ELSE "zero"]
Sized(n) == IF Len(bitmapFile) = n THEN bitmapFile ELSE [p \in 1..n |-> FALSE]

openPartialAndBitmap(n) ==
    /\ partial' = Grown(n)
    /\ bitmapFile' = Sized(n) /\ bitmap' = Sized(n)

\* No more workers than pieces.
Hired(n) == CHOOSE ws \in SUBSET Worker :
                Cardinality(ws) = IF n < maxWorkers THEN n ELSE maxWorkers
Started(n) == [w \in Thread |-> IF w \in Hired(n) THEN Fresh ELSE Gone]

\* The size is known: open the files, write .meta if there is none yet, and
\* start the workers.
Open ==
    /\ phase = "open"
    /\ openPartialAndBitmap(total)
    /\ meta' = total
    /\ phase' = "work"
    /\ worker' = Started(total)
    /\ UNCHANGED <<final, manifest, total, claimed, search, terminal,
                   peers, unsent, bounds>>

\* The probe asks one source after the other for the first piece.
Probe ==
    /\ phase = "probe"
    /\ \E s \in unprobed :
          /\ unprobed' = unprobed \ {s}
          /\ \/ /\ total' \in Claim[s]      \* it answers
                /\ phase' = "probed"
                /\ openPartialAndBitmap(total')
                /\ \E b \in IF s \in Liar THEN {"good", "bad"} ELSE {"good"} :
                      worker' = [worker EXCEPT
                          ![Main].pc = "write", ![Main].got = <<b>>]
                /\ UNCHANGED <<errors, banned, cooling, pool>>
             \/ /\ phase' = "next"
                /\ \/ markPeerError(s)         \* an RPC error
                   \/ s \in Liar /\ Ban(s)    \* it does not hold the song
                   \/ UNCHANGED <<errors, banned, cooling, pool>> \* a timeout, a link lost
                /\ UNCHANGED <<total, partial, bitmapFile, bitmap, worker>>
    /\ UNCHANGED <<meta, final, manifest, claimed, walked, flows, terminal,
                   unsent, bounds>>

\* _sources has another length than when the walk began: a
\* ConcurrentModificationError, which nobody in run() catches.
Modified == Cardinality(pool) # walked

ProbeNext ==
    /\ phase = "next" /\ ~ Modified /\ unprobed # {}
    /\ phase' = "probe"
    /\ UNCHANGED <<disk, manifest, total, bitmap, claimed, search, terminal,
                   worker, peers, unsent, bounds>>

ProbeFailed ==
    /\ phase = "next"
    /\ Modified \/ (unprobed = {} /\ total = 0)
    /\ Forget
    /\ UNCHANGED <<disk, bounds>>

\* A probe named a size, but its piece could not be written, and no later one
\* answered: the workers start without a .meta.
ProbeOver ==
    /\ phase = "next" /\ ~ Modified /\ unprobed = {} /\ total # 0
    /\ phase' = "work" /\ walked' = 0
    /\ worker' = Started(total)
    /\ UNCHANGED <<disk, manifest, total, bitmap, claimed, unprobed,
                   terminal, peers, unsent, bounds>>

\* The probed piece is written: _writeMeta, and the workers start.
Probed ==
    /\ phase = "probed" /\ worker[Main].pc = "loop"
    /\ meta' = total
    /\ phase' = "work" /\ unprobed' = {} /\ walked' = 0
    /\ worker' = Started(total)
    /\ UNCHANGED <<partial, bitmapFile, final, manifest, total, bitmap, claimed,
                   terminal, peers, unsent, bounds>>

-----------------------------------------------------------------------------
(***************************************************************************)
(* The workers.                                                            *)
(***************************************************************************)

\* Mutant: pieces in flight are handed out again.
Free_unclaimed == Missing

\* The longest run of at most k missing, unclaimed pieces from the first one.
Free == Missing \ claimed
RunFrom(p, k) == {q \in Free : q < p + k /\ p..q \subseteq Free /\ q >= p}

\* Past the last unclaimed piece, a small tail is fetched twice.
claimNextRange ==
    IF Free # {} THEN RunFrom(Min(Free), fetchPieces)
    ELSE IF Missing # {} /\ Cardinality(Missing) <= maxWorkers
         THEN {Min(Missing)}
         ELSE {}

Eligible == {s \in pool : /\ s \notin banned /\ s \notin cooling
                          /\ flows[s] < kPerSeederWindow}

Idle(w) == phase = "work" /\ worker[w].pc = "loop"
Goes(w, pc) == worker' = [worker EXCEPT ![w] = [Gone EXCEPT !.pc = pc]]

\* The thread has these pieces still to write, or is done with writing.
Holds(t, got) ==
    worker' = [worker EXCEPT ![t] =
        [Gone EXCEPT !.pc = IF got = <<>> THEN "loop" ELSE "write", !.got = got]]

\* The top of the loop.
Leave(w) ==
    /\ Idle(w) /\ (terminal \/ isComplete)
    /\ Goes(w, "done")
    /\ UNCHANGED <<disk, phase, manifest, total, bitmap, claimed, search,
                   terminal, peers, unsent, bounds>>

\* A range and a source for it; otherwise the worker waits and tries again.
Fetch(w) ==
    /\ Idle(w) /\ ~ terminal /\ claimNextRange # {}
    /\ \E s \in Eligible :
          /\ worker' = [worker EXCEPT ![w] = [pc |-> "fetch", src |-> s,
                                range |-> claimNextRange, got |-> <<>>]]
          /\ flows' = [flows EXCEPT ![s] = @ + 1]
    /\ claimed' = claimed \cup claimNextRange
    /\ UNCHANGED <<disk, phase, manifest, total, bitmap, search, terminal,
                   pool, errors, banned, cooling, unsent, bounds>>

\* No source will do: the claim is given back, in the tail also one that
\* another worker holds.
Unsourced(w) ==
    /\ Idle(w) /\ ~ terminal /\ Eligible = {} /\ ~ pool \subseteq banned
    /\ claimed \cap claimNextRange # {}
    /\ claimed' = claimed \ claimNextRange
    /\ UNCHANGED <<disk, phase, manifest, total, bitmap, search, terminal,
                   worker, peers, unsent, bounds>>

\* Every source is banned: ask the DHT once more, then give up.
Refill(w) ==
    /\ Idle(w) /\ ~ terminal /\ claimNextRange # {}
    /\ pool \subseteq banned
    /\ claimed' = claimed \ claimNextRange
    /\ Goes(w, "refill")
    /\ UNCHANGED <<disk, phase, manifest, total, bitmap, search, terminal,
                   peers, unsent, bounds>>

Refilled(w) ==
    /\ worker[w].pc = "refill"
    /\ pool' \in {pool, pool \cup Dht}
    /\ terminal' = (terminal \/ pool' \subseteq banned)
    /\ Goes(w, IF pool' \subseteq banned THEN "done" ELSE "loop")
    /\ UNCHANGED <<disk, phase, manifest, total, bitmap, claimed, search,
                   errors, banned, cooling, flows, unsent, bounds>>

\* The fetch has settled: the flow is released, whatever came of it.
Settles(w) ==
    /\ worker[w].pc = "fetch"
    /\ flows' = [flows EXCEPT ![worker[w].src] = @ - 1]
    /\ UNCHANGED <<disk, phase, manifest, total, bitmap, search, bare>>

Fault == faults < MaxFaults /\ faults' = faults + 1

releaseRange(w) == claimed' = claimed \ worker[w].range

\* Another worker gave up: the signal runs before any reply that comes later.
Signalled(w) ==
    /\ Settles(w) /\ terminal
    /\ releaseRange(w)
    /\ Goes(w, "done")
    /\ UNCHANGED <<pool, errors, banned, cooling, terminal, unsent, faults>>

\* What is sent of a range by a source that names the size n in its reply: the
\* length of the reply is checked against n, and n against nothing.
Sent(w, n) == {p \in worker[w].range : p <= n}

\* A reply passes: all its pieces pass the manifest, if there is one for this
\* size. A range that starts at n is answered with nothing by a liar only. What
\* was not sent stays claimed.
Answer(w) ==
    /\ Settles(w)
    /\ \E n \in Claim[worker[w].src], b \in {"good", "bad"} :
          /\ IF worker[w].src \in Liar THEN n >= Min(worker[w].range) - 1
                                       ELSE n >= Min(worker[w].range)
          /\ worker[w].src \notin Liar \/ manifestActive => b = "good"
          /\ Holds(w, [p \in Sent(w, n) |-> b])
          /\ unsent' = unsent \cup (worker[w].range \ Sent(w, n))
    /\ UNCHANGED <<claimed, pool, errors, banned, cooling, terminal, faults>>


\* An RPC error: the request times out or cannot be sent, not_matched, or no
\* chunk at all arrives within pieceTimeout.
Stall(w) ==
    /\ Settles(w)
    /\ releaseRange(w) /\ markPeerError(worker[w].src)
    /\ Goes(w, "loop")
    /\ UNCHANGED <<terminal, unsent, faults>>

\* bad_range, a piece that fails the manifest, not_held, ...
Violates(w) ==
    /\ Settles(w) /\ (worker[w].src \in Liar \/ Sent(w, Size) = {})
    /\ releaseRange(w) /\ Ban(worker[w].src)
    /\ Goes(w, "loop")
    /\ UNCHANGED <<terminal, unsent, faults>>

\* Any other exception ends the run: the range is still arriving after
\* pieceTimeout (TimeoutException), or its source or relay disconnects meanwhile
\* (StateError).
Breaks(w) ==
    /\ Settles(w)
    /\ releaseRange(w) /\ terminal' = TRUE
    /\ Goes(w, "done")
    /\ UNCHANGED <<pool, errors, banned, cooling, unsent, faults>>

\* The cooldown of a source elapses.
Cooled(s) ==
    /\ s \in cooling
    /\ cooling' = cooling \ {s}
    /\ UNCHANGED <<disk, phase, manifest, total, bitmap, claimed, search,
                   terminal, worker, pool, errors, banned, flows, unsent, bounds>>

-----------------------------------------------------------------------------
(***************************************************************************)
(* _writePiece, in two steps under _ioMutex.                               *)
(***************************************************************************)
Rest(f, p) == [q \in DOMAIN f \ {p} |-> f[q]]
Writing(t) == worker[t].pc = "write"
Head1(t) == Min(DOMAIN worker[t].got)
MutexFree == \A t \in Thread : worker[t].pc # "bit"

\* The piece is past the end, or a race winner already wrote it.
WriteSkipped(t) ==
    /\ Writing(t) /\ MutexFree
    /\ Head1(t) \in Pieces => bitmap[Head1(t)]
    /\ claimed' = IF Head1(t) \in Pieces THEN claimed \ {Head1(t)} ELSE claimed
    /\ Holds(t, Rest(worker[t].got, Head1(t)))
    /\ UNCHANGED <<disk, phase, manifest, total, bitmap, search, terminal,
                   peers, unsent, bounds>>

\* Bytes before bitmap.
WriteBytes(t) ==
    /\ Writing(t) /\ MutexFree
    /\ Head1(t) \in Missing
    /\ partial' = [partial EXCEPT ![Head1(t)] = worker[t].got[Head1(t)]]
    /\ worker' = [worker EXCEPT ![t].pc = "bit"]
    /\ UNCHANGED <<bitmapFile, meta, final, phase, manifest, total, bitmap,
                   claimed, search, terminal, peers, unsent, bounds>>

WriteBit(t) ==
    /\ worker[t].pc = "bit"
    /\ bitmapFile' = [bitmapFile EXCEPT ![Head1(t)] = TRUE]
    /\ bitmap' = [bitmap EXCEPT ![Head1(t)] = TRUE]
    /\ claimed' = claimed \ {Head1(t)}
    /\ Holds(t, Rest(worker[t].got, Head1(t)))
    /\ UNCHANGED <<partial, meta, final, phase, manifest, total, search,
                   terminal, peers, unsent, bounds>>

\* The disk refuses: a worker ends the run, the probe goes on to the next source.
WriteFails(t) ==
    /\ Writing(t) /\ MutexFree /\ Fault
    /\ Goes(t, "done")
    /\ \/ t \in Worker /\ terminal' = TRUE /\ phase' = phase
       \/ phase = "probed" /\ phase' = "next" /\ terminal' = terminal
    /\ UNCHANGED <<disk, manifest, total, bitmap, claimed, search, peers, unsent,
                   bare>>

-----------------------------------------------------------------------------
(***************************************************************************)
(* The end of run(), and what may happen around it.                        *)
(***************************************************************************)

\* All workers are back: throw the terminal error, or go on to the hash.
Joined ==
    /\ phase = "work" /\ \A w \in Worker : worker[w].pc = "done"
    /\ IF terminal THEN Forget
       ELSE /\ phase' = "verify"
            /\ UNCHANGED <<manifest, total, bitmap, claimed, search, terminal,
                           worker, peers, unsent>>
    /\ UNCHANGED <<disk, bounds>>

\* The partial file has the song's hash, and is renamed; or it is deleted.
Verify ==
    /\ phase = "verify"
    /\ final' = IF partial = [p \in 1..Size |-> "good"] THEN "good" ELSE final
    /\ partial' = <<>>
    /\ phase' = "wipe_bitmap"
    /\ UNCHANGED <<bitmapFile, meta, manifest, total, bitmap, claimed, search,
                   terminal, worker, peers, unsent, bounds>>

WipeBitmap ==
    /\ phase = "wipe_bitmap"
    /\ bitmapFile' = <<>>
    /\ phase' = "wipe_meta"
    /\ UNCHANGED <<partial, meta, final, manifest, total, bitmap, claimed,
                   search, terminal, worker, peers, unsent, bounds>>

WipeMeta ==
    /\ phase = "wipe_meta"
    /\ meta' = 0
    /\ Forget
    /\ UNCHANGED <<partial, bitmapFile, final, bounds>>

\* The app is killed.
Killed ==
    /\ phase # "idle" /\ Fault
    /\ Forget
    /\ UNCHANGED <<disk, bare>>

\* The user deletes the download, or the cache makes room.
Evict ==
    /\ final # "none" /\ phase = "idle"
    /\ final' = "none"
    /\ UNCHANGED <<partial, bitmapFile, meta, phase, manifest, total, bitmap,
                   claimed, search, terminal, worker, peers, unsent, bounds>>

-----------------------------------------------------------------------------
Step(w) == Leave(w) \/ Fetch(w) \/ Unsourced(w) \/ Refill(w) \/ Refilled(w) \/ Signalled(w)
Write(t) == WriteSkipped(t) \/ WriteBytes(t) \/ WriteBit(t)
Outcome(w) == ~ terminal /\ (Answer(w) \/ Stall(w) \/ Violates(w) \/ Breaks(w))
Progress == Open \/ Probe \/ ProbeNext \/ ProbeFailed \/ ProbeOver \/ Probed \/ Joined \/ Verify
            \/ WipeBitmap \/ WipeMeta

TransferNext ==
    \/ Run \/ TopUp \/ Progress
    \/ \E w \in Worker : Step(w) \/ Outcome(w)
    \/ \E t \in Thread : Write(t) \/ WriteFails(t)
    \/ \E s \in Source : Cooled(s)
    \/ Killed \/ Evict

TransferSpec == TransferInit /\ [][TransferNext]_transferVars

(***************************************************************************)
(* The event loop runs every future that can go on; a fetch settles, by    *)
(* pieceTimeout at the latest; cooldowns elapse; the user tries again.     *)
(* The workers take the sources in turn, and their first picks lie before  *)
(* any reply, so a source that may be asked again and again is asked again *)
(* and again (Chosen). And a source that is asked again and again answers   *)
(* again and again (Replies), however often it times out or is cut off in  *)
(* between.                                                                *)
(***************************************************************************)
Chosen(s) == \E w \in Worker : Fetch(w) /\ worker'[w].src = s

Replies(s) ==
    /\ ~ terminal
    /\ \E w \in Worker : worker[w].src = s /\ (Answer(w) \/ Violates(w))

Scheduled ==
    /\ WF_transferVars(Run) /\ WF_transferVars(Progress)
    /\ \A w \in Worker : WF_transferVars(Step(w)) /\ WF_transferVars(Outcome(w))
    /\ \A t \in Thread : WF_transferVars(Write(t))
    /\ \A s \in Source : WF_transferVars(Cooled(s))

Fairness ==
    /\ Scheduled
    /\ \A s \in Source : SF_transferVars(Chosen(s)) /\ SF_transferVars(Replies(s))

TransferFairSpec == TransferSpec /\ Fairness

-----------------------------------------------------------------------------
(***************************************************************************)
(* Properties.                                                             *)
(***************************************************************************)

\* A piece that a reply left out, for a size smaller than the song's, is missing
\* in a run that goes on. Such pieces stay claimed: more of them than the tail may
\* have are asked of nobody, and fewer perhaps only of the source that leaves
\* them out.
Withheld == phase = "work" /\ Missing \cap unsent # {}

\* A size that no source can fill has reached the .meta file.
Oversized == meta > Size


\* Two workers fetch one piece only in the tail of at most maxWorkers missing
\* pieces, although a worker that loses a race releases claims that others
\* hold (_claimNextRange: "Bounded so we only ever dup-fetch the tail").
DupOnlyTail ==
    \A v, w \in Worker :
        v # w /\ worker[v].pc = "fetch" /\ worker[w].pc = "fetch"
              /\ worker[v].range \cap worker[w].range # {} =>
            Cardinality(Missing) <= maxWorkers

-----------------------------------------------------------------------------
(***************************************************************************)
(* Claims of comments that the code does not keep.                         *)
(***************************************************************************)

\* "the bitmap can never claim a piece is present when the bytes aren't"
\* (_writePiece).
BitmapHonest ==
    phase = "work" =>
        \A p \in 1..Len(bitmapFile) : bitmapFile[p] => partial[p] # "zero"

\* "Nothing claimable right now -- the other workers hold every missing piece"
\* (_worker).
MissingIsHeld ==
    phase = "work" /\ ~ terminal /\ Missing # {} /\ claimNextRange = {} =>
        Missing \subseteq UNION {worker[t].range \cup DOMAIN worker[t].got : t \in Thread}

\* "A slow peer blowing this is treated as a stall, the piece goes back in the
\* pool" (pieceTimeout): a run ends for want of sources or for a fault only.
TimeoutIsStall == [][terminal' /\ ~ terminal => pool' \subseteq banned \/ faults' > faults]_transferVars

\* "Walk every source so a single dead peer doesn't fail the whole download" (run).
ProbeWalksAll ==
    [][phase = "next" /\ phase' = "idle" /\ faults' = faults => unprobed = {}]_transferVars
=============================================================================
