----------------------------- MODULE ChainStore -----------------------------
(***************************************************************************)
(* The chain of one node on disk: how Chain::connect_block extends it, how *)
(* Chain::reorg_to_branch exchanges its upper part for a better branch and *)
(* puts it back when the branch does not hold, and how Chain::init recovers*)
(* when the process dies in between.                                       *)
(*                                                                         *)
(* Chain::mu_ is held for the whole of a reorg, so nothing of the chain    *)
(* interleaves with it but a crash: pc stands before the next write to     *)
(* LevelDB, and every action makes one write (a WriteBatch is atomic).     *)
(* Writes are not synced, but LevelDB recovers a prefix of them, which is  *)
(* a crash at an earlier pc.                                               *)
(*                                                                         *)
(* Simplifications: blocks are numbers in hash order; the offered ones     *)
(* pass Block::validate() and link to a Parent, and the Bad ones fail      *)
(* apply_transactions, song_on_chain or the state_root gate wherever they  *)
(* are applied; every block has one payload (a song or a transaction) and  *)
(* writes state, so its root cannot match on any state but its parent's.   *)
(* The derived state, the accumulator in sr:vec and committed_acc_ are     *)
(* named by the last block they contain.  No checkpoint is compiled in.    *)
(***************************************************************************)
EXTENDS Integers, Sequences

CONSTANTS
    Block, Genesis, Parent, Plays, Stamp, Payload, Bad,
    Pin,            \* blocks with a CHECKPOINT: block -> height, hash
    Branch,         \* the runs of blocks, linked by hash, that peers may send
    FINALITY_DEPTH, MaxCrashes

NoBlock == 0

ASSUME ChainStoreAssumption ==
    /\ Block \subseteq Nat \ {NoBlock} /\ Genesis \in Block
    /\ Parent \in [Block \ {Genesis} -> Block]
    /\ Plays \in [Block -> Nat] /\ Stamp \in [Block -> Nat]
    /\ Payload \in [Block -> Nat]
    /\ Bad \subseteq Block \ {Genesis}
    /\ DOMAIN Pin \subseteq Block
    /\ \A b \in DOMAIN Pin : Pin[b] \in [height : Nat, hash : Block]
    /\ Branch \subseteq Seq(Block \ {Genesis})
    /\ \A s \in Branch : \A i, j \in DOMAIN s : s[i] = s[j] => i = j
    /\ FINALITY_DEPTH \in Nat /\ MaxCrashes \in Nat

\* The blocks from the genesis block to b, and their plays.
Chain[b \in Block] ==
    IF b = Genesis THEN <<b>> ELSE Append(Chain[Parent[b]], b)
Weight[b \in Block] ==
    Plays[b] + (IF b = Genesis THEN 0 ELSE Weight[Parent[b]])

\* Every block descends from the genesis block: a hash has no cycle.
ASSUME RootedAssumption ==
    /\ Chain = [b \in Block |-> IF b = Genesis THEN <<b>>
                               ELSE Append(Chain[Parent[b]], b)]
    /\ Weight = [b \in Block |-> Plays[b] + (IF b = Genesis THEN 0
                                             ELSE Weight[Parent[b]])]
    /\ Chain \in [Block -> Seq(Block)] /\ Weight \in [Block -> Nat]

VARIABLES
    row,            \* b:, h: and cw: rows: block -> height, weight
    n,              \* n: rows: height -> block
    t_tip,          \* t:tip: hash, height
    dirty,          \* sr:dirty
    derived,        \* the state the blocks wrote
    vec,            \* sr:vec
    cp,             \* cp: rows: height -> block
    pool,           \* p:, pt: and sp: rows: payloads waiting for a block
    tip, acc, pins, \* tip_, committed_acc_ and checkpoints_
    pc,
    caller,         \* of rebuild_derived_state
    good, cum,      \* its last_good_height and cum_weight
    reorg,          \* locals of reorg_to_branch
    crashes,
    served,         \* history: the tip after the last finished operation
    buried,         \* history: height -> block once FINALITY_DEPTH deep
    offered,        \* history: tips that a peer or the producer proposed
    hurt,           \* history: a crash fell into a reorg bound to fail
    lost            \* history: the chain lost rows that nothing puts back

disk == <<row, n, t_tip, dirty, derived, vec, cp, pool>>
memory == <<tip, acc, pins>>
locals == <<caller, good, cum, reorg>>
history == <<served, buried, offered, hurt, lost>>
vars == <<disk, memory, pc, locals, crashes, history>>

NoTip == [hash |-> NoBlock, height |-> 0, stamp |-> 0, weight |-> 0]
NoReorg == [fork |-> 0, base |-> 0, branch |-> <<>>, old |-> <<>>,
            old_tip |-> NoTip, whole |-> FALSE]
Callers == {"adopt", "restore", "init"}
Pcs == {"idle", "write_branch", "trim", "arm", "clear", "replay", "rollback",
        "persist", "disarm", "judge", "drop", "clear_n", "write_old", "down"}

Tips == [hash : Block \cup {NoBlock}, height : Nat, stamp : Nat, weight : Nat]

TypeOK ==
    /\ DOMAIN row \subseteq Block
    /\ \A b \in DOMAIN row : row[b] \in [height : Nat, weight : Nat]
    /\ DOMAIN n \subseteq Nat /\ \A h \in DOMAIN n : n[h] \in Block
    /\ t_tip \in [hash : Block \cup {NoBlock}, height : Nat]
    /\ dirty \in BOOLEAN
    /\ {derived, vec, acc} \subseteq Block \cup {NoBlock}
    /\ DOMAIN cp \subseteq Nat /\ \A h \in DOMAIN cp : cp[h] \in Block
    /\ DOMAIN pins \subseteq Nat /\ \A h \in DOMAIN pins : pins[h] \in Block
    /\ pool \subseteq Nat
    /\ tip \in Tips /\ served \in Tips
    /\ pc \in Pcs /\ caller \in Callers /\ good \in Nat /\ cum \in Nat
    /\ reorg.fork \in Nat /\ reorg.base \in Nat /\ reorg.old_tip \in Tips
    /\ {reorg.branch, reorg.old} \subseteq Seq(Block)
    /\ crashes \in 0..MaxCrashes
    /\ offered \subseteq Block /\ {hurt, lost} \subseteq BOOLEAN

-----------------------------------------------------------------------------
Put(f, k, v) == [x \in DOMAIN f \cup {k} |-> IF x = k THEN v ELSE f[x]]
Without(f, S) == [x \in DOMAIN f \ S |-> f[x]]
Override(f, g) == [x \in DOMAIN f \cup DOMAIN g |->
                       IF x \in DOMAIN g THEN g[x] ELSE f[x]]
Blocks(s) == {s[i] : i \in DOMAIN s}
Top(s) == s[Len(s)]
Larger(i, j) == IF i > j THEN i ELSE j

\* The prev_hash of a block.
PrevHash(b) == IF b = Genesis THEN NoBlock ELSE Parent[b]

TipAt(b, height, weight) ==
    [hash |-> b, height |-> height, stamp |-> Stamp[b], weight |-> weight]

Init ==
    /\ row = [b \in {Genesis} |-> [height |-> 1, weight |-> Plays[b]]]
    /\ n = [h \in {1} |-> Genesis]
    /\ t_tip = [hash |-> Genesis, height |-> 1]
    /\ dirty = FALSE /\ derived = Genesis /\ vec = Genesis /\ cp = <<>>
    /\ pool = {Payload[b] : b \in Block \ {Genesis}}
    /\ tip = TipAt(Genesis, 1, Plays[Genesis]) /\ acc = Genesis
    /\ pins = <<>>
    /\ pc = "idle" /\ caller = "init" /\ good = 0 /\ cum = 0
    /\ reorg = NoReorg /\ crashes = 0
    /\ served = tip /\ buried = <<>> /\ offered = {Genesis}
    /\ hurt = FALSE /\ lost = FALSE

tip_is_better(candidate, current) ==
    \/ candidate.weight > current.weight
    \/ /\ candidate.weight = current.weight
       /\ \/ candidate.height > current.height
          \/ /\ candidate.height = current.height
             /\ \/ candidate.stamp > current.stamp
                \/ /\ candidate.stamp = current.stamp
                   /\ candidate.hash > current.hash

\* Mutant: no checkpoint is looked up.
checkpoint_ok_never(height, b) == TRUE

checkpoint_ok(height, b) == height \in DOMAIN pins => pins[height] = b

\* What apply_checkpoint adds to the batch of a block.
apply_checkpoint(b) ==
    cp' = IF b \in DOMAIN Pin THEN Put(cp, Pin[b].height, Pin[b].hash) ELSE cp

\* Sum of count_plays over the first i blocks of a branch.
BranchPlays(s) ==
    LET upTo[i \in 0..Len(s)] == IF i = 0 THEN 0
                                 ELSE upTo[i - 1] + Plays[s[i]]
    IN  upTo

-----------------------------------------------------------------------------
(***************************************************************************)
(* A block that extends the tip, from the producer or from a peer.         *)
(***************************************************************************)

connect_block(b) ==
    /\ pc = "idle"
    /\ PrevHash(b) = tip.hash
    /\ checkpoint_ok(tip.height + 1, b)
    /\ b \notin Bad /\ derived = tip.hash /\ acc = tip.hash
    /\ LET new == TipAt(b, tip.height + 1, tip.weight + Plays[b])
       IN  /\ row' = Put(row, b, [height |-> new.height, weight |-> new.weight])
           /\ n' = Put(n, new.height, b)
           /\ t_tip' = [hash |-> b, height |-> new.height]
           /\ tip' = new
    /\ derived' = b /\ vec' = b /\ acc' = b
    /\ apply_checkpoint(b)
    /\ pins' = IF b \in DOMAIN Pin THEN Put(pins, Pin[b].height, Pin[b].hash)
               ELSE pins
    /\ pool' = pool \ {Payload[b]}
    /\ UNCHANGED <<dirty, pc, locals, crashes>>

-----------------------------------------------------------------------------
(***************************************************************************)
(* reorg_to_branch: the checks, then the writes that adopt the branch.     *)
(***************************************************************************)

\* What apply_loop assembles from its pending blocks: a block that does not
\* extend the tip, and its ancestors down to the first with an h: row.
Assembled(branch) ==
    /\ branch # <<>>
    /\ PrevHash(Top(branch)) # tip.hash
    /\ PrevHash(branch[1]) \in DOMAIN row
    /\ \A i \in 2..Len(branch) : /\ PrevHash(branch[i]) = branch[i - 1]
                                 /\ branch[i - 1] \notin DOMAIN row

\* The finality cap on the height of the fork point.
NotFinal(fork) ==
    ~ (tip.height > FINALITY_DEPTH /\ fork < tip.height - FINALITY_DEPTH)

\* Mutant: any branch is tried.
Better_any(branch, fork, base) == TRUE

Better(branch, fork, base) ==
    tip_is_better(TipAt(Top(branch), fork + Len(branch),
                        base + BranchPlays(branch)[Len(branch)]), tip)

\* The blocks above the fork point, to restore them if need be.
Snapshot(fork) == [i \in 1..Larger(tip.height - fork, 0) |-> n[fork + i]]

\* All checks pass: snapshot the chain above the fork, set sr:dirty.
reorg_to_branch(branch) ==
    /\ pc = "idle"
    /\ Assembled(branch)
    /\ LET at == row[PrevHash(branch[1])]
       IN  /\ NotFinal(at.height)
           /\ \A i \in DOMAIN branch : checkpoint_ok(at.height + i, branch[i])
           /\ Better(branch, at.height, at.weight)
           /\ (at.height + 1)..tip.height \subseteq DOMAIN n
           /\ reorg' = [fork |-> at.height, base |-> at.weight,
                        branch |-> branch,
                        old |-> Snapshot(at.height),
                        old_tip |-> tip, whole |-> FALSE]
    /\ dirty' = TRUE
    /\ pc' = "write_branch"
    /\ UNCHANGED <<row, n, t_tip, derived, vec, cp, pool, memory,
                   caller, good, cum, crashes>>

\* The batch of write_branch: blocks from the fork point up, and t:tip.
write_branch(blocks, top) ==
    LET height(i) == reorg.fork + i
        index == [h \in {height(i) : i \in DOMAIN blocks}
                      |-> blocks[h - reorg.fork]]
        placed == [b \in Blocks(blocks) |->
                     LET i == CHOOSE j \in DOMAIN blocks : blocks[j] = b
                     IN  [height |-> height(i),
                          weight |-> reorg.base + BranchPlays(blocks)[i]]]
    IN  /\ row' = Override(row, placed)
        /\ n' = Override(n, index)
        /\ t_tip' = [hash |-> top.hash, height |-> top.height]
        /\ pool' = pool \ {Payload[b] : b \in Blocks(blocks)}
        /\ tip' = top

WriteBranch ==
    /\ pc = "write_branch"
    /\ LET b == reorg.branch
       IN  write_branch(b, TipAt(Top(b), reorg.fork + Len(b),
                                 reorg.base + BranchPlays(b)[Len(b)]))
    /\ pc' = "trim"
    /\ UNCHANGED <<dirty, derived, vec, cp, acc, pins, locals, crashes>>

\* clear_n_above, for a branch that is shorter than the chain it replaces.
Trim ==
    /\ pc = "trim"
    /\ n' = Without(n, (tip.height + 1)..reorg.old_tip.height)
    /\ pc' = "arm" /\ caller' = "adopt"
    /\ UNCHANGED <<row, t_tip, dirty, derived, vec, cp, pool, memory,
                   good, cum, reorg, crashes>>

-----------------------------------------------------------------------------
(***************************************************************************)
(* rebuild_derived_state: replay n:1..tip_.height from the empty state.    *)
(***************************************************************************)

Arm ==
    /\ pc = "arm"
    /\ dirty' = TRUE
    /\ pc' = "clear"
    /\ UNCHANGED <<row, n, t_tip, derived, vec, cp, pool, memory, locals, crashes>>

\* clear_derived_state: cp: and sr:vec are not among its prefixes.
ClearDerived ==
    /\ pc = "clear"
    /\ derived' = NoBlock
    /\ good' = 0 /\ cum' = 0
    /\ pc' = "replay"
    /\ UNCHANGED <<row, n, t_tip, dirty, vec, cp, pool, memory,
                   caller, reorg, crashes>>

\* The block at a height, the zero hash below block 1.
HashAt(h) == IF h = 0 THEN NoBlock ELSE n[h]

\* n: and b: have what the next height needs.
Present(h) == h \in DOMAIN n /\ n[h] \in DOMAIN row

\* The checks of a replayed block.
Replays(h) ==
    /\ PrevHash(n[h]) = HashAt(h - 1)
    /\ checkpoint_ok(h, n[h])
    /\ n[h] \notin Bad

Return == CASE caller = "adopt" -> "judge" [] OTHER -> "idle"

ReplayBlock ==
    /\ pc = "replay" /\ good < tip.height
    /\ LET h == good + 1
       IN  /\ Present(h) /\ Replays(h)
           /\ good' = h
           /\ cum' = cum + Plays[n[h]]
           /\ row' = [row EXCEPT ![n[h]].weight = cum']
           /\ derived' = n[h] /\ vec' = n[h]
           /\ apply_checkpoint(n[h])
    /\ UNCHANGED <<n, t_tip, dirty, pool, memory, pc, caller, reorg, crashes>>

\* A row is missing: rebuild_derived_state returns false, and no caller looks.
ReplayMissing ==
    /\ pc = "replay" /\ good < tip.height
    /\ ~ Present(good + 1)
    /\ pc' = Return
    /\ UNCHANGED <<disk, memory, locals, crashes>>

\* The loop ends, at the tip or before a block that fails.  Only tip_.weight is
\* set here; t:tip moves in Rollback.
ReplayEnd ==
    /\ pc = "replay"
    /\ good < tip.height => Present(good + 1) /\ ~ Replays(good + 1)
    /\ tip' = [tip EXCEPT !.weight = cum]
    /\ pc' = IF good < tip.height THEN "rollback" ELSE "persist"
    /\ UNCHANGED <<disk, acc, pins, locals, crashes>>

\* Back to the last good height; tip_.timestamp_ms is left as it was.
Rollback ==
    /\ pc = "rollback"
    /\ tip' = [tip EXCEPT !.hash = HashAt(good), !.height = good]
    /\ t_tip' = [hash |-> HashAt(good), height |-> good]
    /\ pc' = "persist"
    /\ UNCHANGED <<row, n, dirty, derived, vec, cp, pool, acc, pins,
                   locals, crashes>>

\* Mutant: the accumulator in memory stays that of the replaced chain.
Persist_disk_only ==
    /\ pc = "persist"
    /\ pins' = Override(pins, cp)
    /\ vec' = tip.hash
    /\ pc' = "disarm"
    /\ UNCHANGED <<row, n, t_tip, dirty, derived, cp, pool, tip, acc,
                   locals, crashes>>

\* checkpoints_ takes in all cp: rows, then sr:vec is written.
Persist ==
    /\ pc = "persist"
    /\ pins' = Override(pins, cp)
    /\ acc' = tip.hash /\ vec' = tip.hash
    /\ pc' = "disarm"
    /\ UNCHANGED <<row, n, t_tip, dirty, derived, cp, pool, tip,
                   locals, crashes>>

Disarm ==
    /\ pc = "disarm"
    /\ dirty' = FALSE
    /\ pc' = Return
    /\ UNCHANGED <<row, n, t_tip, derived, vec, cp, pool, memory, locals, crashes>>

-----------------------------------------------------------------------------
(***************************************************************************)
(* reorg_to_branch: adopted, or back to the previous chain.                *)
(***************************************************************************)

\* Mutant: a prefix of the branch will do if it is heavier.
FullBranch_or_better ==
    tip.hash = Top(reorg.branch) \/ tip_is_better(tip, reorg.old_tip)

\* All blocks of the branch were applied.
FullBranch == tip.hash = Top(reorg.branch)

Adopted ==
    /\ pc = "judge" /\ FullBranch
    /\ pc' = "idle"
    /\ UNCHANGED <<disk, memory, locals, crashes>>

\* Mutant: sr:dirty is not set again before the restore.
Abort_unarmed ==
    /\ pc = "judge" /\ ~ FullBranch
    /\ reorg' = [reorg EXCEPT !.whole = Blocks(reorg.old) \subseteq DOMAIN row]
    /\ pc' = "drop"
    /\ UNCHANGED <<disk, memory, caller, good, cum, crashes>>

\* sr:dirty again, then read the old blocks back (whole: all were found).
Abort ==
    /\ pc = "judge" /\ ~ FullBranch
    /\ dirty' = TRUE
    /\ reorg' = [reorg EXCEPT !.whole = Blocks(reorg.old) \subseteq DOMAIN row]
    /\ pc' = "drop"
    /\ UNCHANGED <<row, n, t_tip, derived, vec, cp, pool, memory,
                   caller, good, cum, crashes>>

DropBranch ==
    /\ pc = "drop"
    /\ row' = Without(row, Blocks(reorg.branch))
    /\ pc' = "clear_n"
    /\ UNCHANGED <<n, t_tip, dirty, derived, vec, cp, pool, memory, locals, crashes>>

ClearN ==
    /\ pc = "clear_n"
    /\ n' = Without(n, (reorg.fork + 1)..
                       Larger(reorg.fork + Len(reorg.branch), reorg.old_tip.height))
    /\ pc' = IF reorg.whole THEN "write_old" ELSE "idle"
    /\ UNCHANGED <<row, t_tip, dirty, derived, vec, cp, pool, memory, locals, crashes>>

\* Mutant: tip_.timestamp_ms stays that of the failed branch.
WriteOld_stale_stamp ==
    /\ pc = "write_old"
    /\ write_branch(reorg.old, [reorg.old_tip EXCEPT !.stamp = tip.stamp])
    /\ pc' = "arm" /\ caller' = "restore"
    /\ UNCHANGED <<dirty, derived, vec, cp, acc, pins, good, cum, reorg, crashes>>

WriteOld ==
    /\ pc = "write_old"
    /\ write_branch(reorg.old, reorg.old_tip)
    /\ pc' = "arm" /\ caller' = "restore"
    /\ UNCHANGED <<dirty, derived, vec, cp, acc, pins, good, cum, reorg, crashes>>

-----------------------------------------------------------------------------
(***************************************************************************)
(* The process dies; the constructor and init() of the next one.           *)
(***************************************************************************)

Crash ==
    /\ pc # "down" /\ crashes < MaxCrashes
    /\ crashes' = crashes + 1
    /\ pc' = "down"
    /\ tip' = NoTip /\ acc' = NoBlock /\ pins' = <<>>
    /\ caller' = "init" /\ good' = 0 /\ cum' = 0 /\ reorg' = NoReorg
    /\ UNCHANGED disk

\* Mutant: the cw: row is not read back.
load_tip_weightless ==
    LET b == t_tip.hash
    IN  IF b \in DOMAIN row THEN TipAt(b, t_tip.height, 0)
        ELSE [NoTip EXCEPT !.hash = b, !.height = t_tip.height]

\* load_tip: timestamp and weight come from rows of the tip's block, or are 0.
load_tip ==
    LET b == t_tip.hash
    IN  IF b \in DOMAIN row THEN TipAt(b, t_tip.height, row[b].weight)
        ELSE [NoTip EXCEPT !.hash = b, !.height = t_tip.height]

\* Mutant: a node that was interrupted serves what it finds.
Boot_trusting ==
    /\ pc = "down"
    /\ pins' = cp /\ acc' = vec /\ tip' = load_tip
    /\ pc' = "idle"
    /\ UNCHANGED <<disk, locals, crashes>>

Boot ==
    /\ pc = "down"
    /\ pins' = cp /\ acc' = vec /\ tip' = load_tip
    /\ pc' = IF t_tip.height > 0 /\ dirty THEN "arm" ELSE "idle"
    /\ UNCHANGED <<disk, locals, crashes>>

-----------------------------------------------------------------------------
Rebuild ==
    \/ Arm \/ ClearDerived \/ ReplayBlock \/ ReplayMissing \/ ReplayEnd
    \/ Rollback \/ Persist \/ Disarm

Step ==
    \/ \E b \in Block : connect_block(b)
    \/ \E s \in Branch : reorg_to_branch(s)
    \/ WriteBranch \/ Trim
    \/ Rebuild
    \/ Adopted \/ Abort \/ DropBranch \/ ClearN \/ WriteOld
    \/ Crash \/ Boot

\* The reorg under way is bound to fail: its branch has a bad block, or grows
\* from a block that is no longer on the chain.
Doomed ==
    /\ pc # "idle" /\ reorg # NoReorg
    /\ \/ Blocks(reorg.branch) \cap Bad # {}
       \/ reorg.fork \notin DOMAIN n
       \/ n[reorg.fork] # PrevHash(reorg.branch[1])

\* The rows of the tip are gone and WriteOld has not put the old ones back.
Stripped == pc \in {"clear_n", "write_old"} /\ tip.height > reorg.fork

\* A reorg starts from a stored block above the tip, which an earlier reorg to a
\* heavier but shorter branch left off the chain: Trim deleted the heights between.
OverGap == pc' = "write_branch" /\ reorg'.fork > tip.height

\* When an operation is over, what the node serves and what it may prune.
Observe ==
    /\ served' = IF pc' = "idle" THEN tip' ELSE served
    /\ buried' = IF pc' = "idle"
                 THEN Override([h \in {i \in DOMAIN n' :
                                         i + FINALITY_DEPTH < tip'.height}
                                    |-> n'[h]], buried)
                 ELSE buried
    /\ offered' =
         CASE pc = "idle" /\ pc' = "idle" -> offered \cup {tip'.hash}
           [] pc = "idle" /\ pc' = "write_branch" ->
                  offered \cup {Top(reorg'.branch)}
           [] OTHER -> offered
    /\ hurt' = (hurt \/ (pc' = "down" /\ Doomed) \/ OverGap)
    /\ lost' = (lost \/ (pc' = "down" /\ Stripped) \/ OverGap)

Next == Step /\ Observe

Spec == Init /\ [][Next]_vars

-----------------------------------------------------------------------------
(***************************************************************************)
(* Properties.                                                             *)
(***************************************************************************)

\* n:1..t leads from block 1 to the tip t by prev_hash, over stored blocks.
ChainTo(t) ==
    /\ \A h \in 1..t.height : Present(h) /\ PrevHash(n[h]) = HashAt(h - 1)
    /\ t.hash = HashAt(t.height)

\* Crash atomicity: whenever sr:dirty is absent, at any point of any operation,
\* t:tip, the index below it, the derived state and sr:vec describe one and the
\* same chain; so a crash that leaves them torn is one init() can see
\* (reorg_to_branch, rebuild_derived_state).
TornIsMarked ==
    ~ dirty => ChainTo(t_tip) /\ derived = t_tip.hash /\ vec = t_tip.hash

(***************************************************************************)
(* The inductive invariant behind TornIsMarked: sr:dirty is set from the   *)
(* first write that tears the state to the last that mends it; tip_ and    *)
(* t:tip move together; the index agrees with t:tip wherever it has a row  *)
(* for it; the replay has derived exactly the blocks it has passed; and    *)
(* what a reorg has put aside restores such a tip.                         *)
(***************************************************************************)
MarkInv ==
    pc \in Pcs \ {"idle", "judge", "down"} => dirty

TipInv ==
    /\ tip = [hash |-> tip.hash, height |-> tip.height,
              stamp |-> tip.stamp, weight |-> tip.weight]
    /\ t_tip = [hash |-> t_tip.hash, height |-> t_tip.height]
    /\ tip.height \in Nat /\ t_tip.height \in Nat
    /\ pc # "down" => t_tip.hash = tip.hash /\ t_tip.height = tip.height

\* The block that t names is the one the index has at its height, if any.
Indexed(t) ==
    /\ t.height = 0 => t.hash = NoBlock
    /\ t.height \in DOMAIN n => n[t.height] = t.hash

IndexInv ==
    /\ DOMAIN n \subseteq Nat \ {0}
    /\ \A b \in DOMAIN row :
          /\ row[b] = [height |-> row[b].height, weight |-> row[b].weight]
          /\ row[b].height \in Nat
    /\ Indexed(t_tip)

\* The first g blocks are linked, and the derived state is theirs.
DerivedTo(g) ==
    /\ \A h \in 1..g : Present(h) /\ PrevHash(n[h]) = HashAt(h - 1)
    /\ derived = HashAt(g)

ReplayInv ==
    /\ good \in Nat
    /\ pc \in {"replay", "rollback"} => DerivedTo(good) /\ good <= tip.height
    /\ pc \in {"persist", "disarm"} =>
          DerivedTo(tip.height) /\ tip.hash = HashAt(tip.height)
    /\ pc = "disarm" => vec = tip.hash

OldInv ==
    pc # "idle" =>
       /\ reorg = [fork |-> reorg.fork, base |-> reorg.base,
                   branch |-> reorg.branch, old |-> reorg.old,
                   old_tip |-> reorg.old_tip, whole |-> reorg.whole]
       /\ reorg.old_tip = [hash |-> reorg.old_tip.hash,
                           height |-> reorg.old_tip.height,
                           stamp |-> reorg.old_tip.stamp,
                           weight |-> reorg.old_tip.weight]
       /\ reorg.fork \in Nat /\ reorg.old_tip.height \in Nat
       /\ reorg.branch \in Seq(Block)
       /\ pc = "write_branch" => reorg.branch # <<>>
       /\ DOMAIN reorg.old = 1..Larger(reorg.old_tip.height - reorg.fork, 0)
       /\ IF reorg.old_tip.height > reorg.fork
          THEN reorg.old[reorg.old_tip.height - reorg.fork]
                  = reorg.old_tip.hash
          ELSE Indexed(reorg.old_tip)

CrashInv ==
    TornIsMarked /\ MarkInv /\ TipInv /\ IndexInv /\ ReplayInv /\ OldInv

\* The node stands on one chain, in memory and on disk.
Serving ==
    /\ ~ dirty
    /\ ChainTo(tip)
    /\ t_tip = [hash |-> tip.hash, height |-> tip.height]
    /\ {derived, vec, acc} = {tip.hash}

\* After every operation and every restart the node serves one consistent
\* chain: sr:dirty is gone, and tip_ and committed_acc_ agree with t:tip, sr:vec
\* and the derived state (init, rebuild_derived_state). "lost" leaves out a crash
\* while the rows of the tip are deleted and a reorg over a gap in the heights,
\* which the code does not survive (README, Known disagreements).
ServesOneChain == pc = "idle" /\ ~ lost => Serving

(***************************************************************************)
(* The inductive invariant behind ServesOneChain, next to CrashInv: block  *)
(* 1 stays; every height up to the tip has its rows, so that the replay    *)
(* never meets a missing one; what a reorg put aside is still stored and   *)
(* shares no block with what it writes; and the accumulator follows.       *)
(***************************************************************************)

\* No checkpoint contradicts the genesis block (apply_checkpoint does not look).
PinsKeepGenesis ==
    \A b \in DOMAIN Pin : Pin[b].height = 1 => Pin[b].hash = Genesis

\* Every height up to g has a block, stored with that height.
Sized(g) == \A h \in 1..g : Present(h) /\ row[n[h]].height = h

\* A branch is written and on trial.
Trying ==
    \/ pc \in {"write_branch", "trim", "judge"}
    \/ /\ pc \in {"arm", "clear", "replay", "rollback", "persist", "disarm"}
       /\ caller = "adopt"

Restoring == pc \in {"drop", "clear_n", "write_old"}

RootInv ==
    /\ Genesis \in DOMAIN row /\ DOMAIN row \subseteq Block
    /\ \A b \in DOMAIN row : row[b].height >= 1
    /\ 1 \in DOMAIN n /\ n[1] = Genesis
    /\ \A h \in DOMAIN n : n[h] \in Block
    /\ t_tip.height >= 1
    /\ 1 \in DOMAIN cp => cp[1] = Genesis
    /\ 1 \in DOMAIN pins => pins[1] = Genesis
    /\ pc = "down" => caller = "init"
    /\ pc = "rollback" => good >= 1
    /\ Trying \/ Restoring =>
          /\ reorg.fork >= 1 /\ reorg.old_tip.height >= 1
          /\ reorg.branch \in Seq(Block \ {Genesis})
          /\ Blocks(reorg.old) \subseteq Block

\* What reorg_to_branch relies on below and above the fork point.
ForkInv ==
    /\ Sized(reorg.fork)
    /\ \A h \in 1..reorg.fork :
          n[h] \notin Blocks(reorg.branch) \cup Blocks(reorg.old)
    /\ reorg.fork <= reorg.old_tip.height
    /\ pc = "trim" => reorg.fork <= tip.height
    /\ \A i, j \in DOMAIN reorg.branch :
          reorg.branch[i] = reorg.branch[j] => i = j
    /\ \A i, j \in DOMAIN reorg.old : reorg.old[i] = reorg.old[j] => i = j
    /\ Trying => Blocks(reorg.old) \subseteq DOMAIN row
    /\ Restoring => reorg.whole

KeptInv ==
    /\ pc \notin {"clear_n", "write_old"} => Sized(t_tip.height)
    /\ pc # "idle" => ForkInv
    /\ pc \in {"idle", "judge"} => ~ dirty
    /\ pc \in {"idle", "judge", "disarm"} => acc = tip.hash

ServeInv == RootInv /\ (~ lost => KeptInv)

(***************************************************************************)
(* The inductive invariant behind the properties of the reorg, next to the *)
(* two above.  Until a crash hurts: rows hold a block's own height and     *)
(* weight; the tip ends a chain that the index holds whole and that a      *)
(* replay accepts, except while a failing branch is on trial; and what a   *)
(* reorg put aside is the chain served before it.                          *)
(***************************************************************************)

Depth(b) == Len(Chain[b])
WholeTip(b) == TipAt(b, Depth(b), Weight[b])

\* The checkpoints are those of honest signers: each names a block of the chain
\* it stands in, and none stands in a branch that fails.
PinsHonest ==
    /\ \A b \in DOMAIN Pin : /\ Pin[b].height \in 1..Depth(b)
                             /\ Pin[b].hash = Chain[b][Pin[b].height]
    /\ \A s \in Branch : Blocks(s) \cap Bad # {} => Blocks(s) \cap DOMAIN Pin = {}

\* The index holds the chain of b up to height g.
Holds(b, g) == \A h \in 1..g : h \in DOMAIN n /\ n[h] = Chain[b][h]

\* The pins p, as far as they go, name the chain of b.
Agree(p, b) ==
    /\ DOMAIN p \subseteq Nat \ {0}
    /\ \A h \in 1..Depth(b) : h \in DOMAIN p => p[h] = Chain[b][h]

\* A replay of the chain of b gets to its end.
Valid(b) ==
    /\ \A h \in 1..Depth(b) : Chain[b][h] \notin Bad
    /\ Agree(pins, b) /\ Agree(cp, b)

Restored ==
    /\ pc \in {"arm", "clear", "replay", "rollback", "persist", "disarm"}
    /\ caller = "restore"

Reorging == Trying \/ Restoring \/ Restored

\* The branch has a bad block, or its fork point is off the chain.
Failing ==
    \/ Blocks(reorg.branch) \cap Bad # {}
    \/ Chain[served.hash][reorg.fork] # PrevHash(reorg.branch[1])

\* A failing branch is written, and not yet replaced by the chain before it.
Astray == Restoring \/ (Trying /\ Failing /\ pc # "write_branch")

\* Rows whose weight WriteOld took from the fork point of the branch and that
\* the replay has yet to mend.
Stale ==
    CASE Restored /\ pc \in {"arm", "clear"} -> Blocks(reorg.old)
      [] Restored /\ pc = "replay" -> {b \in Blocks(reorg.old) : Depth(b) > good}
      [] OTHER -> {}

RowsInv ==
    /\ \A b \in DOMAIN row : /\ row[b].height = Depth(b)
                             /\ b \notin Stale => row[b].weight = Weight[b]
    /\ pc = "replay" => cum = IF good = 0 THEN 0 ELSE Weight[n[good]]

\* The tip t is whole, somebody's offer, and no step back.
Straight(t) ==
    /\ t.hash \in offered /\ t = WholeTip(t.hash)
    /\ Holds(t.hash, t.height) /\ Valid(t.hash)
    /\ t = served \/ tip_is_better(t, served)

StraightInv ==
    /\ offered \subseteq Block
    /\ served.hash \in offered /\ served = WholeTip(served.hash)
    /\ pc = "down" => /\ t_tip.height = Depth(t_tip.hash)
                      /\ Straight(WholeTip(t_tip.hash))
    /\ pc # "down" /\ ~ Astray => Straight(tip) /\ pc # "rollback"
    /\ pc \in {"idle", "write_branch"} \/ Restored => tip = served
    /\ pc \in {"idle", "judge", "disarm"} =>
          \A h \in DOMAIN cp : h \in DOMAIN pins /\ pins[h] = cp[h]

\* What a reorg knows of its branch and has put aside.
AsideInv ==
    LET from == PrevHash(reorg.branch[1])
    IN  /\ reorg.old_tip = served
        /\ reorg.fork \in 1..served.height /\ Holds(served.hash, reorg.fork)
        /\ \A i \in DOMAIN reorg.old :
              reorg.old[i] = Chain[served.hash][reorg.fork + i]
        /\ reorg.branch \in Branch /\ reorg.branch # <<>>
        /\ from \in Block /\ reorg.fork = Depth(from) /\ reorg.base = Weight[from]
        /\ \A i \in 2..Len(reorg.branch) :
              PrevHash(reorg.branch[i]) = reorg.branch[i - 1]
        /\ Top(reorg.branch) \in offered
        /\ tip_is_better(WholeTip(Top(reorg.branch)), served)

\* What it ends in: the chain before, or the branch.
EndInv ==
    IF Failing THEN Valid(served.hash)
    ELSE /\ Trying
         /\ IF pc = "write_branch" THEN Valid(Top(reorg.branch))
                                   ELSE tip.hash = Top(reorg.branch)

\* A failing branch stops the replay before its top.
TrialInv ==
    LET top == Top(reorg.branch)
    IN  /\ pc \in {"trim", "arm", "clear", "replay"} =>
              tip.hash = top /\ tip.height = reorg.fork + Len(reorg.branch)
        /\ pc \in {"trim", "arm", "clear", "replay", "rollback"} =>
              \A i \in DOMAIN reorg.branch :
                 reorg.fork + i \in DOMAIN n /\ n[reorg.fork + i] = reorg.branch[i]
        /\ pc \in {"replay", "rollback"} => \A h \in 1..good : n[h] \notin Bad
        /\ pc = "rollback" => good < reorg.fork + Len(reorg.branch)
        /\ pc \in {"persist", "disarm", "judge"} => tip.hash # top

SoundInv ==
    /\ RowsInv /\ StraightInv
    /\ Reorging => AsideInv /\ EndInv
    /\ Trying /\ Astray => TrialInv

ReorgInv == (lost => hurt) /\ (~ hurt => SoundInv)

\* Fork choice never goes back: the tip after an operation, a failed reorg or
\* a restart is the one before it or better by tip_is_better, so no truncated
\* branch replaces a chain (reorg_to_branch). Here and below "hurt" leaves out what
\* follows a crash inside a reorg bound to fail, or a reorg over a gap.
ForkChoiceMonotone == [][~ hurt' /\ served' # served => tip_is_better(served', served)]_vars

\* The tip is always one that somebody proposed: what is left of a branch whose
\* upper blocks failed is never adopted (reorg_to_branch).
WholeBranchesOnly == pc = "idle" /\ ~ hurt => tip.hash \in offered

\* When a reorg is given up, the tip is exactly the one it started from, height,
\* weight and timestamp included (reorg_to_branch: "restored previous chain").
RestoredExactly ==
    ~ hurt /\ pc = "disarm" /\ caller = "restore" => tip = reorg.old_tip

\* A chain that reaches the height of a signed checkpoint has the pinned block
\* there (checkpoint_ok in connect_block, reorg_to_branch and the replay).
PinnedHeightsMatch ==
    pc = "idle" /\ ~ hurt => \A h \in DOMAIN pins : h <= tip.height => n[h] = pins[h]

\* "an interrupted rebuild is re-run by init() at the next startup instead of
\* leaving t:tip/state/sr:vec mutually inconsistent", whatever crashes.
AlwaysServing == pc = "idle" => Serving

\* A branch that was tried and holds no bad block is adopted
\* (reorg_to_branch: "Adopts the branch IFF its cumulative weight ... exceeds").
SoundBranchAdopted ==
    pc = "judge" /\ Blocks(reorg.branch) \cap Bad = {}
        => tip.hash = Top(reorg.branch)

\* Once a signed checkpoint names a block, no heavier branch takes it off the
\* chain (apply_checkpoint, the checkpoint gate of reorg_to_branch).
CheckpointStays ==
    pc = "idle" => \A h \in DOMAIN cp : h <= tip.height /\ n[h] = cp[h]

\* A block that was once more than FINALITY_DEPTH below the tip is never
\* replaced (the finality cap of reorg_to_branch).
FinalityPermanent ==
    pc = "idle" => \A h \in DOMAIN buried : h \in DOMAIN n /\ n[h] = buried[h]

\* A payload that the node held is on its chain or still waits for a block
\* (the sp: row that connect_block and write_branch delete).
PendingOrOnChain ==
    pc = "idle" => \A b \in Block :
        \/ Payload[b] \in pool
        \/ \E h \in 1..tip.height : h \in DOMAIN n /\ Payload[n[h]] = Payload[b]
=============================================================================
