-------------------------- MODULE ChainStoreProofs --------------------------
(***************************************************************************)
(* The chain store, for every tree of blocks, every set of bad blocks and  *)
(* pins, every sequence of branches and any number of crashes.             *)
(*                                                                         *)
(* Crash atomicity: TornIsMarked is an invariant, by the inductive         *)
(* CrashInv.  One chain is served: ServesOneChain is an invariant, by the  *)
(* inductive ServeInv, which adds to CrashInv where the rows of every      *)
(* height up to the tip are while a reorg moves them about.  The outcome   *)
(* of a reorg: RestoredExactly, WholeBranchesOnly, PinnedHeightsMatch and  *)
(* ForkChoiceMonotone, by the inductive ReorgInv, which adds which chain   *)
(* of blocks the index holds and with what weights, and why a replay of it *)
(* gets through or is cut short.                                           *)
(***************************************************************************)
EXTENDS ChainStore, FiniteSetTheorems, WellFoundedInduction, TLAPS

\* Genesis alone is one linked chain.
LEMMA CrashInvInit == Init => CrashInv
<1> SUFFICES ASSUME Init PROVE CrashInv
    OBVIOUS
<1> USE ChainStoreAssumption DEF Init, TipAt
<1>1. n[1] = Genesis /\ DOMAIN n = {1} /\ DOMAIN row = {Genesis}
    OBVIOUS
<1>2. TornIsMarked
    BY <1>1 DEF TornIsMarked, ChainTo, Present, HashAt, PrevHash
<1>3. MarkInv /\ TipInv /\ OldInv
    BY DEF MarkInv, TipInv, OldInv
<1>4. IndexInv
  <2>1. row[Genesis] = [height |-> 1, weight |-> Plays[Genesis]]
    OBVIOUS
  <2>2. \A b \in DOMAIN row :
           /\ row[b] = [height |-> row[b].height, weight |-> row[b].weight]
           /\ row[b].height \in Nat
    BY <1>1, <2>1
  <2>3. t_tip.height = 1 /\ t_tip.hash = Genesis
    OBVIOUS
  <2> HIDE DEF Init
  <2> QED
    BY <1>1, <2>2, <2>3 DEF IndexInv, Indexed
<1>5. ReplayInv
    BY DEF ReplayInv
<1> QED
    BY <1>2, <1>3, <1>4, <1>5 DEF CrashInv

\* A step that leaves the rows and the index alone keeps what they say.
LEMMA SameIndex ==
    ASSUME UNCHANGED <<row, n, t_tip>>, IndexInv
    PROVE  IndexInv'
BY DEF IndexInv, Indexed

\* A row that is written at a height leaves the heights below it alone.
LEMMA LinkedBelow ==
    ASSUME NEW g \in Nat, NEW b,
           \A h \in 1..g : Present(h) /\ PrevHash(n[h]) = HashAt(h - 1),
           n' = Put(n, g + 1, b),
           DOMAIN row \subseteq DOMAIN row'
    PROVE  \A h \in 1..g : /\ Present(h)' /\ n'[h] = n[h]
                           /\ PrevHash(n'[h]) = HashAt(h - 1)'
<1> SUFFICES ASSUME NEW h \in 1..g
             PROVE  /\ Present(h)' /\ n'[h] = n[h]
                    /\ PrevHash(n'[h]) = HashAt(h - 1)'
    OBVIOUS
<1>1. h \in DOMAIN n /\ n[h] \in DOMAIN row /\ n'[h] = n[h]
    BY DEF Present, Put
<1>2. h - 1 = 0 \/ (h - 1 \in 1..g /\ h - 1 \in DOMAIN n)
    BY DEF Present
<1>3. HashAt(h - 1)' = HashAt(h - 1)
    BY <1>2 DEF HashAt, Put
<1>4. h \in DOMAIN n'
    BY <1>1 DEF Put
<1> QED
    BY <1>1, <1>3, <1>4 DEF Present

-----------------------------------------------------------------------------
\* A block that extends the tip moves the whole state in one batch.
LEMMA ConnectKeeps ==
    ASSUME CrashInv, NEW b \in Block, connect_block(b)
    PROVE  CrashInv'
<1> USE ChainStoreAssumption
<1>0. PICK g \in Nat : g = tip.height
    BY DEF CrashInv, TipInv
<1>1. tip.height = g /\ t_tip.height = g /\ t_tip.hash = tip.hash /\ pc = "idle"
    BY <1>0 DEF CrashInv, TipInv, connect_block
<1>2. /\ row' = Put(row, b, [height |-> g + 1,
                            weight |-> tip.weight + Plays[b]])
      /\ n' = Put(n, g + 1, b)
      /\ t_tip' = [hash |-> b, height |-> g + 1]
      /\ tip' = TipAt(b, g + 1, tip.weight + Plays[b])
      /\ derived' = b /\ vec' = b /\ derived = tip.hash
      /\ PrevHash(b) = tip.hash
      /\ UNCHANGED <<dirty, pc, good, reorg>>
    BY <1>0 DEF connect_block, TipAt, locals
<1>3. DOMAIN row \subseteq DOMAIN row' /\ b \in DOMAIN row'
    BY <1>2 DEF Put
<1>4. n'[g + 1] = b /\ g + 1 \in DOMAIN n'
    BY <1>1, <1>2 DEF Put
<1>5. TornIsMarked'
  <2> SUFFICES ASSUME ~ dirty PROVE ChainTo(t_tip)'
    BY <1>2 DEF TornIsMarked
  <2>1. /\ \A h \in 1..g : Present(h) /\ PrevHash(n[h]) = HashAt(h - 1)
        /\ tip.hash = HashAt(g)
    BY <1>1 DEF CrashInv, TornIsMarked, ChainTo
  <2>2. \A h \in 1..g : /\ Present(h)' /\ n'[h] = n[h]
                         /\ PrevHash(n'[h]) = HashAt(h - 1)'
    BY <1>1, <1>2, <1>3, <2>1, LinkedBelow
  <2>3. HashAt(g)' = tip.hash
    <3>1. CASE g = 0
        BY <2>1, <3>1 DEF HashAt
    <3>2. CASE g # 0
      <4>1. n'[g] = n[g]
        BY <2>2, <3>2
      <4> QED
        BY <2>1, <3>2, <4>1 DEF HashAt
    <3> QED
        BY <3>1, <3>2
  <2>4. Present(g + 1)' /\ PrevHash(n'[g + 1]) = HashAt(g)'
    BY <1>2, <1>3, <1>4, <2>3 DEF Present
  <2>5. \A h \in 1..(g + 1) : Present(h)' /\ PrevHash(n'[h]) = HashAt(h - 1)'
    <3> TAKE h \in 1..(g + 1)
    <3>1. CASE h = g + 1
        BY <1>1, <2>4, <3>1
    <3>2. CASE h \in 1..g
        BY <2>2, <3>2
    <3> QED
        BY <1>1, <3>1, <3>2
  <2> QED
    BY <1>1, <1>2, <1>4, <2>5 DEF ChainTo, HashAt
<1>6. TipInv'
    BY <1>1, <1>2 DEF TipInv, TipAt
<1>7. IndexInv'
  <2>1. DOMAIN n' \subseteq Nat \ {0}
    BY <1>1, <1>2 DEF CrashInv, IndexInv, Put
  <2>2. ASSUME NEW x \in DOMAIN row'
        PROVE  /\ row'[x] = [height |-> row'[x].height,
                             weight |-> row'[x].weight]
               /\ row'[x].height \in Nat
    <3>1. CASE x = b
        BY <1>1, <1>2, <3>1 DEF Put
    <3>2. CASE x # b
        BY <1>2, <2>2, <3>2 DEF Put, CrashInv, IndexInv
    <3> QED
        BY <3>1, <3>2
  <2>3. Indexed(t_tip)'
    BY <1>1, <1>2, <1>4 DEF Indexed
  <2> QED
    BY <2>1, <2>2, <2>3 DEF IndexInv
<1>8. MarkInv' /\ ReplayInv' /\ OldInv'
    BY <1>1, <1>2 DEF CrashInv, MarkInv, ReplayInv, OldInv
<1> QED
    BY <1>5, <1>6, <1>7, <1>8 DEF CrashInv


-----------------------------------------------------------------------------
(***************************************************************************)
(* reorg_to_branch up to the rebuild.                                      *)
(***************************************************************************)

\* What is put aside is the chain above the fork point.
LEMMA ReorgKeeps ==
    ASSUME CrashInv, NEW s \in Branch, reorg_to_branch(s)
    PROVE  CrashInv'
<1> USE ChainStoreAssumption
<1> DEFINE at == row[PrevHash(s[1])]
<1>1. /\ tip.height \in Nat
      /\ t_tip.height = tip.height /\ t_tip.hash = tip.hash
      /\ Indexed(t_tip)
    BY DEF CrashInv, TipInv, IndexInv, reorg_to_branch
<1>2. /\ s # <<>> /\ PrevHash(s[1]) \in DOMAIN row
      /\ (at.height + 1)..tip.height \subseteq DOMAIN n
      /\ reorg' = [fork |-> at.height, base |-> at.weight, branch |-> s,
                   old |-> Snapshot(at.height), old_tip |-> tip,
                   whole |-> FALSE]
      /\ dirty' = TRUE /\ pc' = "write_branch"
      /\ UNCHANGED <<row, n, t_tip, tip, derived, vec, good>>
    BY DEF reorg_to_branch, Assembled, memory
<1>3. at.height \in Nat
    BY <1>2 DEF CrashInv, IndexInv
<1>4. OldInv'
  <2>1. DOMAIN Snapshot(at.height) = 1..Larger(tip.height - at.height, 0)
    BY DEF Snapshot
  <2>2. ASSUME tip.height > at.height
        PROVE  Snapshot(at.height)[tip.height - at.height] = tip.hash
    <3>1. tip.height \in DOMAIN n
        BY <1>1, <1>2, <1>3, <2>2
    <3>2. tip.height - at.height \in 1..Larger(tip.height - at.height, 0)
        BY <1>1, <1>3, <2>2 DEF Larger
    <3>3. at.height + (tip.height - at.height) = tip.height
        BY <1>1, <1>3
    <3> QED
        BY <1>1, <3>1, <3>2, <3>3 DEF Snapshot, Indexed
  <2>3. Indexed(tip)'
    BY <1>1, <1>2 DEF Indexed
  <2>4. s \in Seq(Block)
    OBVIOUS
  <2> HIDE DEF at
  <2>5. /\ reorg'.fork = at.height /\ reorg'.old_tip = tip
        /\ reorg'.branch = s /\ reorg'.old = Snapshot(at.height)
        /\ reorg' = [fork |-> reorg'.fork, base |-> reorg'.base,
                     branch |-> reorg'.branch, old |-> reorg'.old,
                     old_tip |-> reorg'.old_tip, whole |-> reorg'.whole]
    BY <1>2
  <2>6. tip = [hash |-> tip.hash, height |-> tip.height,
               stamp |-> tip.stamp, weight |-> tip.weight]
    BY DEF CrashInv, TipInv
  <2>7. Indexed(reorg.old_tip)'
    BY <1>1, <1>2, <2>5 DEF Indexed
  <2> QED
    BY <1>1, <1>2, <1>3, <2>1, <2>2, <2>4, <2>5, <2>6, <2>7 DEF OldInv
<1>5. TornIsMarked' /\ MarkInv'
    BY <1>2 DEF TornIsMarked, MarkInv
<1>6. TipInv' /\ ReplayInv'
    BY <1>1, <1>2 DEF CrashInv, TipInv, ReplayInv
<1>7. IndexInv'
    BY <1>2, SameIndex DEF CrashInv
<1> QED
    BY <1>4, <1>5, <1>6, <1>7 DEF CrashInv

\* What the batch of write_branch leaves in the index and in the rows.
LEMMA Written ==
    ASSUME IndexInv, reorg.fork \in Nat,
           NEW k \in Nat, NEW blocks, DOMAIN blocks = 1..k,
           NEW top, write_branch(blocks, top)
    PROVE  /\ DOMAIN n' \subseteq Nat \ {0}
           /\ \A i \in 1..k : /\ reorg.fork + i \in DOMAIN n'
                              /\ n'[reorg.fork + i] = blocks[i]
           /\ \A h \in 0..reorg.fork : h \in DOMAIN n' =>
                 h \in DOMAIN n /\ n'[h] = n[h]
           /\ \A b \in DOMAIN row' :
                 /\ row'[b] = [height |-> row'[b].height,
                              weight |-> row'[b].weight]
                 /\ row'[b].height \in Nat
<1> DEFINE fork == reorg.fork
           height(i) == fork + i
           heights == {height(i) : i \in DOMAIN blocks}
           index == [h \in heights |-> blocks[h - fork]]
           at(b) == CHOOSE j \in DOMAIN blocks : blocks[j] = b
           placed == [b \in Blocks(blocks) |->
                        [height |-> height(at(b)),
                         weight |-> reorg.base + BranchPlays(blocks)[at(b)]]]
<1>1. n' = Override(n, index) /\ row' = Override(row, placed)
    BY DEF write_branch
<1>2. heights \subseteq (fork + 1)..(fork + k)
    OBVIOUS
<1>3. DOMAIN n' \subseteq Nat \ {0}
    BY <1>1, <1>2 DEF IndexInv, Override
<1>4. ASSUME NEW i \in 1..k
      PROVE  fork + i \in DOMAIN n' /\ n'[fork + i] = blocks[i]
  <2>1. fork + i \in heights
    OBVIOUS
  <2>2. (fork + i) - fork = i
    OBVIOUS
  <2>3. index[fork + i] = blocks[i] /\ DOMAIN index = heights
    BY <2>1, <2>2
  <2> HIDE DEF index, heights
  <2> QED
    BY <1>1, <2>1, <2>3 DEF Override
<1>5. ASSUME NEW h \in 0..fork, h \in DOMAIN n'
      PROVE  h \in DOMAIN n /\ n'[h] = n[h]
  <2>1. h \notin heights
    BY <1>2
  <2>2. DOMAIN index = heights
    OBVIOUS
  <2> HIDE DEF index, heights
  <2> QED
    BY <1>1, <1>5, <2>1, <2>2 DEF Override
<1>6. ASSUME NEW b \in DOMAIN row'
      PROVE  /\ row'[b] = [height |-> row'[b].height,
                           weight |-> row'[b].weight]
             /\ row'[b].height \in Nat
  <2>1. DOMAIN placed = Blocks(blocks)
    OBVIOUS
  <2>2. CASE b \in Blocks(blocks)
    <3>1. at(b) \in 1..k
        BY <2>2 DEF Blocks
    <3>2. placed[b] = [height |-> height(at(b)),
                       weight |-> reorg.base + BranchPlays(blocks)[at(b)]]
        BY <2>2
    <3>3. height(at(b)) \in Nat
        BY <3>1
    <3> HIDE DEF placed, height, at
    <3>4. row'[b] = placed[b]
        BY <1>1, <2>1, <2>2 DEF Override
    <3> QED
        BY <3>2, <3>3, <3>4
  <2>3. CASE b \notin Blocks(blocks)
    <3> HIDE DEF placed
    <3>1. b \in DOMAIN row /\ row'[b] = row[b]
        BY <1>1, <1>6, <2>1, <2>3 DEF Override
    <3> QED
        BY <3>1 DEF IndexInv
  <2> QED
    BY <2>2, <2>3
<1> QED
    BY <1>3, <1>4, <1>5, <1>6

\* The facts every step between two operations starts from.
LEMMA Underway ==
    ASSUME CrashInv, pc # "idle"
    PROVE  /\ reorg.fork \in Nat /\ reorg.old_tip.height \in Nat
           /\ reorg.branch \in Seq(Block)
           /\ DOMAIN reorg.old
                 = 1..Larger(reorg.old_tip.height - reorg.fork, 0)
           /\ Larger(reorg.old_tip.height - reorg.fork, 0) \in Nat
<1>1. OldInv
    BY DEF CrashInv
<1>2. reorg.fork \in Nat /\ reorg.old_tip.height \in Nat
    BY <1>1 DEF OldInv
<1> QED
    BY <1>1, <1>2 DEF OldInv, Larger

LEMMA WriteBranchKeeps ==
    ASSUME CrashInv, WriteBranch
    PROVE  CrashInv'
<1> DEFINE b == reorg.branch
           k == Len(b)
           top == TipAt(Top(b), reorg.fork + k,
                        reorg.base + BranchPlays(b)[k])
<1>1. /\ pc = "write_branch" /\ pc' = "trim"
      /\ write_branch(b, top)
      /\ UNCHANGED <<dirty, derived, vec, good, reorg>>
    BY DEF WriteBranch, locals
<1>2. reorg.fork \in Nat /\ b \in Seq(Block) /\ b # <<>> /\ dirty
    BY <1>1 DEF CrashInv, OldInv, MarkInv, Pcs
<1>3. k \in Nat \ {0} /\ DOMAIN b = 1..k
    BY <1>2
<1>4. /\ tip' = top /\ t_tip' = [hash |-> top.hash, height |-> top.height]
      /\ top.height = reorg.fork + k /\ top.hash = b[k]
      /\ top = [hash |-> top.hash, height |-> top.height,
                stamp |-> top.stamp, weight |-> top.weight]
    BY <1>1 DEF write_branch, TipAt, Top
<1> HIDE DEF top
<1>5. /\ DOMAIN n' \subseteq Nat \ {0}
      /\ n'[reorg.fork + k] = b[k]
      /\ \A h \in 0..reorg.fork : h \in DOMAIN n' =>
            h \in DOMAIN n /\ n'[h] = n[h]
      /\ \A x \in DOMAIN row' :
            /\ row'[x] = [height |-> row'[x].height,
                         weight |-> row'[x].weight]
            /\ row'[x].height \in Nat
  <2> HIDE DEF b, k
  <2>1. IndexInv /\ k \in Nat /\ k \in 1..k
    BY <1>3 DEF CrashInv
  <2> QED
    BY <1>1, <1>2, <1>3, <2>1, Written
<1>6. TipInv'
    BY <1>2, <1>3, <1>4 DEF TipInv
<1>7. IndexInv'
    BY <1>2, <1>3, <1>4, <1>5 DEF IndexInv, Indexed
<1>8. OldInv'
  <2>1. ASSUME reorg.old_tip.height <= reorg.fork
        PROVE  Indexed(reorg.old_tip)'
    <3>1. reorg.old_tip.height \in Nat /\ Indexed(reorg.old_tip)
        BY <1>1, <1>2, <2>1 DEF CrashInv, OldInv
    <3>2. reorg.old_tip.height \in 0..reorg.fork
        BY <1>2, <2>1, <3>1
    <3> QED
        BY <1>1, <1>5, <3>1, <3>2 DEF Indexed
  <2>2. reorg.old_tip.height \in Nat
    BY <1>1, Underway
  <2>3. OldInv
    BY DEF CrashInv
  <2> QED
    BY <1>1, <1>2, <2>1, <2>2, <2>3 DEF OldInv
<1>9. TornIsMarked' /\ MarkInv' /\ ReplayInv'
    BY <1>1, <1>2 DEF CrashInv, TornIsMarked, MarkInv, ReplayInv
<1> QED
    BY <1>6, <1>7, <1>8, <1>9 DEF CrashInv

\* Rows of the index disappear; none changes.
LEMMA FewerRows ==
    ASSUME IndexInv, NEW S, n' = Without(n, S), UNCHANGED <<row, t_tip>>
    PROVE  /\ IndexInv'
           /\ UNCHANGED reorg /\ Indexed(reorg.old_tip)
                => Indexed(reorg.old_tip)'
BY DEF IndexInv, Indexed, Without

LEMMA TrimKeeps ==
    ASSUME CrashInv, Trim
    PROVE  CrashInv'
<1>1. /\ pc = "trim" /\ pc' = "arm" /\ dirty /\ dirty'
      /\ UNCHANGED <<row, t_tip, tip, derived, vec, good, reorg>>
    BY DEF Trim, memory, CrashInv, MarkInv, Pcs
<1>2. IndexInv' /\ (Indexed(reorg.old_tip) => Indexed(reorg.old_tip)')
    BY <1>1, FewerRows DEF Trim, CrashInv
<1>3. TornIsMarked' /\ MarkInv' /\ TipInv' /\ ReplayInv'
    BY <1>1 DEF CrashInv, TornIsMarked, MarkInv, TipInv, ReplayInv
<1>4. OldInv'
    BY <1>1, <1>2 DEF CrashInv, OldInv
<1> QED
    BY <1>2, <1>3, <1>4 DEF CrashInv

-----------------------------------------------------------------------------
(***************************************************************************)
(* rebuild_derived_state.                                                  *)
(***************************************************************************)

LEMMA ArmKeeps ==
    ASSUME CrashInv, Arm
    PROVE  CrashInv'
<1>1. /\ pc = "arm" /\ pc' = "clear" /\ dirty'
      /\ UNCHANGED <<row, n, t_tip, tip, derived, vec, good, reorg>>
    BY DEF Arm, memory, locals
<1>2. TornIsMarked' /\ MarkInv' /\ TipInv' /\ ReplayInv'
    BY <1>1 DEF CrashInv, TornIsMarked, MarkInv, TipInv, ReplayInv
<1>3. OldInv'
    BY <1>1 DEF CrashInv, OldInv, Indexed
<1> QED
    BY <1>1, <1>2, <1>3, SameIndex DEF CrashInv

\* The empty state is that of no blocks.
LEMMA ClearKeeps ==
    ASSUME CrashInv, ClearDerived
    PROVE  CrashInv'
<1>1. /\ pc = "clear" /\ pc' = "replay" /\ dirty /\ dirty'
      /\ derived' = NoBlock /\ good' = 0
      /\ UNCHANGED <<row, n, t_tip, tip, vec, reorg>>
    BY DEF ClearDerived, memory, CrashInv, MarkInv, Pcs
<1>2. TornIsMarked' /\ MarkInv' /\ TipInv'
    BY <1>1 DEF CrashInv, TornIsMarked, MarkInv, TipInv
<1>3. ReplayInv'
    BY <1>1 DEF CrashInv, TipInv, ReplayInv, DerivedTo, HashAt
<1>4. OldInv'
    BY <1>1 DEF CrashInv, OldInv, Indexed
<1> QED
    BY <1>1, <1>2, <1>3, <1>4, SameIndex DEF CrashInv

\* One more block is derived.
LEMMA ReplayBlockKeeps ==
    ASSUME CrashInv, ReplayBlock
    PROVE  CrashInv'
<1>0. PICK g \in Nat : g = good
    BY DEF CrashInv, ReplayInv
<1>1. /\ pc = "replay" /\ pc' = "replay" /\ dirty /\ dirty'
      /\ g < tip.height /\ tip.height \in Nat
      /\ Present(g + 1) /\ PrevHash(n[g + 1]) = HashAt((g + 1) - 1)
      /\ good' = g + 1 /\ derived' = n[g + 1]
      /\ row' = [row EXCEPT ![n[g + 1]].weight = cum']
      /\ UNCHANGED <<n, t_tip, tip, reorg>>
    BY <1>0 DEF ReplayBlock, Replays, memory, CrashInv, MarkInv, Pcs, TipInv
<1>2. DOMAIN row' = DOMAIN row
    BY <1>1
<1>3. TornIsMarked' /\ MarkInv' /\ TipInv'
    BY <1>1 DEF CrashInv, TornIsMarked, MarkInv, TipInv
<1>4. ReplayInv'
  <2>1. \A h \in 1..g : Present(h) /\ PrevHash(n[h]) = HashAt(h - 1)
    BY <1>0, <1>1 DEF CrashInv, ReplayInv, DerivedTo
  <2>2. \A h \in 1..(g + 1) : Present(h) /\ PrevHash(n[h]) = HashAt(h - 1)
    <3> TAKE h \in 1..(g + 1)
    <3>1. h = g + 1 \/ h \in 1..g
        OBVIOUS
    <3> QED
        BY <1>1, <2>1, <3>1
  <2>3. DerivedTo(g + 1)'
    BY <1>1, <1>2, <2>2 DEF DerivedTo, Present, HashAt
  <2> QED
    BY <1>1, <2>3 DEF ReplayInv, DerivedTo, Present, HashAt
<1>5. IndexInv'
  <2>1. ASSUME NEW x \in DOMAIN row'
        PROVE  /\ row'[x] = [height |-> row'[x].height,
                             weight |-> row'[x].weight]
               /\ row'[x].height \in Nat
    <3>1. /\ row[x] = [height |-> row[x].height, weight |-> row[x].weight]
          /\ row[x].height \in Nat /\ x \in DOMAIN row
        BY <1>2, <2>1 DEF CrashInv, IndexInv
    <3>2. CASE x # n[g + 1]
        BY <1>1, <3>1, <3>2
    <3>3. CASE x = n[g + 1]
      <4>1. row'[x] = [row[x] EXCEPT !.weight = cum']
        BY <1>1, <3>1, <3>3
      <4> QED
        BY <3>1, <4>1
    <3> QED
        BY <3>2, <3>3
  <2> QED
    BY <1>1, <2>1 DEF CrashInv, IndexInv, Indexed
<1>6. OldInv'
    BY <1>1 DEF CrashInv, OldInv, Indexed
<1> QED
    BY <1>3, <1>4, <1>5, <1>6 DEF CrashInv

\* A rebuild that gives up stays marked.
LEMMA ReplayMissingKeeps ==
    ASSUME CrashInv, ReplayMissing
    PROVE  CrashInv'
<1>1. /\ pc = "replay" /\ pc' \in {"judge", "idle"} /\ dirty /\ dirty'
      /\ UNCHANGED <<row, n, t_tip, tip, derived, vec, good, reorg>>
    BY DEF ReplayMissing, Return, disk, memory, locals, CrashInv, MarkInv, Pcs
<1>2. TornIsMarked' /\ MarkInv' /\ TipInv' /\ ReplayInv'
    BY <1>1 DEF CrashInv, TornIsMarked, MarkInv, TipInv, ReplayInv
<1>3. OldInv'
    BY <1>1 DEF CrashInv, OldInv, Indexed
<1> QED
    BY <1>1, <1>2, <1>3, SameIndex DEF CrashInv

\* At the tip the derived state is that of the tip's block, which the index
\* names because the replay found a row there.
LEMMA ReplayEndKeeps ==
    ASSUME CrashInv, ReplayEnd
    PROVE  CrashInv'
<1>1. /\ pc = "replay" /\ dirty /\ dirty'
      /\ pc' = IF good < tip.height THEN "rollback" ELSE "persist"
      /\ tip' = [tip EXCEPT !.weight = cum]
      /\ UNCHANGED <<row, n, t_tip, derived, vec, good, reorg>>
    BY DEF ReplayEnd, disk, locals, CrashInv, MarkInv, Pcs
<1>2. /\ tip = [hash |-> tip.hash, height |-> tip.height,
                stamp |-> tip.stamp, weight |-> tip.weight]
      /\ tip.height \in Nat /\ t_tip.height = tip.height
      /\ t_tip.hash = tip.hash
    BY <1>1 DEF CrashInv, TipInv
<1>3. /\ tip'.hash = tip.hash /\ tip'.height = tip.height
      /\ tip' = [hash |-> tip'.hash, height |-> tip'.height,
                 stamp |-> tip'.stamp, weight |-> tip'.weight]
    BY <1>1, <1>2
<1>4. TornIsMarked' /\ MarkInv' /\ TipInv'
    BY <1>1, <1>2, <1>3 DEF CrashInv, TornIsMarked, MarkInv, TipInv
<1>5. ReplayInv'
  <2>1. DerivedTo(good) /\ good <= tip.height /\ good \in Nat
    BY <1>1 DEF CrashInv, ReplayInv
  <2>2. DerivedTo(good)'
    BY <1>1, <2>1 DEF DerivedTo, Present, HashAt
  <2>3. CASE good < tip.height
    BY <1>1, <1>3, <2>1, <2>2, <2>3 DEF ReplayInv
  <2>4. CASE ~ (good < tip.height)
    <3>1. good = tip.height
        BY <1>2, <2>1, <2>4
    <3>2. tip.hash = HashAt(tip.height)
      <4>1. Indexed(t_tip)
        BY DEF CrashInv, IndexInv
      <4>2. CASE tip.height = 0
        BY <1>2, <4>1, <4>2 DEF Indexed, HashAt
      <4>3. CASE tip.height # 0
        <5>1. tip.height \in 1..good
            BY <1>2, <3>1, <4>3
        <5>2. tip.height \in DOMAIN n
            BY <2>1, <5>1 DEF DerivedTo, Present
        <5> QED
            BY <1>2, <4>1, <4>3, <5>2 DEF Indexed, HashAt
      <4> QED
        BY <4>2, <4>3
    <3>3. DerivedTo(tip.height)'
        BY <1>1, <1>3, <2>2, <3>1 DEF DerivedTo, Present, HashAt
    <3>4. tip'.hash = HashAt(tip.height)'
        BY <1>1, <1>3, <3>2 DEF HashAt
    <3> QED
        BY <1>1, <1>3, <2>1, <2>4, <3>3, <3>4 DEF ReplayInv
  <2> QED
    BY <2>3, <2>4
<1>6. OldInv'
    BY <1>1 DEF CrashInv, OldInv, Indexed
<1> QED
    BY <1>1, <1>4, <1>5, <1>6, SameIndex DEF CrashInv

LEMMA RollbackKeeps ==
    ASSUME CrashInv, Rollback
    PROVE  CrashInv'
<1>0. PICK g \in Nat : g = good
    BY DEF CrashInv, ReplayInv
<1>1. /\ pc = "rollback" /\ pc' = "persist" /\ dirty /\ dirty'
      /\ tip' = [tip EXCEPT !.hash = HashAt(g), !.height = g]
      /\ t_tip' = [hash |-> HashAt(g), height |-> g]
      /\ UNCHANGED <<row, n, derived, vec, good, reorg>>
    BY <1>0 DEF Rollback, locals, CrashInv, MarkInv, Pcs
<1>2. tip = [hash |-> tip.hash, height |-> tip.height,
             stamp |-> tip.stamp, weight |-> tip.weight]
    BY DEF CrashInv, TipInv
<1>3. /\ tip'.hash = HashAt(g) /\ tip'.height = g
      /\ tip' = [hash |-> tip'.hash, height |-> tip'.height,
                 stamp |-> tip'.stamp, weight |-> tip'.weight]
    BY <1>1, <1>2
<1>4. TornIsMarked' /\ MarkInv' /\ TipInv'
    BY <1>1, <1>3 DEF TornIsMarked, MarkInv, TipInv
<1>5. IndexInv'
    BY <1>1 DEF CrashInv, IndexInv, Indexed, HashAt
<1>6. ReplayInv'
  <2>1. DerivedTo(g)
    BY <1>0, <1>1 DEF CrashInv, ReplayInv
  <2> QED
    BY <1>0, <1>1, <1>3, <2>1 DEF ReplayInv, DerivedTo, Present, HashAt
<1>7. OldInv'
    BY <1>1 DEF CrashInv, OldInv, Indexed
<1> QED
    BY <1>4, <1>5, <1>6, <1>7 DEF CrashInv

LEMMA PersistKeeps ==
    ASSUME CrashInv, Persist
    PROVE  CrashInv'
<1>1. /\ pc = "persist" /\ pc' = "disarm" /\ dirty /\ dirty'
      /\ vec' = tip.hash
      /\ UNCHANGED <<row, n, t_tip, tip, derived, good, reorg>>
    BY DEF Persist, locals, CrashInv, MarkInv, Pcs
<1>2. TornIsMarked' /\ MarkInv' /\ TipInv'
    BY <1>1 DEF CrashInv, TornIsMarked, MarkInv, TipInv
<1>3. ReplayInv'
    BY <1>1 DEF CrashInv, ReplayInv, DerivedTo, Present, HashAt
<1>4. OldInv'
    BY <1>1 DEF CrashInv, OldInv, Indexed
<1> QED
    BY <1>1, <1>2, <1>3, <1>4, SameIndex DEF CrashInv

\* The mark is taken off only when everything agrees.
LEMMA DisarmKeeps ==
    ASSUME CrashInv, Disarm
    PROVE  CrashInv'
<1>1. /\ pc = "disarm" /\ pc' \in {"judge", "idle"} /\ dirty' = FALSE
      /\ UNCHANGED <<row, n, t_tip, tip, derived, vec, good, reorg>>
    BY DEF Disarm, Return, memory, locals
<1>2. TornIsMarked'
  <2>1. t_tip.hash = tip.hash /\ t_tip.height = tip.height
    BY <1>1 DEF CrashInv, TipInv
  <2>2. /\ DerivedTo(tip.height) /\ tip.hash = HashAt(tip.height)
        /\ vec = tip.hash
    BY <1>1 DEF CrashInv, ReplayInv
  <2>3. ChainTo(t_tip) /\ derived = t_tip.hash /\ vec = t_tip.hash
    BY <2>1, <2>2 DEF ChainTo, DerivedTo
  <2> QED
    BY <1>1, <2>3 DEF TornIsMarked, ChainTo, Present, HashAt
<1>3. MarkInv' /\ TipInv' /\ ReplayInv'
    BY <1>1 DEF CrashInv, MarkInv, TipInv, ReplayInv
<1>4. OldInv'
    BY <1>1 DEF CrashInv, OldInv, Indexed
<1> QED
    BY <1>1, <1>2, <1>3, <1>4, SameIndex DEF CrashInv

-----------------------------------------------------------------------------
(***************************************************************************)
(* reorg_to_branch after the rebuild.                                      *)
(***************************************************************************)

LEMMA AdoptedKeeps ==
    ASSUME CrashInv, Adopted
    PROVE  CrashInv'
<1>1. /\ pc = "judge" /\ pc' = "idle"
      /\ UNCHANGED <<row, n, t_tip, tip, dirty, derived, vec, good, reorg>>
    BY DEF Adopted, disk, memory, locals
<1>2. TornIsMarked'
    BY <1>1 DEF CrashInv, TornIsMarked, ChainTo, Present, HashAt
<1>3. MarkInv' /\ TipInv' /\ ReplayInv' /\ OldInv'
    BY <1>1 DEF CrashInv, MarkInv, TipInv, ReplayInv, OldInv
<1> QED
    BY <1>1, <1>2, <1>3, SameIndex DEF CrashInv

LEMMA AbortKeeps ==
    ASSUME CrashInv, Abort
    PROVE  CrashInv'
<1>1. /\ pc = "judge" /\ pc' = "drop" /\ dirty'
      /\ UNCHANGED <<row, n, t_tip, tip, derived, vec, good>>
      /\ reorg' = [reorg EXCEPT !.whole = Blocks(reorg.old) \subseteq DOMAIN row]
    BY DEF Abort, memory
<1>2. TornIsMarked' /\ MarkInv' /\ TipInv' /\ ReplayInv'
    BY <1>1 DEF CrashInv, TornIsMarked, MarkInv, TipInv, ReplayInv
<1>3. OldInv'
  <2>1. OldInv /\ pc # "idle"
    BY <1>1 DEF CrashInv
  <2>2. /\ reorg'.fork = reorg.fork /\ reorg'.branch = reorg.branch
        /\ reorg'.old = reorg.old /\ reorg'.old_tip = reorg.old_tip
        /\ reorg' = [fork |-> reorg'.fork, base |-> reorg'.base,
                     branch |-> reorg'.branch, old |-> reorg'.old,
                     old_tip |-> reorg'.old_tip, whole |-> reorg'.whole]
    BY <1>1, <2>1 DEF OldInv
  <2> QED
    BY <1>1, <2>1, <2>2 DEF OldInv, Indexed
<1> QED
    BY <1>1, <1>2, <1>3, SameIndex DEF CrashInv

LEMMA DropKeeps ==
    ASSUME CrashInv, DropBranch
    PROVE  CrashInv'
<1>1. /\ pc = "drop" /\ pc' = "clear_n" /\ dirty /\ dirty'
      /\ row' = Without(row, Blocks(reorg.branch))
      /\ UNCHANGED <<n, t_tip, tip, derived, vec, good, reorg>>
    BY DEF DropBranch, memory, locals, CrashInv, MarkInv, Pcs
<1>2. TornIsMarked' /\ MarkInv' /\ TipInv' /\ ReplayInv'
    BY <1>1 DEF CrashInv, TornIsMarked, MarkInv, TipInv, ReplayInv
<1>3. IndexInv'
    BY <1>1 DEF CrashInv, IndexInv, Indexed, Without
<1>4. OldInv'
    BY <1>1 DEF CrashInv, OldInv, Indexed
<1> QED
    BY <1>2, <1>3, <1>4 DEF CrashInv

LEMMA ClearNKeeps ==
    ASSUME CrashInv, ClearN
    PROVE  CrashInv'
<1>1. /\ pc = "clear_n" /\ pc' \in {"write_old", "idle"} /\ dirty /\ dirty'
      /\ UNCHANGED <<row, t_tip, tip, derived, vec, good, reorg>>
    BY DEF ClearN, memory, locals, CrashInv, MarkInv, Pcs
<1>2. IndexInv' /\ (Indexed(reorg.old_tip) => Indexed(reorg.old_tip)')
    BY <1>1, FewerRows DEF ClearN, CrashInv
<1>3. TornIsMarked' /\ MarkInv' /\ TipInv' /\ ReplayInv'
    BY <1>1 DEF CrashInv, TornIsMarked, MarkInv, TipInv, ReplayInv
<1>4. OldInv'
    BY <1>1, <1>2 DEF CrashInv, OldInv
<1> QED
    BY <1>2, <1>3, <1>4 DEF CrashInv

\* The old tip comes back together with the block the index has for it.
LEMMA WriteOldKeeps ==
    ASSUME CrashInv, WriteOld
    PROVE  CrashInv'
<1> DEFINE fork == reorg.fork
           old == reorg.old
           old_tip == reorg.old_tip
           k == Larger(old_tip.height - fork, 0)
<1>1. /\ pc = "write_old" /\ pc' = "arm" /\ dirty /\ dirty'
      /\ write_branch(old, old_tip)
      /\ UNCHANGED <<derived, vec, good, reorg>>
    BY DEF WriteOld, CrashInv, MarkInv, Pcs
<1>2. OldInv /\ IndexInv
    BY DEF CrashInv
<1>3. /\ fork \in Nat /\ old_tip.height \in Nat
      /\ DOMAIN old = 1..k /\ k \in Nat
    BY <1>1, Underway
<1>4. /\ tip' = old_tip
      /\ t_tip' = [hash |-> old_tip.hash, height |-> old_tip.height]
      /\ old_tip = [hash |-> old_tip.hash, height |-> old_tip.height,
                    stamp |-> old_tip.stamp, weight |-> old_tip.weight]
    BY <1>1, <1>2 DEF write_branch, OldInv
<1>5. /\ DOMAIN n' \subseteq Nat \ {0}
      /\ \A i \in 1..k : n'[fork + i] = old[i]
      /\ \A h \in 0..fork : h \in DOMAIN n' => h \in DOMAIN n /\ n'[h] = n[h]
      /\ \A x \in DOMAIN row' :
            /\ row'[x] = [height |-> row'[x].height,
                         weight |-> row'[x].weight]
            /\ row'[x].height \in Nat
  <2> HIDE DEF k
  <2> QED
    BY <1>1, <1>2, <1>3, Written
<1>6. Indexed(reorg.old_tip)'
  <2>1. CASE old_tip.height > fork
    <3>1. old[old_tip.height - fork] = old_tip.hash
        BY <1>1, <1>2, <2>1 DEF OldInv
    <3>2. /\ old_tip.height - fork \in 1..k
          /\ fork + (old_tip.height - fork) = old_tip.height
        BY <1>3, <2>1 DEF Larger
    <3>3. n'[old_tip.height] = old_tip.hash
        BY <1>5, <3>1, <3>2
    <3> QED
        BY <1>1, <1>3, <2>1, <3>3 DEF Indexed
  <2>2. CASE ~ (old_tip.height > fork)
    <3>1. Indexed(old_tip) /\ old_tip.height \in 0..fork
        BY <1>1, <1>2, <1>3, <2>2 DEF OldInv
    <3> QED
        BY <1>1, <1>5, <3>1 DEF Indexed
  <2> QED
    BY <2>1, <2>2
<1>7. TipInv'
    BY <1>1, <1>3, <1>4 DEF TipInv
<1>8. IndexInv'
    BY <1>1, <1>4, <1>5, <1>6 DEF IndexInv, Indexed
<1>9. OldInv'
    BY <1>1, <1>2, <1>6 DEF OldInv
<1>10. TornIsMarked' /\ MarkInv' /\ ReplayInv'
    BY <1>1 DEF CrashInv, TornIsMarked, MarkInv, ReplayInv
<1> QED
    BY <1>7, <1>8, <1>9, <1>10 DEF CrashInv

-----------------------------------------------------------------------------
\* A crash loses memory and locals, and nothing on disk.
LEMMA CrashKeeps ==
    ASSUME CrashInv, Crash
    PROVE  CrashInv'
<1>1. /\ pc' = "down" /\ tip' = NoTip /\ good' = 0 /\ reorg' = NoReorg
      /\ UNCHANGED <<row, n, t_tip, dirty, derived, vec>>
    BY DEF Crash, disk
<1>2. TornIsMarked'
    BY <1>1 DEF CrashInv, TornIsMarked, ChainTo, Present, HashAt
<1>3. MarkInv' /\ TipInv' /\ ReplayInv'
    BY <1>1 DEF CrashInv, MarkInv, TipInv, ReplayInv, NoTip
<1>4. IndexInv'
    BY <1>1, SameIndex DEF CrashInv
<1>5. OldInv'
    BY <1>1, <1>4 DEF OldInv, IndexInv, Indexed, NoReorg, NoTip, Larger
<1> QED
    BY <1>2, <1>3, <1>4, <1>5 DEF CrashInv

LEMMA BootKeeps ==
    ASSUME CrashInv, Boot
    PROVE  CrashInv'
<1>1. /\ pc = "down" /\ tip' = load_tip
      /\ pc' = IF t_tip.height > 0 /\ dirty THEN "arm" ELSE "idle"
      /\ UNCHANGED <<row, n, t_tip, dirty, derived, vec, good, reorg>>
    BY DEF Boot, disk, locals
<1>2. /\ tip'.hash = t_tip.hash /\ tip'.height = t_tip.height
      /\ tip' = [hash |-> tip'.hash, height |-> tip'.height,
                 stamp |-> tip'.stamp, weight |-> tip'.weight]
    BY <1>1 DEF load_tip, TipAt, NoTip
<1>3. TornIsMarked'
    BY <1>1 DEF CrashInv, TornIsMarked, ChainTo, Present, HashAt
<1>4. MarkInv' /\ TipInv' /\ ReplayInv'
    BY <1>1, <1>2 DEF CrashInv, MarkInv, TipInv, ReplayInv
<1>5. OldInv'
    BY <1>1 DEF CrashInv, OldInv, Indexed
<1> QED
    BY <1>1, <1>3, <1>4, <1>5, SameIndex DEF CrashInv

LEMMA CrashInvStep == CrashInv /\ [Next]_vars => CrashInv'
<1> SUFFICES ASSUME CrashInv, [Next]_vars PROVE CrashInv'
    OBVIOUS
<1>1. CASE Step
  <2>1. CASE Rebuild
    BY <2>1, ArmKeeps, ClearKeeps, ReplayBlockKeeps, ReplayMissingKeeps,
       ReplayEndKeeps, RollbackKeeps, PersistKeeps, DisarmKeeps DEF Rebuild
  <2> QED
    BY <1>1, <2>1, ConnectKeeps, ReorgKeeps, WriteBranchKeeps, TrimKeeps,
       AdoptedKeeps, AbortKeeps, DropKeeps, ClearNKeeps, WriteOldKeeps,
       CrashKeeps, BootKeeps DEF Step
<1>2. CASE UNCHANGED vars
  <2>1. UNCHANGED <<row, n, t_tip, tip, dirty, derived, vec, good, reorg, pc>>
    BY <1>2 DEF vars, disk, memory, locals
  <2>2. TornIsMarked'
    BY <2>1 DEF CrashInv, TornIsMarked, ChainTo, Present, HashAt
  <2>3. MarkInv' /\ TipInv'
    BY <2>1 DEF CrashInv, MarkInv, TipInv
  <2>4. ReplayInv'
    BY <2>1 DEF CrashInv, ReplayInv, DerivedTo, Present, HashAt
  <2>5. OldInv'
    BY <2>1 DEF CrashInv, OldInv, Indexed
  <2> QED
    BY <2>1, <2>2, <2>3, <2>4, <2>5, SameIndex DEF CrashInv
<1> QED
    BY <1>1, <1>2 DEF Next

\* The strengthened invariant of the chain store: whatever the writes of
\* connect_block, reorg_to_branch, rebuild_derived_state and init are
\* interrupted by, CrashInv holds.
THEOREM CrashInvariant == Spec => []CrashInv
<1>1. Init => CrashInv
    BY CrashInvInit
<1>2. CrashInv /\ [Next]_vars => CrashInv'
    BY CrashInvStep
<1> QED
    BY <1>1, <1>2, PTL DEF Spec

\* Crash atomicity: no tree of blocks, no bad block and no number of crashes
\* leaves t:tip, the index, the derived state and sr:vec in disagreement
\* without sr:dirty being on disk.
THEOREM TornAlwaysMarked == Spec => []TornIsMarked
<1>1. CrashInv => TornIsMarked
    BY DEF CrashInv
<1> QED
    BY <1>1, CrashInvariant, PTL

-----------------------------------------------------------------------------
(***************************************************************************)
(* One chain: after every operation and restart, from CrashInv and         *)
(* ServeInv, for every set of pins that leaves the genesis block alone.    *)
(***************************************************************************)

\* Facts about CrashInv that the steps below start from.
LEMMA TipFacts ==
    ASSUME CrashInv
    PROVE  /\ tip.height \in Nat /\ t_tip.height \in Nat
           /\ pc # "down" => tip.height = t_tip.height /\ tip.hash = t_tip.hash
           /\ DOMAIN n \subseteq Nat \ {0}
           /\ \A b \in DOMAIN row : row[b].height \in Nat
           /\ good \in Nat
           /\ pc = "rollback" => good <= tip.height
BY DEF CrashInv, TipInv, IndexInv, ReplayInv

LEMMA GenesisPinned ==
    ASSUME PinsKeepGenesis, NEW b \in Block, apply_checkpoint(b),
           1 \in DOMAIN cp => cp[1] = Genesis
    PROVE  1 \in DOMAIN cp' => cp'[1] = Genesis
BY ChainStoreAssumption DEF PinsKeepGenesis, apply_checkpoint, Put

LEMMA PutKeeps ==
    ASSUME NEW f, NEW h, NEW v, 1 \in DOMAIN f => f[1] = Genesis,
           h = 1 => v = Genesis
    PROVE  1 \in DOMAIN Put(f, h, v) => Put(f, h, v)[1] = Genesis
BY DEF Put

LEMMA OverrideKeeps ==
    ASSUME NEW f, NEW g, 1 \in DOMAIN f => f[1] = Genesis,
           1 \in DOMAIN g => g[1] = Genesis
    PROVE  1 \in DOMAIN Override(f, g) => Override(f, g)[1] = Genesis
BY DEF Override

\* The steps that leave rows, index and pins alone.
LEMMA SameRoot ==
    ASSUME RootInv, UNCHANGED <<row, n, t_tip, cp, pins, reorg>>,
           pc' = "down" => caller' = "init",
           pc' = "rollback" => good' >= 1,
           (Trying \/ Restoring)' => Trying \/ Restoring
    PROVE  RootInv'
BY DEF RootInv

\* What the batch of write_branch leaves of the rows.
LEMMA WrittenRows ==
    ASSUME reorg.fork \in Nat, NEW k \in Nat,
           NEW blocks, DOMAIN blocks = 1..k,
           \A i, j \in DOMAIN blocks : blocks[i] = blocks[j] => i = j,
           NEW top, write_branch(blocks, top)
    PROVE  /\ DOMAIN n \subseteq DOMAIN n'
           /\ DOMAIN row' = DOMAIN row \cup Blocks(blocks)
           /\ \A b \in DOMAIN row \ Blocks(blocks) : row'[b] = row[b]
           /\ \A i \in 1..k : row'[blocks[i]].height = reorg.fork + i
<1> DEFINE fork == reorg.fork
           at(b) == CHOOSE j \in DOMAIN blocks : blocks[j] = b
           heights == {fork + i : i \in DOMAIN blocks}
           index == [h \in heights |-> blocks[h - fork]]
           placed == [b \in Blocks(blocks) |->
                        [height |-> fork + at(b),
                         weight |-> reorg.base + BranchPlays(blocks)[at(b)]]]
<1>1. n' = Override(n, index) /\ row' = Override(row, placed)
    BY DEF write_branch
<1>2. DOMAIN placed = Blocks(blocks)
    OBVIOUS
<1>3. ASSUME NEW i \in 1..k
      PROVE  blocks[i] \in Blocks(blocks) /\ placed[blocks[i]].height = fork + i
  <2>1. blocks[i] \in Blocks(blocks)
    BY DEF Blocks
  <2>2. at(blocks[i]) = i
    OBVIOUS
  <2>3. placed[blocks[i]] =
           [height |-> fork + at(blocks[i]),
            weight |-> reorg.base + BranchPlays(blocks)[at(blocks[i])]]
    BY <2>1
  <2> HIDE DEF placed, at
  <2> QED
    BY <2>1, <2>2, <2>3
<1> HIDE DEF placed, index
<1> QED
    BY <1>1, <1>2, <1>3 DEF Override

\* A batch that starts on sized heights and writes none of their blocks leaves
\* all heights up to its last one sized.
LEMMA SizedWritten ==
    ASSUME IndexInv, reorg.fork \in Nat, NEW k \in Nat,
           NEW blocks, DOMAIN blocks = 1..k,
           \A i, j \in DOMAIN blocks : blocks[i] = blocks[j] => i = j,
           NEW top, write_branch(blocks, top),
           Sized(reorg.fork),
           \A h \in 1..reorg.fork : n[h] \notin Blocks(blocks)
    PROVE  /\ \A h \in 1..(reorg.fork + k) :
                 Present(h)' /\ row'[n'[h]].height = h
           /\ \A h \in 1..reorg.fork : n'[h] = n[h]
           /\ DOMAIN row \subseteq DOMAIN row'
<1>1. /\ \A i \in 1..k : /\ reorg.fork + i \in DOMAIN n'
                         /\ n'[reorg.fork + i] = blocks[i]
      /\ \A h \in 0..reorg.fork : h \in DOMAIN n' =>
            h \in DOMAIN n /\ n'[h] = n[h]
    BY Written
<1>2. /\ DOMAIN n \subseteq DOMAIN n'
      /\ DOMAIN row' = DOMAIN row \cup Blocks(blocks)
      /\ \A b \in DOMAIN row \ Blocks(blocks) : row'[b] = row[b]
      /\ \A i \in 1..k : row'[blocks[i]].height = reorg.fork + i
    BY WrittenRows
<1>3. ASSUME NEW h \in 1..reorg.fork
      PROVE  n'[h] = n[h] /\ Present(h)' /\ row'[n'[h]].height = h
    BY <1>1, <1>2 DEF Sized, Present
<1>4. ASSUME NEW h \in (reorg.fork + 1)..(reorg.fork + k)
      PROVE  Present(h)' /\ row'[n'[h]].height = h
  <2>1. h - reorg.fork \in 1..k /\ reorg.fork + (h - reorg.fork) = h
    OBVIOUS
  <2>2. /\ h \in DOMAIN n' /\ n'[h] = blocks[h - reorg.fork]
        /\ row'[blocks[h - reorg.fork]].height = h
    BY <1>1, <1>2, <2>1
  <2>3. blocks[h - reorg.fork] \in Blocks(blocks)
    BY <2>1 DEF Blocks
  <2> QED
    BY <1>2, <2>2, <2>3 DEF Present
<1> QED
    BY <1>2, <1>3, <1>4

-----------------------------------------------------------------------------
(***************************************************************************)
(* Block 1 stays where it is.                                              *)
(***************************************************************************)

LEMMA RootInit == Init => RootInv
<1> SUFFICES ASSUME Init PROVE RootInv
    OBVIOUS
<1> USE ChainStoreAssumption DEF Init
<1>1. /\ DOMAIN row = {Genesis} /\ row[Genesis].height = 1 /\ n[1] = Genesis
      /\ DOMAIN n = {1} /\ t_tip.height = 1
    OBVIOUS
<1>2. 1 \notin DOMAIN cp /\ 1 \notin DOMAIN pins
    OBVIOUS
<1>3. pc = "idle" /\ Genesis \in Block
    OBVIOUS
<1> HIDE DEF Init
<1> QED
    BY <1>1, <1>2, <1>3 DEF RootInv, Trying, Restoring

LEMMA ConnectRoot ==
    ASSUME CrashInv, RootInv, PinsKeepGenesis, NEW b \in Block, connect_block(b)
    PROVE  RootInv'
<1> USE ChainStoreAssumption
<1>0. PICK g \in Nat : g = tip.height
    BY TipFacts
<1>1. /\ pc = "idle" /\ pc' = "idle" /\ caller' = caller
      /\ g >= 1
    BY <1>0, TipFacts DEF connect_block, locals, RootInv
<1>2. /\ row' = Put(row, b, [height |-> g + 1,
                            weight |-> tip.weight + Plays[b]])
      /\ n' = Put(n, g + 1, b)
      /\ t_tip' = [hash |-> b, height |-> g + 1]
      /\ apply_checkpoint(b)
      /\ pins' = IF b \in DOMAIN Pin THEN Put(pins, Pin[b].height, Pin[b].hash)
                 ELSE pins
    BY <1>0 DEF connect_block, TipAt
<1>3. 1 \in DOMAIN cp' => cp'[1] = Genesis
    BY <1>2, GenesisPinned DEF RootInv
<1>4. 1 \in DOMAIN pins' => pins'[1] = Genesis
  <2>1. 1 \in DOMAIN pins => pins[1] = Genesis
    BY DEF RootInv
  <2>2. b \in DOMAIN Pin => (Pin[b].height = 1 => Pin[b].hash = Genesis)
    BY DEF PinsKeepGenesis
  <2>3. b \in DOMAIN Pin =>
           LET q == Put(pins, Pin[b].height, Pin[b].hash)
           IN  1 \in DOMAIN q => q[1] = Genesis
    BY <2>1, <2>2, PutKeeps
  <2>4. CASE b \in DOMAIN Pin
    BY <1>2, <2>3, <2>4, Zenon
  <2>5. CASE b \notin DOMAIN Pin
    BY <1>2, <2>1, <2>5, Zenon
  <2> QED
    BY <2>4, <2>5
<1>5. /\ Genesis \in DOMAIN row' /\ DOMAIN row' \subseteq Block
      /\ \A x \in DOMAIN row' : row'[x].height >= 1
    BY <1>1, <1>2, SMTT(30) DEF RootInv, Put
<1>6. /\ 1 \in DOMAIN n' /\ n'[1] = Genesis
      /\ \A h \in DOMAIN n' : n'[h] \in Block
    BY <1>1, <1>2, SMTT(30) DEF RootInv, Put
<1>7. t_tip'.height >= 1 /\ pc' # "down" /\ pc' # "rollback"
    BY <1>1, <1>2
<1>8. ~Trying' /\ ~Restoring'
    BY <1>1 DEF Trying, Restoring
<1> QED
    BY <1>3, <1>4, <1>5, <1>6, <1>7, <1>8 DEF RootInv

LEMMA ReorgRoot ==
    ASSUME CrashInv, RootInv, NEW s \in Branch, reorg_to_branch(s)
    PROVE  RootInv'
<1> DEFINE at == row[PrevHash(s[1])]
<1>1. /\ pc = "idle" /\ pc' = "write_branch"
      /\ PrevHash(s[1]) \in DOMAIN row
      /\ (at.height + 1)..tip.height \subseteq DOMAIN n
      /\ reorg' = [fork |-> at.height, base |-> at.weight, branch |-> s,
                   old |-> Snapshot(at.height), old_tip |-> tip,
                   whole |-> FALSE]
      /\ UNCHANGED <<row, n, t_tip, cp, pins>>
    BY DEF reorg_to_branch, Assembled, memory
<1>2. s \in Seq(Block \ {Genesis})
    BY ChainStoreAssumption
<1>3. tip.height >= 1
    BY <1>1, TipFacts DEF RootInv
<1>4. at.height >= 1 /\ at.height \in Nat
    BY <1>1, TipFacts DEF RootInv
<1>5. Blocks(Snapshot(at.height)) \subseteq Block
  <2> DEFINE f == at.height
  <2>1. f \in Nat /\ tip.height \in Nat /\ (f + 1)..tip.height \subseteq DOMAIN n
    BY <1>1, <1>4, TipFacts
  <2> HIDE DEF f
  <2>2. ASSUME NEW i \in 1..Larger(tip.height - f, 0) PROVE n[f + i] \in Block
    <3>1. f + i \in (f + 1)..tip.height
        BY <2>1 DEF Larger
    <3> QED
        BY <2>1, <3>1 DEF RootInv
  <2>3. Blocks(Snapshot(f)) \subseteq Block
    BY <2>2 DEF Blocks, Snapshot
  <2> QED
    BY <2>3 DEF f
<1> HIDE DEF at
<1> QED
    BY <1>1, <1>2, <1>3, <1>4, <1>5 DEF RootInv

\* Both batches of write_branch start above a fork point at height 1 or more.
LEMMA WriteRoot ==
    ASSUME CrashInv, RootInv, NEW k \in Nat, NEW blocks, DOMAIN blocks = 1..k,
           NEW top, write_branch(blocks, top), Blocks(blocks) \subseteq Block,
           reorg.fork \in Nat, reorg.fork >= 1, top.height >= 1
    PROVE  /\ Genesis \in DOMAIN row' /\ DOMAIN row' \subseteq Block
           /\ \A b \in DOMAIN row' : row'[b].height >= 1
           /\ 1 \in DOMAIN n' /\ n'[1] = Genesis
           /\ \A h \in DOMAIN n' : n'[h] \in Block
           /\ t_tip'.height >= 1
<1> DEFINE fork == reorg.fork
           at(b) == CHOOSE j \in DOMAIN blocks : blocks[j] = b
           heights == {fork + i : i \in DOMAIN blocks}
           index == [h \in heights |-> blocks[h - fork]]
           placed == [b \in Blocks(blocks) |->
                        [height |-> fork + at(b),
                         weight |-> reorg.base + BranchPlays(blocks)[at(b)]]]
<1>1. /\ n' = Override(n, index) /\ row' = Override(row, placed)
      /\ t_tip'.height = top.height
    BY DEF write_branch
<1>2. DOMAIN placed = Blocks(blocks) /\ 1 \notin DOMAIN index
    OBVIOUS
<1>3. ASSUME NEW b \in Blocks(blocks)
      PROVE  placed[b].height >= 1
  <2>1. at(b) \in 1..k
    BY DEF Blocks
  <2>2. placed[b] = [height |-> fork + at(b),
                     weight |-> reorg.base + BranchPlays(blocks)[at(b)]]
    OBVIOUS
  <2> HIDE DEF placed, at
  <2> QED
    BY <2>1, <2>2
<1>4. ASSUME NEW h \in DOMAIN index
      PROVE  index[h] \in Block
  <2>1. PICK i \in 1..k : h = fork + i
    BY DEF index
  <2>2. index[h] = blocks[i] /\ blocks[i] \in Blocks(blocks)
    BY <2>1 DEF Blocks
  <2> QED
    BY <2>2
<1> HIDE DEF placed, index
<1> QED
    BY <1>1, <1>2, <1>3, <1>4 DEF Override, RootInv

LEMMA WriteBranchRoot ==
    ASSUME CrashInv, RootInv, WriteBranch
    PROVE  RootInv'
<1> DEFINE b == reorg.branch
           k == Len(b)
           top == TipAt(Top(b), reorg.fork + k,
                        reorg.base + BranchPlays(b)[k])
<1>1. /\ pc = "write_branch" /\ pc' = "trim" /\ write_branch(b, top)
      /\ UNCHANGED <<cp, pins, reorg, good>>
    BY DEF WriteBranch, locals
<1>2. /\ reorg.fork \in Nat /\ reorg.fork >= 1 /\ reorg.old_tip.height >= 1
      /\ b \in Seq(Block \ {Genesis}) /\ Blocks(reorg.old) \subseteq Block
    BY <1>1, Underway DEF RootInv, Trying
<1>3. k \in Nat /\ DOMAIN b = 1..k /\ Blocks(b) \subseteq Block
    BY <1>2 DEF Blocks
<1>4. top.height >= 1
    BY <1>2, <1>3 DEF TipAt
<1>5. /\ Genesis \in DOMAIN row' /\ DOMAIN row' \subseteq Block
      /\ \A x \in DOMAIN row' : row'[x].height >= 1
      /\ 1 \in DOMAIN n' /\ n'[1] = Genesis
      /\ \A h \in DOMAIN n' : n'[h] \in Block
      /\ t_tip'.height >= 1
  <2> HIDE DEF top, k, b
  <2> QED
    BY <1>1, <1>2, <1>3, <1>4, WriteRoot
<1> QED
    BY <1>1, <1>2, <1>5 DEF RootInv

\* What was put aside is of blocks too.
LEMMA WriteOldRoot ==
    ASSUME CrashInv, RootInv, WriteOld
    PROVE  RootInv'
<1> DEFINE k == Larger(reorg.old_tip.height - reorg.fork, 0)
<1>1. /\ pc = "write_old" /\ pc' = "arm" /\ caller' = "restore"
      /\ write_branch(reorg.old, reorg.old_tip)
      /\ UNCHANGED <<cp, pins, reorg, good>>
    BY DEF WriteOld
<1>2. /\ reorg.fork \in Nat /\ reorg.fork >= 1 /\ reorg.old_tip.height >= 1
      /\ k \in Nat /\ DOMAIN reorg.old = 1..k
      /\ Blocks(reorg.old) \subseteq Block
    BY <1>1, Underway DEF RootInv, Restoring
<1>3. /\ Genesis \in DOMAIN row' /\ DOMAIN row' \subseteq Block
      /\ \A x \in DOMAIN row' : row'[x].height >= 1
      /\ 1 \in DOMAIN n' /\ n'[1] = Genesis
      /\ \A h \in DOMAIN n' : n'[h] \in Block
      /\ t_tip'.height >= 1
  <2> HIDE DEF k
  <2> QED
    BY <1>1, <1>2, WriteRoot
<1> QED
    BY <1>1, <1>3 DEF RootInv, Trying, Restoring

\* The replay passes block 1: it has no parent, is not bad and not pinned out.
LEMMA ReplayEndRoot ==
    ASSUME CrashInv, RootInv, ReplayEnd
    PROVE  RootInv'
<1> USE ChainStoreAssumption
<1>1. /\ pc = "replay" /\ pc' = IF good < tip.height THEN "rollback" ELSE "persist"
      /\ good < tip.height => Present(good + 1) /\ ~ Replays(good + 1)
      /\ UNCHANGED <<row, n, t_tip, cp, pins, reorg, good, caller>>
    BY DEF ReplayEnd, disk, locals
<1>2. Replays(1)
  <2>1. PrevHash(n[1]) = HashAt(0) /\ n[1] \notin Bad
    BY DEF RootInv, PrevHash, HashAt
  <2>2. checkpoint_ok(1, n[1])
    BY DEF RootInv, checkpoint_ok
  <2>3. 1 - 1 = 0
    OBVIOUS
  <2> QED
    BY <2>1, <2>2, <2>3 DEF Replays
<1>3. ASSUME good < tip.height PROVE good >= 1
  <2>1. CASE good = 0
    <3>1. good + 1 = 1
        BY <2>1
    <3> QED
        BY <1>1, <1>2, <1>3, <3>1
  <2> QED
    BY <2>1, TipFacts
<1>4. pc' = "rollback" => good' >= 1
    BY <1>1, <1>3
<1>5. (Trying \/ Restoring)' => Trying \/ Restoring
    BY <1>1 DEF Trying, Restoring
<1>6. pc' # "down"
    BY <1>1
<1> QED
    BY <1>1, <1>4, <1>5, <1>6, SameRoot

LEMMA ReplayBlockRoot ==
    ASSUME CrashInv, RootInv, PinsKeepGenesis, ReplayBlock
    PROVE  RootInv'
<1>0. PICK b : b = n[good + 1]
    OBVIOUS
<1>1. /\ pc = "replay" /\ pc' = "replay" /\ b \in DOMAIN row
      /\ row' = [row EXCEPT ![b].weight = cum']
      /\ apply_checkpoint(b)
      /\ UNCHANGED <<n, t_tip, pins, reorg, caller>>
    BY <1>0 DEF ReplayBlock, Present, memory
<1>2. /\ DOMAIN row' = DOMAIN row
      /\ \A x \in DOMAIN row : row'[x].height = row[x].height
    BY <1>1 DEF CrashInv, IndexInv
<1>3. 1 \in DOMAIN cp' => cp'[1] = Genesis
    BY <1>1, GenesisPinned DEF RootInv
<1> QED
    BY <1>1, <1>2, <1>3 DEF RootInv, Trying, Restoring

LEMMA RebuildRoot ==
    ASSUME CrashInv, RootInv, PinsKeepGenesis, Rebuild
    PROVE  RootInv'
<1>1. CASE Arm
    BY <1>1, SameRoot DEF Arm, memory, locals, Trying, Restoring
<1>2. CASE ClearDerived
    BY <1>2, SameRoot DEF ClearDerived, memory, Trying, Restoring
<1>3. CASE ReplayMissing
    BY <1>3, SameRoot DEF ReplayMissing, disk, memory, locals, Return, Trying, Restoring
<1>4. CASE Rollback
  <2>1. t_tip'.height = good /\ pc' = "persist" /\ pc = "rollback"
    BY <1>4 DEF Rollback
  <2> QED
    BY <1>4, <2>1 DEF Rollback, locals, RootInv, Trying, Restoring
<1>5. CASE Persist
  <2>1. 1 \in DOMAIN pins' => pins'[1] = Genesis
    BY <1>5, OverrideKeeps DEF Persist, RootInv
  <2> QED
    BY <1>5, <2>1 DEF Persist, locals, RootInv, Trying, Restoring
<1>6. CASE Disarm
    BY <1>6, SameRoot DEF Disarm, memory, locals, Return, Trying, Restoring
<1> QED
    BY <1>1, <1>2, <1>3, <1>4, <1>5, <1>6, ReplayBlockRoot, ReplayEndRoot
    DEF Rebuild

\* The steps of reorg_to_branch that write no block.
LEMMA OtherRoot ==
    ASSUME CrashInv, RootInv,
           Trim \/ Adopted \/ Abort \/ DropBranch \/ ClearN
    PROVE  RootInv'
<1>0. TipInv /\ OldInv
    BY DEF CrashInv
<1>1. CASE Trim
  <2>1. /\ 1 \in DOMAIN n' /\ n'[1] = n[1]
        /\ \A h \in DOMAIN n' : n'[h] \in Block
    BY <1>1, TipFacts DEF Trim, Without, RootInv
  <2> QED
    BY <1>1, <2>1 DEF Trim, memory, RootInv, Trying, Restoring
<1>2. CASE Adopted
    BY <1>2, SameRoot DEF Adopted, disk, memory, locals, Trying, Restoring
<1>3. CASE Abort
  <2>1. /\ reorg'.fork = reorg.fork /\ reorg'.branch = reorg.branch
        /\ reorg'.old_tip = reorg.old_tip /\ reorg'.old = reorg.old
    BY <1>0, <1>3 DEF Abort, OldInv
  <2> QED
    BY <1>3, <2>1 DEF Abort, memory, RootInv, Trying, Restoring
<1>4. CASE DropBranch
  <2>1. /\ row' = Without(row, Blocks(reorg.branch))
        /\ reorg.branch \in Seq(Block \ {Genesis})
    BY <1>4 DEF DropBranch, RootInv, Restoring
  <2>2. Genesis \notin Blocks(reorg.branch)
    BY <2>1 DEF Blocks
  <2> QED
    BY <1>4, <2>1, <2>2 DEF DropBranch, memory, locals, Without, RootInv, Trying, Restoring
<1>5. CASE ClearN
  <2>1. pc = "clear_n" /\ reorg.fork \in Nat /\ reorg.fork >= 1
    BY <1>5, Underway DEF ClearN, RootInv, Restoring
  <2>2. /\ 1 \in DOMAIN n' /\ n'[1] = n[1]
        /\ \A h \in DOMAIN n' : n'[h] \in Block
    BY <1>5, <2>1 DEF ClearN, Without, RootInv
  <2> QED
    BY <1>5, <2>1, <2>2 DEF ClearN, memory, locals, RootInv, Trying, Restoring
<1> QED
    BY <1>1, <1>2, <1>3, <1>4, <1>5

LEMMA RestartRoot ==
    ASSUME CrashInv, RootInv, Crash \/ Boot
    PROVE  RootInv'
<1>1. CASE Crash
  <2>1. 1 \notin DOMAIN pins'
    BY <1>1 DEF Crash
  <2> QED
    BY <1>1, <2>1 DEF Crash, disk, RootInv, Trying, Restoring
<1>2. CASE Boot
    BY <1>2 DEF Boot, disk, locals, RootInv, Trying, Restoring
<1> QED
    BY <1>1, <1>2

LEMMA RootStep ==
    ASSUME CrashInv, RootInv, PinsKeepGenesis, Step
    PROVE  RootInv'
BY ConnectRoot, ReorgRoot, WriteBranchRoot, WriteOldRoot, RebuildRoot,
   OtherRoot, RestartRoot DEF Step

-----------------------------------------------------------------------------
(***************************************************************************)
(* The rows up to the tip stay, or can be put back.                        *)
(***************************************************************************)

\* While the chain is whole, a block that grows from height f is none of the
\* blocks at 1..f: its parent would have two heights.
LEMMA NotBelow ==
    ASSUME CrashInv, RootInv, KeptInv, pc = "idle",
           NEW f \in Nat, f <= tip.height, NEW b \in Block,
           PrevHash(b) \in DOMAIN row, row[PrevHash(b)].height = f
    PROVE  \A h \in 1..f : n[h] # b
<1> SUFFICES ASSUME NEW h \in 1..f, n[h] = b PROVE FALSE
    OBVIOUS
<1>1. /\ tip.height \in Nat /\ t_tip.height = tip.height
      /\ Sized(tip.height)
      /\ \A i \in 1..tip.height : PrevHash(n[i]) = HashAt(i - 1)
    BY TipFacts DEF KeptInv, CrashInv, TornIsMarked, ChainTo
<1>2. PrevHash(b) = HashAt(h - 1)
    BY <1>1
<1>3. CASE h = 1
  <2>1. PrevHash(b) = NoBlock
    BY <1>2, <1>3 DEF HashAt
  <2> QED
    BY <2>1, ChainStoreAssumption DEF RootInv
<1>4. CASE h # 1
  <2>1. h - 1 \in 1..tip.height /\ h - 1 # f /\ h - 1 # 0
    BY <1>1, <1>4
  <2>2. PrevHash(b) = n[h - 1]
    BY <1>2, <2>1 DEF HashAt
  <2>3. row[n[h - 1]].height = h - 1
    BY <1>1, <2>1 DEF Sized
  <2> QED
    BY <2>1, <2>2, <2>3
<1> QED
    BY <1>3, <1>4

LEMMA ConnectKept ==
    ASSUME CrashInv, RootInv, KeptInv, NEW b \in Block, connect_block(b)
    PROVE  KeptInv'
<1> USE ChainStoreAssumption
<1>0. PICK g \in Nat : g = tip.height
    BY TipFacts
<1>1. /\ pc = "idle" /\ pc' = "idle" /\ ~ dirty /\ ~ dirty'
      /\ t_tip.height = g /\ t_tip.hash = tip.hash /\ g >= 1
      /\ Sized(g) /\ PrevHash(b) = tip.hash
    BY <1>0, TipFacts DEF connect_block, KeptInv, RootInv
<1>2. /\ row' = Put(row, b, [height |-> g + 1,
                            weight |-> tip.weight + Plays[b]])
      /\ n' = Put(n, g + 1, b)
      /\ t_tip' = [hash |-> b, height |-> g + 1]
      /\ acc' = b /\ tip'.hash = b
    BY <1>0 DEF connect_block, TipAt
<1>3. \A h \in 1..g : n[h] # b
  <2>1. tip.hash = n[g] /\ n[g] \in DOMAIN row /\ row[n[g]].height = g
    BY <1>0, <1>1 DEF CrashInv, TornIsMarked, ChainTo, HashAt, Sized, Present
  <2>2. /\ PrevHash(b) \in DOMAIN row /\ row[PrevHash(b)].height = g
        /\ g <= tip.height
    BY <1>0, <1>1, <2>1
  <2> QED
    BY <1>1, <2>2, NotBelow
<1>4. ASSUME NEW h \in 1..(g + 1) PROVE Present(h)' /\ row'[n'[h]].height = h
  <2>1. CASE h = g + 1
    BY <1>2, <2>1 DEF Put, Present
  <2>2. CASE h \in 1..g
    <3>1. n'[h] = n[h] /\ h \in DOMAIN n /\ n[h] \in DOMAIN row /\ n[h] # b
        BY <1>1, <1>2, <1>3, <2>2 DEF Sized, Present, Put
    <3>2. row'[n[h]] = row[n[h]] /\ row[n[h]].height = h
        BY <1>1, <1>2, <2>2, <3>1 DEF Sized, Put
    <3> QED
        BY <1>2, <3>1, <3>2 DEF Present, Put
  <2> QED
    BY <2>1, <2>2
<1>5. Sized(t_tip.height)'
    BY <1>2, <1>4 DEF Sized
<1> QED
    BY <1>1, <1>2, <1>5 DEF KeptInv

\* What reorg_to_branch finds, and what it puts aside.
LEMMA ReorgKept ==
    ASSUME CrashInv, RootInv, KeptInv, NEW s \in Branch, reorg_to_branch(s),
           ~ OverGap
    PROVE  KeptInv'
<1> USE ChainStoreAssumption
<1> DEFINE at == row[PrevHash(s[1])]
<1>1. /\ pc = "idle" /\ pc' = "write_branch" /\ s # <<>>
      /\ PrevHash(s[1]) \in DOMAIN row
      /\ \A i \in 2..Len(s) : /\ PrevHash(s[i]) = s[i - 1]
                             /\ s[i - 1] \notin DOMAIN row
      /\ reorg' = [fork |-> at.height, base |-> at.weight, branch |-> s,
                   old |-> Snapshot(at.height), old_tip |-> tip,
                   whole |-> FALSE]
      /\ UNCHANGED <<row, n, t_tip>>
    BY DEF reorg_to_branch, Assembled, memory
<1>2. PICK f \in Nat : f = at.height
    BY <1>1, TipFacts
<1>3. /\ reorg'.fork = f /\ reorg'.branch = s /\ reorg'.old = Snapshot(f)
      /\ reorg'.old_tip = tip
    BY <1>1, <1>2
<1>4. PICK g \in Nat : g = tip.height
    BY TipFacts
<1>5. f <= g /\ t_tip.height = g /\ Sized(g)
    BY <1>1, <1>2, <1>3, <1>4, TipFacts DEF OverGap, KeptInv
<1>6. s \in Seq(Block) /\ Len(s) \in Nat \ {0} /\ DOMAIN s = 1..Len(s)
    BY <1>1
<1>7. ASSUME NEW h \in 1..f, NEW i \in DOMAIN s PROVE n[h] # s[i]
  <2>1. n[h] \in DOMAIN row
    BY <1>5 DEF Sized, Present
  <2>2. CASE i # Len(s)
    <3>1. i + 1 \in 2..Len(s) /\ (i + 1) - 1 = i
        BY <1>6, <2>2
    <3> QED
        BY <1>1, <2>1, <3>1
  <2>3. CASE i = Len(s) /\ i # 1
    <3>1. s[i - 1] \notin DOMAIN row /\ PrevHash(s[i]) = s[i - 1]
      <4>1. i \in 2..Len(s)
        BY <1>6, <2>3
      <4> QED
        BY <1>1, <4>1
    <3>2. h \in 1..t_tip.height /\ ~ dirty
        BY <1>1, <1>5 DEF KeptInv
    <3>3. PrevHash(n[h]) = HashAt(h - 1)
        BY <3>2 DEF CrashInv, TornIsMarked, ChainTo
    <3>4. CASE h = 1
      <4>1. PrevHash(n[h]) = NoBlock
        BY <3>3, <3>4 DEF HashAt
      <4>2. i - 1 \in DOMAIN s
        BY <1>6, <2>3
      <4>3. s[i - 1] \in Block
        BY <1>6, <4>2
      <4>4. s[i - 1] # NoBlock
        BY <4>3
      <4> QED
        BY <3>1, <4>1, <4>4
    <3>5. CASE h # 1
      <4>1. h - 1 \in 1..g
        BY <1>5, <3>5
      <4>2. n[h - 1] \in DOMAIN row
        BY <1>5, <4>1 DEF Sized, Present
      <4> QED
        BY <3>1, <3>3, <3>5, <4>2 DEF HashAt
    <3> QED
        BY <3>4, <3>5
  <2>4. CASE i = 1 /\ Len(s) = 1
    <3>1. /\ s[1] \in Block /\ f <= tip.height
          /\ row[PrevHash(s[1])].height = f
        BY <1>2, <1>4, <1>5, <1>6
    <3>2. \A k \in 1..f : n[k] # s[1]
        BY <1>1, <3>1, NotBelow
    <3> QED
        BY <2>4, <3>2
  <2> QED
    BY <2>2, <2>3, <2>4
<1>8. DOMAIN Snapshot(f) = 1..Larger(g - f, 0)
    BY <1>4 DEF Snapshot
<1>9. ASSUME NEW i \in DOMAIN Snapshot(f)
      PROVE  /\ f + i \in (f + 1)..g /\ Snapshot(f)[i] = n[f + i]
             /\ n[f + i] \in DOMAIN row /\ row[n[f + i]].height = f + i
  <2>1. f + i \in (f + 1)..g /\ f + i \in 1..g
    BY <1>4, <1>8 DEF Larger
  <2>2. Snapshot(f)[i] = n[f + i]
    BY <1>4, <1>8 DEF Snapshot
  <2> QED
    BY <1>5, <2>1, <2>2 DEF Sized, Present
<1>10. \A i, j \in DOMAIN Snapshot(f) :
          Snapshot(f)[i] = Snapshot(f)[j] => i = j
    BY <1>8, <1>9, SMTT(30)
<1>11. Blocks(Snapshot(f)) \subseteq DOMAIN row
    BY <1>9 DEF Blocks
<1>12. ASSUME NEW h \in 1..f, NEW i \in DOMAIN Snapshot(f)
       PROVE  n[h] # Snapshot(f)[i]
  <2>1. row[n[h]].height = h /\ h # f + i
    BY <1>5, <1>9 DEF Sized
  <2> QED
    BY <1>9, <2>1
<1>13. \A h \in 1..f : n[h] \notin Blocks(s) \cup Blocks(Snapshot(f))
    BY <1>7, <1>12 DEF Blocks
<1>14. Sized(f)' /\ Sized(g)'
    BY <1>1, <1>5 DEF Sized, Present
<1>15. ForkInv'
    BY <1>1, <1>3, <1>4, <1>5, <1>10, <1>11, <1>13, <1>14
    DEF ForkInv, Sized, Present, Restoring
<1> QED
    BY <1>1, <1>5, <1>14, <1>15 DEF KeptInv

\* A step that writes neither rows nor index nor the locals of the reorg.
LEMMA SameFork ==
    ASSUME ForkInv, UNCHANGED <<row, n, reorg>>,
           Trying' => Trying, pc' # "trim", Restoring' => Restoring
    PROVE  ForkInv'
BY DEF ForkInv, Sized, Present

LEMMA SameSized ==
    ASSUME Sized(t_tip.height), UNCHANGED <<row, n, t_tip>>
    PROVE  Sized(t_tip.height)'
BY DEF Sized, Present

LEMMA WriteBranchKept ==
    ASSUME CrashInv, RootInv, KeptInv, WriteBranch
    PROVE  KeptInv'
<1> DEFINE b == reorg.branch
           k == Len(b)
           top == TipAt(Top(b), reorg.fork + k,
                        reorg.base + BranchPlays(b)[k])
<1>1. /\ pc = "write_branch" /\ pc' = "trim" /\ write_branch(b, top)
      /\ UNCHANGED reorg
    BY DEF WriteBranch, locals
<1>2. /\ ForkInv /\ IndexInv /\ reorg.fork \in Nat
      /\ b \in Seq(Block \ {Genesis})
    BY <1>1, Underway DEF RootInv, Trying, KeptInv, CrashInv
<1>3. k \in Nat /\ DOMAIN b = 1..k
    BY <1>2
<1>4. /\ t_tip'.height = reorg.fork + k /\ tip'.height = reorg.fork + k
    BY <1>1 DEF write_branch, TipAt
<1>5. /\ \A i, j \in DOMAIN b : b[i] = b[j] => i = j
      /\ Sized(reorg.fork)
      /\ \A h \in 1..reorg.fork : n[h] \notin Blocks(b)
    BY <1>2 DEF ForkInv
<1>6. /\ \A h \in 1..(reorg.fork + k) : Present(h)' /\ row'[n'[h]].height = h
      /\ \A h \in 1..reorg.fork : n'[h] = n[h]
      /\ DOMAIN row \subseteq DOMAIN row'
  <2> HIDE DEF top, k, b
  <2> QED
    BY <1>1, <1>2, <1>3, <1>5, SizedWritten
<1>7. Sized(t_tip.height)' /\ Sized(reorg.fork)'
    BY <1>1, <1>2, <1>3, <1>4, <1>6 DEF Sized
<1>8. Blocks(reorg.old) \subseteq DOMAIN row
    BY <1>1, <1>2 DEF ForkInv, Trying
<1>9. ForkInv'
    BY <1>1, <1>2, <1>3, <1>4, <1>6, <1>7, <1>8 DEF ForkInv, Restoring
<1> QED
    BY <1>1, <1>7, <1>9 DEF KeptInv

LEMMA TrimKept ==
    ASSUME CrashInv, RootInv, KeptInv, Trim
    PROVE  KeptInv'
<1>1. /\ pc = "trim" /\ pc' = "arm"
      /\ n' = Without(n, (tip.height + 1)..reorg.old_tip.height)
      /\ UNCHANGED <<row, t_tip, tip, reorg>>
    BY DEF Trim, memory
<1>2. /\ ForkInv /\ reorg.fork \in Nat /\ reorg.fork <= tip.height
      /\ tip.height \in Nat /\ t_tip.height = tip.height
      /\ Sized(t_tip.height)
    BY <1>1, Underway, TipFacts DEF KeptInv, ForkInv
<1>3. \A h \in 1..tip.height : h \in DOMAIN n =>
         h \in DOMAIN n' /\ n'[h] = n[h]
    BY <1>1, <1>2 DEF Without
<1>4. Sized(t_tip.height)' /\ Sized(reorg.fork)'
    BY <1>1, <1>2, <1>3 DEF Sized, Present
<1>5. \A h \in 1..reorg.fork : n'[h] = n[h]
    BY <1>2, <1>3 DEF ForkInv, Sized, Present
<1>6. ForkInv'
    BY <1>1, <1>2, <1>4, <1>5 DEF ForkInv, Trying, Restoring
<1> QED
    BY <1>1, <1>4, <1>6 DEF KeptInv

\* The replay never meets a missing row.
LEMMA NeverMissing ==
    ASSUME CrashInv, KeptInv
    PROVE  ~ ReplayMissing
<1> SUFFICES ASSUME ReplayMissing PROVE FALSE
    OBVIOUS
<1>1. /\ pc = "replay" /\ good < tip.height /\ ~ Present(good + 1)
      /\ Sized(t_tip.height)
    BY DEF ReplayMissing, KeptInv
<1>2. good + 1 \in 1..t_tip.height
    BY <1>1, TipFacts
<1> QED
    BY <1>1, <1>2 DEF Sized

LEMMA ReplayBlockKept ==
    ASSUME CrashInv, RootInv, KeptInv, ReplayBlock
    PROVE  KeptInv'
<1>0. PICK b : b = n[good + 1]
    OBVIOUS
<1>1. /\ pc = "replay" /\ pc' = "replay" /\ b \in DOMAIN row
      /\ row' = [row EXCEPT ![b].weight = cum']
      /\ UNCHANGED <<n, t_tip, tip, reorg, caller>>
    BY <1>0 DEF ReplayBlock, Present, memory
<1>2. /\ DOMAIN row' = DOMAIN row
      /\ \A x \in DOMAIN row : row'[x].height = row[x].height
    BY <1>1 DEF CrashInv, IndexInv
<1>3. Sized(t_tip.height)'
    BY <1>1, <1>2 DEF KeptInv, Sized, Present
<1>4. ForkInv'
    BY <1>1, <1>2 DEF KeptInv, ForkInv, Sized, Present, Trying, Restoring
<1> QED
    BY <1>1, <1>3, <1>4 DEF KeptInv

LEMMA RebuildKept ==
    ASSUME CrashInv, RootInv, KeptInv, Rebuild
    PROVE  KeptInv'
<1>1. CASE Arm
    BY <1>1, SameFork, SameSized
    DEF Arm, memory, locals, KeptInv, Trying, Restoring
<1>2. CASE ClearDerived
    BY <1>2, SameFork, SameSized
    DEF ClearDerived, memory, KeptInv, Trying, Restoring
<1>3. CASE ReplayEnd
    BY <1>3, SameFork, SameSized
    DEF ReplayEnd, disk, locals, KeptInv, Trying, Restoring
<1>4. CASE Rollback
  <2>1. /\ pc = "rollback" /\ pc' = "persist" /\ t_tip'.height = good
        /\ UNCHANGED <<row, n, reorg, caller>>
        /\ Sized(t_tip.height) /\ ForkInv
    BY <1>4 DEF Rollback, locals, KeptInv
  <2>2. good \in Nat /\ good <= t_tip.height /\ t_tip.height \in Nat
    BY <2>1, TipFacts
  <2>3. Sized(t_tip.height)'
    BY <2>1, <2>2 DEF Sized, Present
  <2> QED
    BY <2>1, <2>3, SameFork DEF KeptInv, Trying, Restoring
<1>5. CASE Persist
    BY <1>5, SameFork, SameSized
    DEF Persist, locals, KeptInv, Trying, Restoring
<1>6. CASE Disarm
    BY <1>6, SameFork, SameSized
    DEF Disarm, memory, locals, Return, KeptInv, Trying, Restoring
<1> QED
    BY <1>1, <1>2, <1>4, <1>3, <1>5, <1>6, ReplayBlockKept, NeverMissing
    DEF Rebuild

LEMMA AbortKept ==
    ASSUME CrashInv, RootInv, KeptInv, Abort
    PROVE  KeptInv'
<1>1. /\ pc = "judge" /\ pc' = "drop"
      /\ reorg' = [reorg EXCEPT !.whole = Blocks(reorg.old) \subseteq DOMAIN row]
      /\ UNCHANGED <<row, n, t_tip>>
    BY DEF Abort
<1>2. ForkInv /\ OldInv /\ Sized(t_tip.height)
    BY <1>1 DEF KeptInv, CrashInv
<1>3. Blocks(reorg.old) \subseteq DOMAIN row
    BY <1>1, <1>2 DEF ForkInv, Trying
<1>4. /\ reorg'.fork = reorg.fork /\ reorg'.branch = reorg.branch
      /\ reorg'.old = reorg.old /\ reorg'.old_tip = reorg.old_tip
      /\ reorg'.whole = (Blocks(reorg.old) \subseteq DOMAIN row)
    BY <1>1, <1>2 DEF OldInv
<1>5. reorg'.whole
    BY <1>3, <1>4
<1>6. Sized(t_tip.height)' /\ Sized(reorg.fork)'
    BY <1>1, <1>2, <1>4 DEF ForkInv, Sized, Present
<1>7. ForkInv'
    BY <1>1, <1>2, <1>4, <1>5, <1>6 DEF ForkInv, Trying, Restoring
<1> QED
    BY <1>1, <1>6, <1>7 DEF KeptInv

\* The rows of the branch go, and the chain up to the fork point has none.
LEMMA DropKept ==
    ASSUME CrashInv, RootInv, KeptInv, DropBranch
    PROVE  KeptInv'
<1>1. /\ pc = "drop" /\ pc' = "clear_n"
      /\ row' = Without(row, Blocks(reorg.branch))
      /\ UNCHANGED <<n, reorg>> /\ ForkInv
    BY DEF DropBranch, locals, KeptInv
<1>2. Sized(reorg.fork)'
    BY <1>1 DEF ForkInv, Sized, Present, Without
<1>3. ForkInv'
    BY <1>1, <1>2 DEF ForkInv, Trying, Restoring
<1> QED
    BY <1>1, <1>3 DEF KeptInv

LEMMA ClearNKept ==
    ASSUME CrashInv, RootInv, KeptInv, ClearN
    PROVE  KeptInv'
<1>1. /\ pc = "clear_n" /\ ForkInv /\ reorg.fork \in Nat
      /\ UNCHANGED <<row, reorg>>
    BY Underway DEF ClearN, locals, KeptInv
<1>2. pc' = "write_old"
    BY <1>1 DEF ClearN, ForkInv, Restoring
<1>3. \A h \in 1..reorg.fork : h \in DOMAIN n =>
         h \in DOMAIN n' /\ n'[h] = n[h]
    BY <1>1 DEF ClearN, Without
<1>4. \A h \in 1..reorg.fork : n'[h] = n[h]
    BY <1>1, <1>3 DEF ForkInv, Sized, Present
<1>5. Sized(reorg.fork)'
    BY <1>1, <1>3 DEF ForkInv, Sized, Present
<1>6. ForkInv'
    BY <1>1, <1>2, <1>4, <1>5 DEF ForkInv, Trying, Restoring
<1> QED
    BY <1>2, <1>6 DEF KeptInv

\* The old blocks fill the heights from the fork point to the old tip.
LEMMA WriteOldKept ==
    ASSUME CrashInv, RootInv, KeptInv, WriteOld
    PROVE  KeptInv'
<1> DEFINE k == Larger(reorg.old_tip.height - reorg.fork, 0)
<1>1. /\ pc = "write_old" /\ pc' = "arm" /\ caller' = "restore"
      /\ write_branch(reorg.old, reorg.old_tip)
      /\ UNCHANGED reorg
    BY DEF WriteOld
<1>2. /\ ForkInv /\ IndexInv /\ reorg.fork \in Nat
      /\ reorg.old_tip.height \in Nat
      /\ k \in Nat /\ DOMAIN reorg.old = 1..k
    BY <1>1, Underway DEF KeptInv, CrashInv
<1>3. reorg.fork + k = reorg.old_tip.height
    BY <1>2 DEF ForkInv, Larger
<1>4. t_tip'.height = reorg.old_tip.height
    BY <1>1 DEF write_branch
<1>5. /\ \A i, j \in DOMAIN reorg.old : reorg.old[i] = reorg.old[j] => i = j
      /\ Sized(reorg.fork)
      /\ \A h \in 1..reorg.fork : n[h] \notin Blocks(reorg.old)
    BY <1>2 DEF ForkInv
<1>6. /\ \A h \in 1..(reorg.fork + k) : Present(h)' /\ row'[n'[h]].height = h
      /\ \A h \in 1..reorg.fork : n'[h] = n[h]
  <2> HIDE DEF k
  <2> QED
    BY <1>1, <1>2, <1>5, SizedWritten
<1> HIDE DEF k
<1>7. Sized(t_tip.height)' /\ Sized(reorg.fork)'
    BY <1>1, <1>2, <1>3, <1>4, <1>6 DEF Sized
<1>8. ForkInv'
    BY <1>1, <1>2, <1>6, <1>7 DEF ForkInv, Trying, Restoring
<1> QED
    BY <1>1, <1>7, <1>8 DEF KeptInv

\* A crash while the tip has its rows leaves a database that can be replayed.
LEMMA CrashKept ==
    ASSUME CrashInv, RootInv, KeptInv, Crash, ~ Stripped
    PROVE  KeptInv'
<1>1. /\ pc' = "down" /\ pc # "down" /\ reorg' = NoReorg /\ caller' = "init"
      /\ UNCHANGED <<row, n, t_tip>>
    BY DEF Crash, disk
<1>2. /\ tip.height \in Nat /\ t_tip.height = tip.height
      /\ pc # "idle" => reorg.fork \in Nat
    BY <1>1, TipFacts, Underway
<1>3. Sized(t_tip.height)
  <2>1. CASE pc \in {"clear_n", "write_old"}
    <3>1. ~ (tip.height > reorg.fork) /\ Sized(reorg.fork)
        BY <2>1 DEF Stripped, KeptInv, ForkInv
    <3> QED
        BY <1>2, <2>1, <3>1 DEF Sized
  <2>2. CASE pc \notin {"clear_n", "write_old"}
    BY <2>2 DEF KeptInv
  <2> QED
    BY <2>1, <2>2
<1>4. ForkInv'
    BY <1>1 DEF ForkInv, Sized, NoReorg, NoTip, Blocks, Trying, Restoring
<1> QED
    BY <1>1, <1>3, <1>4, SameSized DEF KeptInv

LEMMA BootKept ==
    ASSUME CrashInv, RootInv, KeptInv, Boot
    PROVE  KeptInv'
<1>1. /\ pc = "down" /\ acc' = vec /\ tip' = load_tip
      /\ pc' = IF t_tip.height > 0 /\ dirty THEN "arm" ELSE "idle"
      /\ UNCHANGED <<row, n, t_tip, dirty, reorg, caller>>
      /\ caller = "init" /\ ForkInv /\ Sized(t_tip.height)
    BY DEF Boot, disk, locals, KeptInv, RootInv
<1>2. tip'.hash = t_tip.hash
    BY <1>1 DEF load_tip, TipAt, NoTip
<1>3. pc' = "idle" => ~ dirty
    BY <1>1, TipFacts DEF RootInv
<1>4. pc' = "idle" => acc' = tip'.hash
    BY <1>1, <1>2, <1>3 DEF CrashInv, TornIsMarked
<1>5. pc' # "idle" => ForkInv'
    BY <1>1, SameFork DEF Trying, Restoring
<1>6. Sized(t_tip.height)'
    BY <1>1, SameSized
<1> QED
    BY <1>1, <1>3, <1>4, <1>5, <1>6 DEF KeptInv

LEMMA KeptStep ==
    ASSUME CrashInv, RootInv, KeptInv, Step, ~ OverGap,
           ~ (pc' = "down" /\ Stripped)
    PROVE  KeptInv'
<1>1. CASE Adopted
    BY <1>1, SameSized DEF Adopted, disk, memory, KeptInv
<1>2. CASE Crash
    BY <1>2, CrashKept DEF Crash
<1> QED
    BY <1>1, <1>2, ConnectKept, ReorgKept, WriteBranchKept, TrimKept,
       RebuildKept, AbortKept, DropKept, ClearNKept, WriteOldKept, BootKept
    DEF Step

-----------------------------------------------------------------------------
LEMMA ServeInit == Init => ServeInv
<1> SUFFICES ASSUME Init PROVE ServeInv
    OBVIOUS
<1>1. /\ DOMAIN row = {Genesis} /\ row[Genesis].height = 1 /\ n[1] = Genesis
      /\ DOMAIN n = {1} /\ t_tip.height = 1 /\ pc = "idle" /\ dirty = FALSE
      /\ acc = tip.hash
    BY DEF Init, TipAt
<1>2. KeptInv
    BY <1>1 DEF KeptInv, Sized, Present
<1> QED
    BY <1>2, RootInit DEF ServeInv

LEMMA ServeStep ==
    ASSUME PinsKeepGenesis, CrashInv, ServeInv, [Next]_vars
    PROVE  ServeInv'
<1>1. CASE Next
  <2>1. RootInv'
    BY <1>1, RootStep DEF Next, ServeInv
  <2>2. ASSUME ~ lost' PROVE KeptInv'
    <3>1. ~ lost /\ ~ OverGap /\ ~ (pc' = "down" /\ Stripped)
        BY <1>1, <2>2 DEF Next, Observe
    <3> QED
        BY <1>1, <3>1, KeptStep DEF Next, ServeInv
  <2> QED
    BY <2>1, <2>2 DEF ServeInv
<1>2. CASE UNCHANGED vars
  <2>1. UNCHANGED <<row, n, t_tip, dirty, cp, pins, reorg, pc, caller, good,
                    acc, tip, lost>>
    BY <1>2 DEF vars, disk, memory, locals, history
  <2>2. RootInv'
    BY <2>1, SameRoot DEF ServeInv, RootInv, Trying, Restoring
  <2>3. KeptInv => KeptInv'
    BY <2>1 DEF KeptInv, ForkInv, Sized, Present, Trying, Restoring
  <2> QED
    BY <2>1, <2>2, <2>3 DEF ServeInv
<1> QED
    BY <1>1, <1>2

\* The strengthened invariant: as long as no crash falls between the deletion
\* of a tip's rows and the return of the old ones, and no reorg spans a gap, the
\* rows of every height up to the tip are there or in hand.
THEOREM ServeInvariant == PinsKeepGenesis /\ Spec => []ServeInv
<1> SUFFICES ASSUME PinsKeepGenesis PROVE Spec => []ServeInv
    OBVIOUS
<1>1. Init => ServeInv
    BY ServeInit
<1>2. CrashInv /\ ServeInv /\ [Next]_vars => ServeInv'
    BY ServeStep
<1> QED
    BY <1>1, <1>2, CrashInvariant, PTL DEF Spec

\* After every operation, failed reorg and restart the node stands on one chain,
\* in memory and on disk, whatever else crashed (init, rebuild_derived_state), but
\* for a crash while a tip's rows are gone and for a reorg over a gap (lost).
THEOREM AlwaysServesOneChain ==
    PinsKeepGenesis /\ Spec => []ServesOneChain
<1>1. CrashInv /\ ServeInv => ServesOneChain
  <2> SUFFICES ASSUME CrashInv, ServeInv, pc = "idle", ~ lost
               PROVE  Serving
    BY DEF ServesOneChain
  <2>1. KeptInv /\ ~ dirty /\ acc = tip.hash
    BY DEF ServeInv, KeptInv
  <2>2. ChainTo(t_tip) /\ derived = t_tip.hash /\ vec = t_tip.hash
    BY <2>1 DEF CrashInv, TornIsMarked
  <2>3. /\ t_tip = [hash |-> t_tip.hash, height |-> t_tip.height]
        /\ t_tip.hash = tip.hash /\ t_tip.height = tip.height
    BY DEF CrashInv, TipInv
  <2>4. ChainTo(tip)
    BY <2>2, <2>3 DEF ChainTo
  <2>5. t_tip = [hash |-> tip.hash, height |-> tip.height]
    BY <2>3
  <2> QED
    BY <2>1, <2>2, <2>3, <2>4, <2>5 DEF Serving
<1> QED
    BY <1>1, CrashInvariant, ServeInvariant, PTL

-----------------------------------------------------------------------------
(***************************************************************************)
(* Chains of blocks: the inductions look at a smallest counterexample.     *)
(***************************************************************************)
LEMMA LeastNat ==
    ASSUME NEW T, T \subseteq Nat, T # {}
    PROVE  \E x \in T : \A y \in T : x <= y
<1>1. PICK z \in T : TRUE
    OBVIOUS
<1>2. IsFiniteSet(0..z)
    BY <1>1, FS_Interval
<1> DEFINE up == {0..x : x \in {y \in T : y <= z}}
<1>3. up \subseteq SUBSET (0..z) /\ 0..z \in up
  <2>1. \A x \in {y \in T : y <= z} : 0..x \subseteq 0..z
    OBVIOUS
  <2> QED
    BY <2>1
<1>4. PICK D \in up : \A E \in up : ~ (<<E, D>> \in StrictSubsetOrdering(0..z))
  <2>1. IsWellFoundedOn(StrictSubsetOrdering(0..z), SUBSET (0..z))
    BY <1>2, FS_StrictSubsetOrderingWellFounded, FS_FiniteSubsetsOfFinite
  <2> HIDE DEF up
  <2> QED
    BY <1>3, <2>1, WFMin
<1>5. PICK x \in T : x <= z /\ D = 0..x
    OBVIOUS
<1>6. ASSUME NEW y \in T, y < x PROVE FALSE
  <2>1. y <= z /\ 0..y \in up
    BY <1>1, <1>5, <1>6
  <2>2. 0..y \subseteq 0..x /\ x \in 0..x /\ x \notin 0..y
    BY <1>5, <1>6
  <2>3. 0..y # 0..x
    BY <2>2
  <2>4. <<0..y, 0..x>> \in (SUBSET (0..z)) \X (SUBSET (0..z))
    BY <1>3, <1>5, <2>1
  <2>5. <<0..y, 0..x>> \in StrictSubsetOrdering(0..z)
    BY <2>2, <2>3, <2>4 DEF StrictSubsetOrdering
  <2> QED
    BY <1>4, <1>5, <2>1, <2>5
<1>7. \A y \in T : x <= y
    BY <1>6
<1> QED
    BY <1>7

\* A chain is that of the parent and the block.
LEMMA ChainFacts ==
    ASSUME NEW b \in Block
    PROVE  /\ Depth(b) \in Nat /\ Depth(b) >= 1 /\ Weight[b] \in Nat
           /\ \A h \in 1..Depth(b) : Chain[b][h] \in Block
           /\ Chain[b][Depth(b)] = b
           /\ b = Genesis => Depth(b) = 1 /\ Weight[b] = Plays[b]
           /\ b # Genesis =>
                 /\ Parent[b] \in Block /\ PrevHash(b) = Parent[b]
                 /\ Depth(b) = Depth(Parent[b]) + 1 /\ Depth(Parent[b]) >= 1
                 /\ Weight[b] = Weight[Parent[b]] + Plays[b]
                 /\ \A h \in 1..Depth(Parent[b]) : Chain[b][h] = Chain[Parent[b]][h]
<1> USE ChainStoreAssumption
<1>1. \A c \in Block : Chain[c] \in Seq(Block) /\ Weight[c] \in Nat
    BY RootedAssumption
<1>2. \A c \in Block : Len(Chain[c]) \in Nat
                       /\ \A h \in 1..Len(Chain[c]) : Chain[c][h] \in Block
  <2>1. \A s \in Seq(Block) : Len(s) \in Nat /\ \A h \in 1..Len(s) : s[h] \in Block
    OBVIOUS
  <2> QED
    BY <1>1, <2>1
<1>3. CASE b = Genesis
  <2>1. Chain[b] = <<b>> /\ Weight[b] = Plays[b]
    BY <1>3, RootedAssumption
  <2>2. Len(<<b>>) = 1 /\ <<b>>[1] = b
    OBVIOUS
  <2>3. Depth(b) = 1 /\ Chain[b][Depth(b)] = b
    BY <2>1, <2>2 DEF Depth
  <2> QED
    BY <1>1, <1>2, <1>3, <2>1, <2>3 DEF Depth
<1>4. CASE b # Genesis
  <2>1. Parent[b] \in Block
    BY <1>4
  <2>2. Chain[b] = Append(Chain[Parent[b]], b) /\ Weight[b] = Plays[b] + Weight[Parent[b]]
    BY <1>4, RootedAssumption
  <2>3. Chain[Parent[b]] \in Seq(Block) /\ Weight[Parent[b]] \in Nat
    BY <1>1, <2>1
  <2>4. /\ Len(Chain[b]) = Len(Chain[Parent[b]]) + 1
        /\ Chain[b][Len(Chain[b])] = b
        /\ \A h \in 1..Len(Chain[Parent[b]]) : Chain[b][h] = Chain[Parent[b]][h]
    BY <2>2, <2>3
  <2>5. Len(Chain[Parent[b]]) >= 1
    <3>1. CASE Parent[b] = Genesis
      BY <3>1, RootedAssumption
    <3>2. CASE Parent[b] # Genesis
      <4>1. Chain[Parent[b]] = Append(Chain[Parent[Parent[b]]], Parent[b])
            /\ Parent[Parent[b]] \in Block
        BY <2>1, <3>2, RootedAssumption
      <4>2. Chain[Parent[Parent[b]]] \in Seq(Block)
        BY <1>1, <4>1
      <4> QED
        BY <4>1, <4>2
    <3> QED
      BY <3>1, <3>2
  <2>6. Plays[b] \in Nat /\ PrevHash(b) = Parent[b]
    BY <1>4 DEF PrevHash
  <2>7. Len(Chain[Parent[b]]) \in Nat
    BY <2>3
  <2>8. Weight[b] = Weight[Parent[b]] + Plays[b]
    BY <2>2, <2>3, <2>6
  <2>9. Depth(b) = Depth(Parent[b]) + 1 /\ Depth(b) >= 1
    BY <2>4, <2>5, <2>7 DEF Depth
  <2> QED
    BY <1>1, <1>2, <1>4, <2>1, <2>4, <2>5, <2>6, <2>8, <2>9 DEF Depth
<1> QED
    BY <1>3, <1>4

\* The blocks of a chain have the lower parts of it for chains.
LEMMA LowerChain ==
    ASSUME NEW b \in Block, NEW h \in 1..Depth(b)
    PROVE  /\ Chain[b][h] \in Block /\ Depth(Chain[b][h]) = h
           /\ \A k \in 1..h : Chain[Chain[b][h]][k] = Chain[b][k]
<1> DEFINE whole(c) == \A i \in 1..Depth(c) :
                          /\ Depth(Chain[c][i]) = i
                          /\ \A k \in 1..i : Chain[Chain[c][i]][k] = Chain[c][k]
           T == {Depth(c) : c \in {x \in Block : ~ whole(x)}}
<1>1. T \subseteq Nat
    BY ChainFacts
<1>2. ASSUME NEW c \in Block, \A x \in Block : Depth(x) < Depth(c) => whole(x)
      PROVE  whole(c)
  <2> SUFFICES ASSUME NEW i \in 1..Depth(c)
               PROVE  /\ Depth(Chain[c][i]) = i
                      /\ \A k \in 1..i : Chain[Chain[c][i]][k] = Chain[c][k]
    OBVIOUS
  <2>1. CASE i = Depth(c)
    BY <2>1, ChainFacts
  <2>2. CASE i # Depth(c)
    <3>1. c # Genesis /\ Depth(c) \in Nat
      BY <2>2, ChainFacts
    <3>2. /\ Parent[c] \in Block /\ Depth(c) = Depth(Parent[c]) + 1
          /\ Depth(Parent[c]) \in Nat
          /\ \A k \in 1..Depth(Parent[c]) : Chain[c][k] = Chain[Parent[c]][k]
      BY <3>1, ChainFacts
    <3>3. whole(Parent[c])
      BY <1>2, <3>2
    <3>4. i \in 1..Depth(Parent[c]) /\ \A k \in 1..i : k \in 1..Depth(Parent[c])
      BY <2>2, <3>1, <3>2
    <3>5. Chain[c][i] = Chain[Parent[c]][i]
          /\ \A k \in 1..i : Chain[c][k] = Chain[Parent[c]][k]
      BY <3>2, <3>4
    <3>6. /\ Depth(Chain[Parent[c]][i]) = i
          /\ \A k \in 1..i : Chain[Chain[Parent[c]][i]][k] = Chain[Parent[c]][k]
      BY <3>3, <3>4
    <3> HIDE DEF whole
    <3> QED
      BY <3>5, <3>6
  <2> QED
    BY <2>1, <2>2
<1> HIDE DEF whole
<1>3. ASSUME T # {} PROVE FALSE
  <2>1. PICK x \in T : \A y \in T : x <= y
    BY <1>1, <1>3, LeastNat
  <2>2. PICK c \in Block : ~ whole(c) /\ x = Depth(c)
    OBVIOUS
  <2>3. ASSUME NEW y \in Block, Depth(y) < Depth(c), ~ whole(y) PROVE FALSE
    <3>1. Depth(y) \in T /\ Depth(y) \in Nat /\ Depth(c) \in Nat
      BY <2>3, ChainFacts
    <3> QED
      BY <2>1, <2>2, <2>3, <3>1
  <2> QED
    BY <1>2, <2>2, <2>3
<1>4. whole(b)
    BY <1>3
<1> QED
    BY <1>4, ChainFacts DEF whole

\* The links of a chain.
LEMMA ChainLinks ==
    ASSUME NEW b \in Block
    PROVE  /\ Chain[b][1] = Genesis
           /\ \A h \in 1..Depth(b) :
                 PrevHash(Chain[b][h]) = IF h = 1 THEN NoBlock ELSE Chain[b][h - 1]
<1>0. Depth(b) \in Nat /\ Depth(b) >= 1
    BY ChainFacts
<1>1. ASSUME NEW h \in 1..Depth(b)
      PROVE  /\ h = 1 => Chain[b][h] = Genesis
             /\ PrevHash(Chain[b][h]) = IF h = 1 THEN NoBlock ELSE Chain[b][h - 1]
  <2> DEFINE c == Chain[b][h]
  <2>1. /\ c \in Block /\ Depth(c) = h
        /\ \A k \in 1..h : Chain[c][k] = Chain[b][k]
    BY LowerChain
  <2> HIDE DEF c
  <2>2. CASE h = 1
    <3>1. c = Genesis
      BY <2>1, <2>2, ChainFacts
    <3> QED
      BY <2>2, <3>1 DEF PrevHash, c
  <2>3. CASE h # 1
    <3>1. c # Genesis
      BY <2>1, <2>3, ChainFacts
    <3>2. /\ Parent[c] \in Block /\ PrevHash(c) = Parent[c]
          /\ h = Depth(Parent[c]) + 1 /\ Depth(Parent[c]) \in Nat /\ Depth(Parent[c]) >= 1
          /\ \A k \in 1..Depth(Parent[c]) : Chain[c][k] = Chain[Parent[c]][k]
      BY <2>1, <3>1, ChainFacts
    <3>3. h - 1 = Depth(Parent[c]) /\ h - 1 \in 1..Depth(Parent[c]) /\ h - 1 \in 1..h
      BY <3>2
    <3>4. Chain[c][h - 1] = Parent[c]
      BY <3>2, <3>3, ChainFacts
    <3> QED
      BY <2>1, <2>3, <3>2, <3>3, <3>4 DEF c
  <2> QED
    BY <2>2, <2>3
<1> QED
    BY <1>0, <1>1

\* The blocks of a linked run lie on the chain of each later one; height and
\* weight are those of the block it grows from, plus what the run adds.
LEMMA RunFacts ==
    ASSUME NEW s \in Seq(Block \ {Genesis}), s # <<>>,
           \A i \in 2..Len(s) : PrevHash(s[i]) = s[i - 1],
           NEW p \in Block, PrevHash(s[1]) = p
    PROVE  \A i \in 1..Len(s) :
              /\ s[i] \in Block /\ Depth(s[i]) = Depth(p) + i
              /\ Weight[s[i]] = Weight[p] + BranchPlays(s)[i]
              /\ \A h \in 1..Depth(p) : Chain[s[i]][h] = Chain[p][h]
              /\ \A j \in 1..i : Chain[s[i]][Depth(p) + j] = s[j]
<1>1. /\ Len(s) \in Nat /\ Len(s) >= 1
      /\ \A i \in 1..Len(s) : s[i] \in Block /\ s[i] # Genesis
    OBVIOUS
<1>0. \A i \in 1..Len(s) : Plays[s[i]] \in Nat
    BY <1>1, ChainStoreAssumption
<1>2. /\ Depth(p) \in Nat /\ Depth(p) >= 1 /\ Weight[p] \in Nat
      /\ Chain[p][Depth(p)] = p
    BY ChainFacts
<1>3. \A i \in 1..Len(s) : PrevHash(s[i]) = (IF i = 1 THEN p ELSE s[i - 1])
  <2> SUFFICES ASSUME NEW i \in 1..Len(s)
               PROVE  PrevHash(s[i]) = (IF i = 1 THEN p ELSE s[i - 1])
    OBVIOUS
  <2>1. i # 1 => i \in 2..Len(s)
    BY <1>1
  <2> QED
    BY <2>1
<1>4. ASSUME NEW i \in 1..Len(s)
      PROVE  LET q == IF i = 1 THEN p ELSE s[i - 1]
             IN  /\ q \in Block /\ Plays[s[i]] \in Nat
                 /\ Depth(s[i]) = Depth(q) + 1 /\ Depth(s[i]) \in Nat
                 /\ Weight[s[i]] = Weight[q] + Plays[s[i]] /\ Weight[s[i]] \in Nat
                 /\ \A h \in 1..Depth(q) : Chain[s[i]][h] = Chain[q][h]
                 /\ Chain[s[i]][Depth(s[i])] = s[i]
  <2>1. s[i] \in Block /\ s[i] # Genesis
    BY <1>1
  <2>2. Parent[s[i]] = IF i = 1 THEN p ELSE s[i - 1]
    BY <1>3, <2>1 DEF PrevHash
  <2> DEFINE q == IF i = 1 THEN p ELSE s[i - 1]
  <2>3. q = Parent[s[i]]
    BY <2>2
  <2>4. Plays[s[i]] \in Nat
    BY <1>0
  <2> HIDE DEF q
  <2>5. /\ q \in Block
        /\ Depth(s[i]) = Depth(q) + 1 /\ Depth(s[i]) \in Nat
        /\ Weight[s[i]] = Weight[q] + Plays[s[i]] /\ Weight[s[i]] \in Nat
        /\ \A h \in 1..Depth(q) : Chain[s[i]][h] = Chain[q][h]
        /\ Chain[s[i]][Depth(s[i])] = s[i]
    BY <2>1, <2>3, ChainFacts
  <2> QED
    BY <2>4, <2>5 DEF q
<1> DEFINE w == [i \in 0..Len(s) |-> IF i = 0 THEN 0 ELSE Weight[s[i]] - Weight[p]]
           plays == BranchPlays(s)
           climbed(i) == /\ Depth(s[i]) = Depth(p) + i
                         /\ plays[i] \in Nat /\ Weight[s[i]] = Weight[p] + plays[i]
                         /\ \A h \in 1..Depth(p) : Chain[s[i]][h] = Chain[p][h]
                         /\ \A j \in 1..i : Chain[s[i]][Depth(p) + j] = s[j]
           T == {i \in 1..Len(s) : ~ climbed(i)}
<1>5. w = [i \in 0..Len(s) |-> IF i = 0 THEN 0 ELSE w[i - 1] + Plays[s[i]]]
  <2> SUFFICES ASSUME NEW i \in 0..Len(s), i # 0
               PROVE  Weight[s[i]] - Weight[p] = w[i - 1] + Plays[s[i]]
    OBVIOUS
  <2>1. CASE i = 1
    <3>1. w[i - 1] = 0
      BY <2>1, <1>1
    <3>2. Weight[s[1]] = Weight[p] + Plays[s[1]] /\ Plays[s[1]] \in Nat
      BY <1>1, <1>4, <2>1
    <3> HIDE DEF w
    <3> QED
      BY <1>2, <2>1, <3>1, <3>2
  <2>2. CASE i # 1
    <3>1. i - 1 \in 1..Len(s) /\ i \in 1..Len(s)
      BY <1>1, <2>2
    <3>2. w[i - 1] = Weight[s[i - 1]] - Weight[p]
      BY <3>1
    <3>3. /\ Weight[s[i]] = Weight[s[i - 1]] + Plays[s[i]] /\ Plays[s[i]] \in Nat
          /\ Weight[s[i - 1]] \in Nat
      BY <1>4, <2>2, <3>1
    <3> DEFINE u == w[i - 1]
               x == Weight[s[i]]
               y == Weight[s[i - 1]]
               z == Plays[s[i]]
    <3>4. u = y - Weight[p] /\ x = y + z /\ z \in Nat /\ y \in Nat
      BY <3>2, <3>3
    <3> HIDE DEF w, u, x, y, z
    <3>5. x - Weight[p] = u + z
      BY <1>2, <3>4
    <3> QED
      BY <3>5 DEF u, x, z
  <2> QED
    BY <2>1, <2>2
<1>6. plays = [i \in 0..Len(s) |-> IF i = 0 THEN 0 ELSE plays[i - 1] + Plays[s[i]]]
  <2> HIDE DEF w, plays
  <2>1. BranchPlays(s) =
           [i \in 0..Len(s) |-> IF i = 0 THEN 0
                                ELSE BranchPlays(s)[i - 1] + Plays[s[i]]]
    BY <1>5, Zenon DEF BranchPlays
  <2> QED
    BY <2>1, Zenon DEF plays
<1> HIDE DEF w, plays
<1>7. ASSUME NEW i \in 1..Len(s), i # 1 => climbed(i - 1) PROVE climbed(i)
  <2>0. i \in Nat /\ i >= 1 /\ i \in 0..Len(s)
    BY <1>1
  <2>1. plays[i] = plays[i - 1] + Plays[s[i]]
    BY <1>6, <2>0
  <2>2. CASE i = 1
    <3>1. plays[0] = 0
      BY <1>1, <1>6
    <3>2. /\ Depth(s[1]) = Depth(p) + 1
          /\ Weight[s[1]] = Weight[p] + Plays[s[1]] /\ Plays[s[1]] \in Nat
          /\ \A h \in 1..Depth(p) : Chain[s[1]][h] = Chain[p][h]
          /\ Chain[s[1]][Depth(s[1])] = s[1]
      BY <1>4, <2>2
    <3>3. \A j \in 1..1 : j = 1
      OBVIOUS
    <3>4. plays[1] = Plays[s[1]]
      BY <2>1, <2>2, <3>1, <3>2
    <3> QED
      BY <2>2, <3>2, <3>3, <3>4
  <2>3. CASE i # 1
    <3> DEFINE q == s[i - 1]
    <3>1. /\ Plays[s[i]] \in Nat
          /\ Depth(s[i]) = Depth(q) + 1
          /\ Weight[s[i]] = Weight[q] + Plays[s[i]] /\ Weight[q] \in Nat
          /\ \A h \in 1..Depth(q) : Chain[s[i]][h] = Chain[q][h]
          /\ Chain[s[i]][Depth(s[i])] = s[i]
      BY <1>1, <1>4, <2>3, ChainFacts
    <3>2. /\ Depth(q) = Depth(p) + (i - 1)
          /\ Weight[q] = Weight[p] + plays[i - 1]
          /\ \A h \in 1..Depth(p) : Chain[q][h] = Chain[p][h]
          /\ \A j \in 1..(i - 1) : Chain[q][Depth(p) + j] = s[j]
      BY <1>7, <2>3
    <3> HIDE DEF q
    <3>3. Depth(s[i]) = Depth(p) + i
      BY <1>2, <2>0, <3>1, <3>2
    <3>4. Weight[s[i]] = Weight[p] + plays[i]
      <4>1. plays[i] = plays[i - 1] + Plays[s[i]] /\ plays[i - 1] \in Nat
        BY <1>7, <2>1, <2>3
      <4> QED
        BY <1>2, <3>1, <3>2, <4>1
    <3>5. \A h \in 1..Depth(p) : Chain[s[i]][h] = Chain[p][h]
      BY <1>2, <2>0, <3>1, <3>2
    <3>6. ASSUME NEW j \in 1..i PROVE Chain[s[i]][Depth(p) + j] = s[j]
      <4>1. CASE j = i
        BY <3>1, <3>3, <4>1
      <4>2. CASE j # i
        <5>1. j \in 1..(i - 1) /\ Depth(p) + j \in 1..Depth(q)
          BY <1>2, <2>0, <3>2, <4>2
        <5> QED
          BY <3>1, <3>2, <5>1
      <4> QED
        BY <4>1, <4>2
    <3>7. plays[i] \in Nat
      BY <1>7, <2>1, <2>3, <3>1
    <3> QED
      BY <3>3, <3>4, <3>5, <3>6, <3>7
  <2> QED
    BY <2>2, <2>3
<1>8. ASSUME T # {} PROVE FALSE
  <2>1. PICK i \in T : \A y \in T : i <= y
    <3>1. T \subseteq Nat
      BY <1>1
    <3> HIDE DEF T
    <3> QED
      BY <1>8, <3>1, LeastNat
  <2>2. i \in 1..Len(s) /\ ~ climbed(i)
    OBVIOUS
  <2>3. CASE i = 1
    BY <1>7, <2>2, <2>3
  <2>4. CASE i # 1
    <3>1. i - 1 \in 1..Len(s) /\ ~ (i <= i - 1)
      BY <1>1, <2>2, <2>4
    <3>2. climbed(i - 1)
      <4> HIDE DEF climbed
      <4> QED
        BY <2>1, <3>1
    <3> QED
      BY <1>7, <2>2, <3>2
  <2> QED
    BY <2>3, <2>4
<1>9. \A i \in 1..Len(s) : climbed(i)
  <2> HIDE DEF climbed
  <2> QED
    BY <1>8
<1> QED
    BY <1>1, <1>9 DEF plays

-----------------------------------------------------------------------------
(***************************************************************************)
(* What the invariant says of the tip served, of the tip and of a branch.  *)
(***************************************************************************)
LEMMA WholeTipFacts ==
    ASSUME NEW b
    PROVE  /\ WholeTip(b).hash = b /\ WholeTip(b).height = Depth(b)
           /\ WholeTip(b).weight = Weight[b] /\ WholeTip(b).stamp = Stamp[b]
           /\ WholeTip(b) = TipAt(b, Depth(b), Weight[b])
BY DEF WholeTip, TipAt

LEMMA ServedFacts ==
    ASSUME StraightInv
    PROVE  /\ served.hash \in Block /\ served.height = Depth(served.hash)
           /\ served.height \in Nat /\ served.height >= 1
           /\ Chain[served.hash][served.height] = served.hash
<1>1. served.hash \in Block /\ served = WholeTip(served.hash)
    BY DEF StraightInv
<1>2. served.height = Depth(served.hash)
    BY <1>1, WholeTipFacts
<1> QED
    BY <1>1, <1>2, ChainFacts

LEMMA StraightFacts ==
    ASSUME StraightInv, NEW t, Straight(t)
    PROVE  /\ t.hash \in Block /\ t.hash \in offered
           /\ t.height = Depth(t.hash) /\ t.weight = Weight[t.hash]
           /\ t.height \in Nat /\ t.height >= 1
           /\ \A h \in 1..t.height :
                 h \in DOMAIN n /\ n[h] = Chain[t.hash][h] /\ n[h] \in Block
           /\ n[t.height] = t.hash
<1>1. t.hash \in Block /\ t = WholeTip(t.hash)
    BY DEF StraightInv, Straight
<1>2. t.height = Depth(t.hash) /\ t.weight = Weight[t.hash]
    BY <1>1, WholeTipFacts
<1>3. \A h \in 1..t.height : h \in DOMAIN n /\ n[h] = Chain[t.hash][h]
    BY DEF Straight, Holds
<1> QED
    BY <1>1, <1>2, <1>3, ChainFacts DEF Straight

\* The branch of a reorg, whether it is bound to fail or not.
LEMMA BranchFacts ==
    ASSUME AsideInv
    PROVE  LET s   == reorg.branch
               top == Top(reorg.branch)
               p   == PrevHash(reorg.branch[1])
           IN  /\ s \in Seq(Block \ {Genesis}) /\ Len(s) \in Nat /\ Len(s) >= 1
               /\ DOMAIN s = 1..Len(s) /\ reorg.fork \in Nat /\ reorg.fork >= 1
               /\ p \in Block /\ p = Chain[p][reorg.fork]
               /\ top \in Block /\ top = s[Len(s)]
               /\ Depth(top) = reorg.fork + Len(s)
               /\ Weight[top] = reorg.base + BranchPlays(s)[Len(s)]
               /\ \A i \in 1..Len(s) :
                     /\ s[i] \in Block /\ Depth(s[i]) = reorg.fork + i
                     /\ Weight[s[i]] = reorg.base + BranchPlays(s)[i]
                     /\ Chain[top][reorg.fork + i] = s[i]
               /\ \A h \in 1..reorg.fork : Chain[top][h] = Chain[p][h]
<1> DEFINE s == reorg.branch
           p == PrevHash(s[1])
<1>1. /\ s \in Branch /\ s # <<>> /\ p \in Block
      /\ reorg.fork = Depth(p) /\ reorg.base = Weight[p]
      /\ \A i \in 2..Len(s) : PrevHash(s[i]) = s[i - 1]
    BY DEF AsideInv
<1>2. s \in Seq(Block \ {Genesis})
    BY <1>1, ChainStoreAssumption
<1>3. Len(s) \in Nat /\ Len(s) >= 1 /\ DOMAIN s = 1..Len(s)
    BY <1>1, <1>2
<1>4. Depth(p) \in Nat /\ Depth(p) >= 1 /\ Chain[p][Depth(p)] = p
    BY <1>1, ChainFacts
<1>5. PrevHash(s[1]) = p
    OBVIOUS
<1> HIDE DEF p, s
<1>6. \A i \in 1..Len(s) :
              /\ s[i] \in Block /\ Depth(s[i]) = Depth(p) + i
              /\ Weight[s[i]] = Weight[p] + BranchPlays(s)[i]
              /\ \A h \in 1..Depth(p) : Chain[s[i]][h] = Chain[p][h]
              /\ \A j \in 1..i : Chain[s[i]][Depth(p) + j] = s[j]
    BY <1>1, <1>2, <1>5, RunFacts
<1>7. Top(s) = s[Len(s)] /\ Len(s) \in 1..Len(s)
    BY <1>3 DEF Top
<1>8. /\ Top(s) \in Block /\ Depth(Top(s)) = Depth(p) + Len(s)
      /\ Weight[Top(s)] = Weight[p] + BranchPlays(s)[Len(s)]
      /\ \A h \in 1..Depth(p) : Chain[Top(s)][h] = Chain[p][h]
      /\ \A j \in 1..Len(s) : Chain[Top(s)][Depth(p) + j] = s[j]
    BY <1>6, <1>7
<1>9. /\ s = reorg.branch /\ p = PrevHash(reorg.branch[1])
    BY DEF s, p
<1> QED
    BY <1>1, <1>2, <1>3, <1>4, <1>6, <1>7, <1>8, <1>9

\* A branch that is not bound to fail grows from the chain served before.
LEMMA JoinFacts ==
    ASSUME StraightInv, AsideInv, ~ Failing
    PROVE  \A h \in 1..reorg.fork :
              Chain[Top(reorg.branch)][h] = Chain[served.hash][h]
<1> DEFINE p == PrevHash(reorg.branch[1])
           f == reorg.fork
           b == served.hash
           top == Top(reorg.branch)
<1>1. Chain[b][f] = p
    BY DEF Failing
<1>2. b \in Block /\ f \in 1..Depth(b) /\ f \in Nat
    BY ServedFacts, BranchFacts DEF AsideInv
<1>3. \A h \in 1..f : Chain[top][h] = Chain[p][h]
    BY BranchFacts
<1> HIDE DEF p, f, b, top
<1>4. \A h \in 1..f : Chain[p][h] = Chain[b][h]
    BY <1>1, <1>2, LowerChain
<1> QED
    BY <1>3, <1>4 DEF f, b, top

\* What a reorg put aside is the upper part of the chain served.
LEMMA OldFacts ==
    ASSUME CrashInv, StraightInv, AsideInv, pc # "idle"
    PROVE  /\ DOMAIN reorg.old = 1..(served.height - reorg.fork)
           /\ \A i \in DOMAIN reorg.old :
                 /\ reorg.fork + i \in 1..served.height
                 /\ reorg.old[i] = Chain[served.hash][reorg.fork + i]
                 /\ reorg.old[i] \in Block /\ Depth(reorg.old[i]) = reorg.fork + i
<1>1. /\ reorg.fork \in 1..served.height /\ reorg.old_tip = served
      /\ \A i \in DOMAIN reorg.old :
            reorg.old[i] = Chain[served.hash][reorg.fork + i]
    BY DEF AsideInv
<1>2. served.hash \in Block /\ served.height = Depth(served.hash) /\ served.height \in Nat
    BY ServedFacts
<1>3. DOMAIN reorg.old = 1..(served.height - reorg.fork)
    BY <1>1, <1>2, Underway DEF Larger
<1>4. ASSUME NEW i \in DOMAIN reorg.old
      PROVE  /\ reorg.fork + i \in 1..served.height
             /\ Chain[served.hash][reorg.fork + i] \in Block
             /\ Depth(Chain[served.hash][reorg.fork + i]) = reorg.fork + i
  <2>1. reorg.fork + i \in 1..served.height
    BY <1>1, <1>2, <1>3
  <2> QED
    BY <1>2, <2>1, LowerChain
<1> QED
    BY <1>1, <1>3, <1>4

\* Steps that leave the heights up to the fork point alone.
LEMMA SameAside ==
    ASSUME AsideInv, served' = served, offered \subseteq offered',
           reorg'.fork = reorg.fork, reorg'.base = reorg.base,
           reorg'.branch = reorg.branch, reorg'.old = reorg.old,
           reorg'.old_tip = reorg.old_tip,
           \A h \in 1..reorg.fork : h \in DOMAIN n => h \in DOMAIN n' /\ n'[h] = n[h]
    PROVE  AsideInv' /\ (Failing' <=> Failing)
<1>1. Failing' <=> Failing
    BY DEF Failing
<1>2. Holds(served.hash, reorg.fork)'
    BY DEF AsideInv, Holds
<1>3. Top(reorg.branch)' = Top(reorg.branch)
    BY DEF Top
<1> QED
    BY <1>1, <1>2, <1>3 DEF AsideInv

-----------------------------------------------------------------------------
(***************************************************************************)
(* The steps of a reorg and of a rebuild, one lemma for each.              *)
(***************************************************************************)

\* The steps between the two ends of a write, a replay or a restore.
LEMMA Carry ==
    ASSUME SoundInv, pc \notin {"idle", "down", "write_branch"},
           pc' \notin {"idle", "down", "write_branch"},
           Trying' <=> Trying, Restoring' <=> Restoring, Restored' <=> Restored,
           served' = served, offered' = offered,
           reorg'.fork = reorg.fork, reorg'.base = reorg.base,
           reorg'.branch = reorg.branch, reorg'.old = reorg.old,
           reorg'.old_tip = reorg.old_tip,
           Reorging => \A h \in 1..reorg.fork :
                          h \in DOMAIN n => h \in DOMAIN n' /\ n'[h] = n[h],
           ~ Astray => /\ tip' = tip /\ Holds(tip.hash, tip.height)'
                       /\ Valid(tip.hash)' /\ pc' # "rollback",
           Reorging /\ Failing => Valid(served.hash)',
           pc' \in {"judge", "disarm"} =>
              (\A h \in DOMAIN cp : h \in DOMAIN pins /\ pins[h] = cp[h])'
    PROVE  /\ StraightInv' /\ (Reorging' => AsideInv' /\ EndInv')
           /\ (Reorging' <=> Reorging) /\ (Astray' <=> Astray)
<1>1. Reorging => AsideInv /\ EndInv /\ AsideInv' /\ (Failing' <=> Failing)
    BY SameAside DEF SoundInv
<1>2. Reorging' <=> Reorging
    BY DEF Reorging
<1>3. Astray' <=> Astray
    BY <1>1 DEF Astray, Reorging
<1>4. StraightInv
    BY DEF SoundInv
<1>5. ~ Astray => Straight(tip)'
  <2> SUFFICES ASSUME ~ Astray PROVE Straight(tip)'
    OBVIOUS
  <2>1. Straight(tip) /\ tip' = tip
    BY <1>4 DEF StraightInv
  <2>2. /\ tip'.hash \in offered' /\ tip' = WholeTip(tip'.hash)
        /\ tip' = served' \/ tip_is_better(tip', served')
    BY <2>1 DEF Straight
  <2> QED
    BY <2>2 DEF Straight
<1>6. Restored' => tip' = served'
  <2>1. Restored => ~ Astray
    BY DEF Restored, Astray, Restoring, Trying
  <2> QED
    BY <1>4, <2>1 DEF StraightInv
<1>7. StraightInv'
    BY <1>3, <1>4, <1>5, <1>6 DEF StraightInv
<1>8. Reorging' => EndInv'
  <2> SUFFICES ASSUME Reorging PROVE EndInv'
    BY <1>2
  <2>1. CASE Failing
    BY <1>1, <2>1 DEF EndInv
  <2>2. CASE ~ Failing
    <3>1. Trying /\ tip.hash = Top(reorg.branch)
      BY <1>1, <2>2 DEF EndInv
    <3>2. ~ Astray
      BY <2>2, <3>1 DEF Astray, Trying, Restoring
    <3>3. tip'.hash = Top(reorg'.branch)
      BY <3>1, <3>2 DEF Top
    <3> QED
      BY <1>1, <2>2, <3>1, <3>3 DEF EndInv
  <2> QED
    BY <2>1, <2>2
<1> QED
    BY <1>1, <1>2, <1>3, <1>7, <1>8

\* Where index, tip and pins stay, the conditions of Carry are met.
LEMMA CarrySame ==
    ASSUME SoundInv, pc \notin {"idle", "down", "write_branch"},
           pc' \notin {"idle", "down", "write_branch", "rollback"},
           Trying' <=> Trying, Restoring' <=> Restoring, Restored' <=> Restored,
           served' = served, offered' = offered, reorg' = reorg,
           UNCHANGED <<n, tip, cp, pins>>,
           pc' \in {"judge", "disarm"} => pc \in {"judge", "disarm"}
    PROVE  /\ StraightInv' /\ (Reorging' => AsideInv' /\ EndInv')
           /\ (Reorging' <=> Reorging) /\ (Astray' <=> Astray)
<1>1. StraightInv /\ (Reorging => EndInv)
    BY DEF SoundInv
<1>2. ~ Astray => /\ tip' = tip /\ Holds(tip.hash, tip.height)'
                  /\ Valid(tip.hash)' /\ pc' # "rollback"
  <2> SUFFICES ASSUME ~ Astray
               PROVE  Holds(tip.hash, tip.height)' /\ Valid(tip.hash)'
    OBVIOUS
  <2>1. Holds(tip.hash, tip.height) /\ Valid(tip.hash)
    BY <1>1 DEF StraightInv, Straight
  <2> QED
    BY <2>1 DEF Holds, Valid, Agree
<1>3. Reorging /\ Failing => Valid(served.hash)'
    BY <1>1 DEF EndInv, Valid, Agree
<1>4. pc' \in {"judge", "disarm"} =>
              (\A h \in DOMAIN cp : h \in DOMAIN pins /\ pins[h] = cp[h])'
    BY <1>1 DEF StraightInv
<1> QED
    BY <1>2, <1>3, <1>4, Carry

LEMMA ArmSound ==
    ASSUME SoundInv, Arm, Observe
    PROVE  SoundInv' /\ served' = served
<1>1. /\ pc = "arm" /\ pc' = "clear" /\ caller' = caller /\ reorg' = reorg
      /\ UNCHANGED <<row, n, tip, cp, pins, served, offered>>
    BY DEF Arm, Observe, memory, locals
<1>2. (Trying' <=> Trying) /\ (Restoring' <=> Restoring) /\ (Restored' <=> Restored)
    BY <1>1 DEF Trying, Restoring, Restored
<1>3. /\ StraightInv' /\ (Reorging' => AsideInv' /\ EndInv')
      /\ (Reorging' <=> Reorging) /\ (Astray' <=> Astray)
    BY <1>1, <1>2, CarrySame
<1>4. Stale' = Stale
    BY <1>1, <1>2 DEF Stale
<1>5. RowsInv'
    BY <1>1, <1>4 DEF SoundInv, RowsInv
<1>6. Trying' /\ Astray' => TrialInv'
    BY <1>1, <1>2, <1>3 DEF SoundInv, TrialInv
<1> QED
    BY <1>1, <1>3, <1>5, <1>6 DEF SoundInv

LEMMA ClearSound ==
    ASSUME CrashInv, SoundInv, ClearDerived, Observe
    PROVE  SoundInv' /\ served' = served
<1>1. /\ pc = "clear" /\ pc' = "replay" /\ caller' = caller /\ reorg' = reorg
      /\ good' = 0 /\ cum' = 0
      /\ UNCHANGED <<row, n, tip, cp, pins, served, offered>>
    BY DEF ClearDerived, Observe, memory
<1>2. (Trying' <=> Trying) /\ (Restoring' <=> Restoring) /\ (Restored' <=> Restored)
    BY <1>1 DEF Trying, Restoring, Restored
<1>3. /\ StraightInv' /\ (Reorging' => AsideInv' /\ EndInv')
      /\ (Reorging' <=> Reorging) /\ (Astray' <=> Astray)
    BY <1>1, <1>2, CarrySame
<1>4. ASSUME NEW b \in Stale PROVE b \in Stale'
  <2>1. Restored /\ b \in Blocks(reorg.old)
    BY <1>1, <1>4 DEF Stale
  <2>2. AsideInv /\ StraightInv
    BY <2>1 DEF SoundInv, Reorging
  <2>3. Depth(b) >= 1 /\ Depth(b) \in Nat
    BY <1>1, <2>1, <2>2, OldFacts, ChainFacts DEF Blocks
  <2>4. Depth(b) > good'
    BY <1>1, <2>3
  <2> QED
    BY <1>1, <1>2, <2>1, <2>4 DEF Stale
<1>5. RowsInv'
    BY <1>1, <1>4 DEF SoundInv, RowsInv
<1>6. Trying' /\ Astray' => TrialInv'
    BY <1>1, <1>2, <1>3 DEF SoundInv, TrialInv
<1> QED
    BY <1>1, <1>3, <1>5, <1>6 DEF SoundInv

\* A checkpoint that a block of the chain of b carries names that chain.
LEMMA PinKeeps ==
    ASSUME PinsHonest, NEW b \in Block, NEW h \in 1..Depth(b), NEW x, x = Chain[b][h],
           NEW p, Agree(p, b)
    PROVE  Agree(IF x \in DOMAIN Pin THEN Put(p, Pin[x].height, Pin[x].hash) ELSE p, b)
<1>1. CASE x \notin DOMAIN Pin
    BY <1>1
<1>2. CASE x \in DOMAIN Pin
  <2> DEFINE k == Pin[x].height
             v == Pin[x].hash
  <2>1. x \in Block /\ Depth(x) = h /\ \A j \in 1..h : Chain[x][j] = Chain[b][j]
    BY LowerChain
  <2>2. k \in 1..h /\ v = Chain[x][k]
    BY <1>2, <2>1 DEF PinsHonest
  <2>3. Depth(b) \in Nat
    BY ChainFacts
  <2> HIDE DEF k, v
  <2>4. k \in Nat \ {0} /\ v = Chain[b][k]
    BY <2>1, <2>2, <2>3
  <2>5. DOMAIN Put(p, k, v) = DOMAIN p \cup {k}
        /\ \A j \in DOMAIN p \cup {k} : Put(p, k, v)[j] = IF j = k THEN v ELSE p[j]
    BY DEF Put
  <2>6. Agree(Put(p, k, v), b)
    BY <2>4, <2>5 DEF Agree
  <2> QED
    BY <1>2, <2>6 DEF k, v
<1> QED
    BY <1>1, <1>2

\* The replay of a failing branch adds no checkpoint against the chain served
\* before, and passes no bad block.
LEMMA TrialPins ==
    ASSUME PinsHonest, CrashInv, SoundInv, Trying, Failing, ReplayBlock,
           served' = served
    PROVE  Agree(cp, served.hash)' /\ \A h \in 1..good' : n[h] \notin Bad
<1> DEFINE b == served.hash
           s == reorg.branch
           f == reorg.fork
           h == good + 1
<1>1. /\ pc = "replay" /\ good < tip.height /\ Replays(h) /\ good' = h
      /\ apply_checkpoint(n[h]) /\ UNCHANGED n
    BY DEF ReplayBlock
<1>2. AsideInv /\ EndInv /\ TrialInv /\ StraightInv /\ good \in Nat
    BY <1>1, TipFacts DEF SoundInv, Reorging, Astray
<1>3. /\ b \in Block /\ f \in 1..Depth(b) /\ f \in Nat
      /\ \A k \in 1..f : k \in DOMAIN n /\ n[k] = Chain[b][k]
      /\ Agree(cp, b)
    BY <1>2, ServedFacts, BranchFacts DEF AsideInv, Holds, EndInv, Valid
<1>4. /\ s \in Branch /\ Len(s) \in Nat /\ Len(s) >= 1 /\ DOMAIN s = 1..Len(s)
    BY <1>2, BranchFacts DEF AsideInv
<1>5. /\ tip.height = f + Len(s)
      /\ \A i \in DOMAIN s : n[f + i] = s[i]
      /\ \A k \in 1..good : n[k] \notin Bad
    BY <1>1, <1>2 DEF TrialInv
<1>6. \A k \in 1..good : PrevHash(n[k]) = HashAt(k - 1)
    BY <1>1 DEF CrashInv, ReplayInv, DerivedTo
<1> DEFINE q == IF n[h] \in DOMAIN Pin THEN Put(cp, Pin[n[h]].height, Pin[n[h]].hash)
                ELSE cp
<1>7. Agree(q, b)
  <2> HIDE DEF q
  <2>1. CASE h <= f
    <3>1. h \in 1..f /\ h \in 1..Depth(b)
      <4> HIDE DEF f, b
      <4> QED
        BY <1>2, <1>3, <2>1, ChainFacts
    <3>2. n[h] = Chain[b][h]
      BY <1>3, <3>1
    <3> QED
      BY <1>3, <3>1, <3>2, PinKeeps DEF q
  <2>2. CASE ~ (h <= f)
    <3>1. h - f \in DOMAIN s /\ h = f + (h - f) /\ 1 \in DOMAIN s /\ f + 1 \in 1..h
      <4> HIDE DEF f, s
      <4> QED
        BY <1>1, <1>2, <1>3, <1>4, <1>5, <2>2
    <3>2. n[h] = s[h - f] /\ n[f + 1] = s[1]
      <4> HIDE DEF f, s, h
      <4> QED
        BY <1>5, <3>1
    <3>3. PrevHash(s[1]) = Chain[b][f]
      <4>1. PrevHash(n[f + 1]) = HashAt(f)
        <5>1. CASE f + 1 = h
          <6>1. PrevHash(n[h]) = HashAt(h - 1) /\ h - 1 = f
            <7>1. h - 1 = f
              BY <1>3, <5>1
            <7> QED
              BY <1>1, <7>1 DEF Replays
          <6> QED
            BY <5>1, <6>1
        <5>2. CASE f + 1 # h
          <6>1. f + 1 \in 1..good /\ (f + 1) - 1 = f
            <7> HIDE DEF f
            <7> QED
              BY <1>2, <1>3, <3>1, <5>2
          <6> QED
            BY <1>6, <6>1
        <5> QED
          BY <5>1, <5>2
      <4>2. HashAt(f) = Chain[b][f]
        <5>1. f # 0 /\ f \in 1..f
          <6> HIDE DEF f, b
          <6> QED
            BY <1>3
        <5> QED
          BY <1>3, <5>1 DEF HashAt
      <4> QED
        BY <3>2, <4>1, <4>2
    <3>4. Blocks(s) \cap Bad # {}
      BY <3>3 DEF Failing
    <3>5. n[h] \in Blocks(s)
      BY <3>1, <3>2 DEF Blocks
    <3>6. n[h] \notin DOMAIN Pin
      BY <1>4, <3>4, <3>5 DEF PinsHonest
    <3> QED
      BY <1>3, <3>6 DEF q
  <2> QED
    BY <2>1, <2>2
<1>8. cp' = q
    BY <1>1 DEF apply_checkpoint
<1>9. \A k \in 1..h : n[k] \notin Bad
  <2>1. \A k \in 1..h : k \in 1..good \/ k = h
    BY <1>2
  <2> QED
    BY <1>1, <1>5, <2>1 DEF Replays
<1> QED
    BY <1>1, <1>7, <1>8, <1>9

\* The replayed row gets the block's own weight.
LEMMA ReplayRows ==
    ASSUME CrashInv, RootInv, KeptInv, SoundInv, ReplayBlock
    PROVE  /\ n[good'] \in Block /\ Depth(n[good']) = good'
           /\ cum' = Weight[n[good']]
           /\ DOMAIN row' = DOMAIN row
           /\ \A b \in DOMAIN row : /\ row'[b].height = row[b].height
                                    /\ row'[b].weight = IF b = n[good'] THEN cum'
                                                        ELSE row[b].weight
<1> DEFINE h == good + 1
           x == n[h]
<1>1. /\ pc = "replay" /\ good < tip.height /\ good' = h /\ Present(h) /\ Replays(h)
      /\ cum' = cum + Plays[x]
      /\ row' = [row EXCEPT ![x].weight = cum']
    BY DEF ReplayBlock
<1>2. /\ good \in Nat /\ tip.height \in Nat /\ tip.height = t_tip.height
    BY <1>1, TipFacts
<1>3. x \in Block /\ x \in DOMAIN row
    BY <1>1 DEF Present, RootInv
<1>4. row[x].height = h
  <2>1. h \in 1..t_tip.height
    BY <1>1, <1>2
  <2>2. Sized(t_tip.height)
    BY <1>1 DEF KeptInv
  <2> QED
    BY <2>1, <2>2 DEF Sized
<1>5. Depth(x) = h
    BY <1>3, <1>4 DEF SoundInv, RowsInv
<1>6. cum' = Weight[x]
  <2>1. PrevHash(x) = HashAt(good)
    <3>1. h - 1 = good
      BY <1>2
    <3> QED
      BY <1>1, <3>1 DEF Replays
  <2>2. Plays[x] \in Nat
    BY <1>3, ChainStoreAssumption
  <2>3. CASE good = 0
    <3>1. x = Genesis
      BY <2>3 DEF RootInv
    <3>2. cum = 0 /\ Weight[x] = Plays[x]
      BY <1>1, <1>3, <2>3, <3>1, ChainFacts DEF SoundInv, RowsInv
    <3> QED
      BY <1>1, <2>2, <3>2
  <2>4. CASE good # 0
    <3>1. good \in 1..good
      BY <1>2, <2>4
    <3>2. n[good] \in Block /\ PrevHash(x) = n[good]
      BY <1>1, <2>1, <2>4, <3>1 DEF HashAt, CrashInv, ReplayInv, DerivedTo, Present, RootInv
    <3>3. x # Genesis
      BY <3>2, ChainStoreAssumption DEF PrevHash
    <3>4. Weight[x] = Weight[n[good]] + Plays[x]
      BY <1>3, <3>2, <3>3, ChainFacts
    <3>5. cum = Weight[n[good]]
      BY <1>1, <2>4 DEF SoundInv, RowsInv
    <3> QED
      BY <1>1, <3>4, <3>5
  <2> QED
    BY <2>3, <2>4
<1>7. DOMAIN row' = DOMAIN row
    BY <1>1
<1>8. ASSUME NEW b \in DOMAIN row
      PROVE  /\ row'[b].height = row[b].height
             /\ row'[b].weight = IF b = x THEN cum' ELSE row[b].weight
  <2>1. CASE b = x
    <3>1. row[x] = [height |-> row[x].height, weight |-> row[x].weight]
      BY <1>3 DEF CrashInv, IndexInv
    <3>2. row'[x] = [row[x] EXCEPT !.weight = cum']
      BY <1>1, <1>3
    <3> HIDE DEF x
    <3> QED
      BY <2>1, <3>1, <3>2
  <2>2. CASE b # x
    BY <1>1, <2>2
  <2> QED
    BY <2>1, <2>2
<1> QED
    BY <1>1, <1>3, <1>5, <1>6, <1>7, <1>8

LEMMA ReplayBlockSound ==
    ASSUME PinsHonest, CrashInv, RootInv, KeptInv, SoundInv, ReplayBlock, Observe
    PROVE  SoundInv' /\ served' = served
<1> DEFINE h == good + 1
<1>1. /\ pc = "replay" /\ pc' = "replay" /\ caller' = caller /\ reorg' = reorg
      /\ good < tip.height /\ good' = h /\ apply_checkpoint(n[h])
      /\ UNCHANGED <<n, tip, pins, served, offered>>
    BY DEF ReplayBlock, Observe, memory
<1>2. (Trying' <=> Trying) /\ (Restoring' <=> Restoring) /\ (Restored' <=> Restored)
    BY <1>1 DEF Trying, Restoring, Restored
<1>3. StraightInv /\ RowsInv /\ good \in Nat /\ tip.height \in Nat
    BY TipFacts DEF SoundInv
<1>4. ~ Astray => /\ n[h] = Chain[tip.hash][h] /\ h \in 1..Depth(tip.hash)
                  /\ tip.hash \in Block
                  /\ Holds(tip.hash, tip.height)' /\ Valid(tip.hash)'
  <2> SUFFICES ASSUME ~ Astray
               PROVE  /\ n[h] = Chain[tip.hash][h] /\ h \in 1..Depth(tip.hash)
                      /\ tip.hash \in Block
                      /\ Holds(tip.hash, tip.height)' /\ Valid(tip.hash)'
    OBVIOUS
  <2>1. Straight(tip)
    BY <1>1, <1>3 DEF StraightInv
  <2>2. /\ tip.hash \in Block /\ tip.height = Depth(tip.hash)
        /\ \A k \in 1..tip.height : n[k] = Chain[tip.hash][k]
    BY <1>3, <2>1, StraightFacts
  <2>3. h \in 1..Depth(tip.hash) /\ n[h] = Chain[tip.hash][h]
    BY <1>1, <1>3, <2>2
  <2>4. Agree(cp, tip.hash)'
    BY <1>1, <2>1, <2>2, <2>3, PinKeeps DEF Straight, Valid, apply_checkpoint
  <2>5. Holds(tip.hash, tip.height)'
    BY <1>1, <2>1 DEF Straight, Holds
  <2>6. Valid(tip.hash)'
    BY <1>1, <2>1, <2>4 DEF Straight, Valid, Agree
  <2> QED
    BY <2>2, <2>3, <2>5, <2>6
<1>5. Reorging /\ Failing => Valid(served.hash)'
  <2> SUFFICES ASSUME Reorging, Failing PROVE Valid(served.hash)'
    OBVIOUS
  <2>1. Valid(served.hash)
    BY DEF SoundInv, EndInv
  <2>2. Agree(cp, served.hash)'
    <3>1. CASE Trying
      BY <1>1, <3>1, TrialPins
    <3>2. CASE ~ Trying
      <4>1. Restored /\ ~ Astray
        BY <1>1, <3>2 DEF Reorging, Restoring, Astray
      <4>2. tip = served
        BY <1>3, <4>1 DEF StraightInv
      <4> QED
        BY <1>1, <1>4, <4>1, <4>2 DEF Valid
    <3> QED
      BY <3>1, <3>2
  <2> QED
    BY <1>1, <2>1, <2>2 DEF Valid, Agree
<1>6. /\ StraightInv' /\ (Reorging' => AsideInv' /\ EndInv')
      /\ (Reorging' <=> Reorging) /\ (Astray' <=> Astray)
    BY <1>1, <1>2, <1>4, <1>5, Carry
<1>7. ASSUME NEW b \in Stale, b \notin Stale' PROVE b = n[h]
  <2>1. Restored /\ b \in Blocks(reorg.old) /\ Depth(b) > good
    BY <1>1, <1>7 DEF Stale
  <2>2. AsideInv /\ tip = served /\ ~ Astray
    BY <1>1, <1>3, <2>1
       DEF SoundInv, Reorging, StraightInv, Astray, Restored, Restoring, Trying
  <2>3. PICK i \in DOMAIN reorg.old : b = reorg.old[i]
    BY <2>1 DEF Blocks
  <2>4. b = Chain[served.hash][reorg.fork + i] /\ Depth(b) = reorg.fork + i /\ b \in Block
    BY <1>1, <1>3, <2>2, <2>3, OldFacts
  <2>5. ~ (Depth(b) > h)
    BY <1>1, <1>2, <1>7, <2>1 DEF Stale
  <2>6. Depth(b) = h
    BY <1>3, <2>1, <2>4, <2>5, ChainFacts
  <2> QED
    BY <1>4, <2>2, <2>4, <2>6
<1>8. RowsInv'
  <2>1. /\ n[h] \in Block /\ Depth(n[h]) = h /\ cum' = Weight[n[h]]
        /\ DOMAIN row' = DOMAIN row
        /\ \A b \in DOMAIN row : /\ row'[b].height = row[b].height
                                 /\ row'[b].weight = IF b = n[h] THEN cum'
                                                     ELSE row[b].weight
    BY <1>1, ReplayRows
  <2>2. ASSUME NEW b \in DOMAIN row'
        PROVE  /\ row'[b].height = Depth(b)
               /\ b \notin Stale' => row'[b].weight = Weight[b]
    <3>1. /\ row[b].height = Depth(b) /\ (b \notin Stale => row[b].weight = Weight[b])
      BY <1>3, <2>1 DEF RowsInv
    <3> QED
      BY <1>7, <2>1, <3>1
  <2>3. h # 0
    BY <1>3
  <2> QED
    BY <1>1, <2>1, <2>2, <2>3 DEF RowsInv
<1>9. Trying' /\ Astray' => TrialInv'
  <2> SUFFICES ASSUME Trying, Astray PROVE TrialInv'
    BY <1>2, <1>6
  <2>1. TrialInv /\ Failing
    BY <1>1 DEF SoundInv, Astray, Restoring
  <2>2. \A k \in 1..good' : n[k] \notin Bad
    BY <1>1, <2>1, TrialPins
  <2> QED
    BY <1>1, <2>1, <2>2 DEF TrialInv
<1> QED
    BY <1>1, <1>6, <1>8, <1>9 DEF SoundInv

\* The replay of a failing branch does not reach its top.
LEMMA TrialStops ==
    ASSUME CrashInv, SoundInv, Trying, Failing, pc = "replay"
    PROVE  /\ good # tip.height /\ tip.height = reorg.fork + Len(reorg.branch)
           /\ TrialInv
<1> DEFINE s == reorg.branch
           f == reorg.fork
           b == served.hash
<1>1. AsideInv /\ TrialInv /\ StraightInv /\ good \in Nat
    BY TipFacts DEF SoundInv, Reorging, Astray
<1>2. tip.height = f + Len(s)
    BY <1>1 DEF TrialInv
<1>3. /\ \A i \in DOMAIN s : n[f + i] = s[i]
      /\ \A k \in 1..good : n[k] \notin Bad
    BY <1>1 DEF TrialInv
<1>4. \A k \in 1..good : PrevHash(n[k]) = HashAt(k - 1)
    BY DEF CrashInv, ReplayInv, DerivedTo
<1>5. /\ f \in Nat /\ f >= 1 /\ Len(s) \in Nat /\ Len(s) >= 1 /\ DOMAIN s = 1..Len(s)
    BY <1>1, BranchFacts
<1>6. n[f] = Chain[b][f]
    BY <1>1, <1>5 DEF AsideInv, Holds
<1>7. ASSUME good = tip.height PROVE FALSE
  <2>1. /\ \A i \in DOMAIN s : f + i \in 1..good
        /\ 1 \in DOMAIN s /\ f + 1 \in 1..good /\ (f + 1) - 1 = f /\ f # 0
    <3> HIDE DEF f, s
    <3> QED
      BY <1>1, <1>2, <1>5, <1>7
  <2>2. Blocks(s) \cap Bad = {}
    BY <1>3, <2>1 DEF Blocks
  <2>3. PrevHash(n[f + 1]) = HashAt(f)
    <3> HIDE DEF f
    <3> QED
      BY <1>4, <2>1
  <2>4. PrevHash(s[1]) = Chain[b][f]
    <3>1. n[f + 1] = s[1]
      BY <1>3, <2>1
    <3>2. HashAt(f) = n[f]
      BY <2>1 DEF HashAt
    <3> QED
      BY <1>6, <2>3, <3>1, <3>2
  <2> QED
    BY <2>2, <2>4 DEF Failing
<1> QED
    BY <1>1, <1>2, <1>7

\* The replay of a valid chain reaches the tip, at its weight.
LEMMA StraightEnds ==
    ASSUME CrashInv, KeptInv, SoundInv, ~ Astray, ReplayEnd
    PROVE  good = tip.height /\ cum = tip.weight /\ tip' = tip
<1> DEFINE h == good + 1
           b == tip.hash
<1>1. /\ pc = "replay" /\ (good < tip.height => ~ Replays(h))
      /\ tip' = [tip EXCEPT !.weight = cum]
    BY DEF ReplayEnd
<1>2. StraightInv /\ Straight(tip)
    BY <1>1 DEF SoundInv, StraightInv
<1>3. /\ b \in Block /\ tip.height = Depth(b) /\ tip.weight = Weight[b]
      /\ tip.height \in Nat /\ tip.height >= 1
      /\ \A k \in 1..tip.height : n[k] = Chain[b][k] /\ n[k] \in Block
      /\ n[tip.height] = b
    BY <1>2, StraightFacts
<1>4. good \in Nat /\ good <= tip.height
    BY <1>1 DEF CrashInv, ReplayInv
<1>5. ASSUME good < tip.height PROVE FALSE
  <2>1. h \in 1..Depth(b) /\ h - 1 = good /\ n[h] = Chain[b][h]
    BY <1>3, <1>4, <1>5
  <2>2. PrevHash(n[h]) = HashAt(h - 1)
    <3>1. PrevHash(n[h]) = IF h = 1 THEN NoBlock ELSE Chain[b][h - 1]
      BY <1>3, <2>1, ChainLinks
    <3>2. h = 1 <=> h - 1 = 0
      BY <1>4
    <3>3. h # 1 => h - 1 \in 1..tip.height
      BY <1>4, <1>5
    <3> QED
      BY <1>3, <3>1, <3>2, <3>3 DEF HashAt
  <2>3. checkpoint_ok(h, n[h]) /\ n[h] \notin Bad
    BY <1>2, <2>1 DEF Straight, Valid, Agree, checkpoint_ok
  <2> QED
    BY <1>1, <1>5, <2>2, <2>3 DEF Replays
<1>6. good = tip.height
    BY <1>3, <1>4, <1>5
<1>7. cum = tip.weight
  <2>1. good # 0
    BY <1>3, <1>6
  <2> QED
    BY <1>1, <1>3, <1>6, <2>1 DEF SoundInv, RowsInv
<1>8. tip' = tip
    BY <1>1, <1>7 DEF CrashInv, TipInv
<1> QED
    BY <1>6, <1>7, <1>8

LEMMA ReplayEndSound ==
    ASSUME CrashInv, KeptInv, SoundInv, ReplayEnd, Observe
    PROVE  SoundInv' /\ served' = served
<1>1. /\ pc = "replay" /\ pc' \in {"rollback", "persist"}
      /\ pc' = IF good < tip.height THEN "rollback" ELSE "persist"
      /\ caller' = caller /\ reorg' = reorg /\ good' = good
      /\ UNCHANGED <<row, n, cp, pins, served, offered>>
    BY DEF ReplayEnd, Observe, disk, locals
<1>2. (Trying' <=> Trying) /\ (Restoring' <=> Restoring) /\ (Restored' <=> Restored)
    BY <1>1 DEF Trying, Restoring, Restored
<1>3. StraightInv /\ RowsInv /\ good \in Nat /\ tip.height \in Nat /\ good <= tip.height
    BY <1>1, TipFacts DEF SoundInv, CrashInv, ReplayInv
<1>4. ~ Astray => /\ tip' = tip /\ Holds(tip.hash, tip.height)'
                  /\ Valid(tip.hash)' /\ pc' # "rollback"
  <2> SUFFICES ASSUME ~ Astray
               PROVE  /\ tip' = tip /\ Holds(tip.hash, tip.height)'
                      /\ Valid(tip.hash)' /\ pc' # "rollback"
    OBVIOUS
  <2>1. good = tip.height /\ tip' = tip
    BY StraightEnds
  <2>2. pc' # "rollback"
    BY <1>1, <1>3, <2>1
  <2>3. Holds(tip.hash, tip.height) /\ Valid(tip.hash)
    BY <1>1, <1>3 DEF StraightInv, Straight
  <2> QED
    BY <1>1, <2>1, <2>2, <2>3 DEF Holds, Valid, Agree
<1>5. Reorging /\ Failing => Valid(served.hash)'
    BY <1>1 DEF SoundInv, EndInv, Valid, Agree
<1>6. /\ StraightInv' /\ (Reorging' => AsideInv' /\ EndInv')
      /\ (Reorging' <=> Reorging) /\ (Astray' <=> Astray)
    BY <1>1, <1>2, <1>4, <1>5, Carry
<1>7. Stale = {}
  <2> SUFFICES ASSUME NEW b \in Stale PROVE FALSE
    OBVIOUS
  <2>1. Restored /\ b \in Blocks(reorg.old) /\ Depth(b) > good
    BY <1>1 DEF Stale
  <2>2. AsideInv /\ tip = served /\ ~ Astray
    BY <1>1, <1>3, <2>1
       DEF SoundInv, Reorging, StraightInv, Astray, Restored, Restoring, Trying
  <2>3. PICK i \in DOMAIN reorg.old : b = reorg.old[i]
    BY <2>1 DEF Blocks
  <2>4. reorg.fork + i \in 1..served.height /\ Depth(b) = reorg.fork + i
    BY <1>1, <1>3, <2>2, <2>3, OldFacts
  <2>5. good = tip.height
    BY <2>2, StraightEnds
  <2> QED
    BY <1>3, <2>1, <2>2, <2>4, <2>5
<1>8. RowsInv'
    BY <1>1, <1>3, <1>7 DEF RowsInv
<1>9. Trying' /\ Astray' => TrialInv'
  <2> SUFFICES ASSUME Trying, Astray PROVE TrialInv'
    BY <1>2, <1>6
  <2>1. Failing
    BY DEF Astray, Restoring, Trying
  <2>2. good # tip.height /\ tip.height = reorg.fork + Len(reorg.branch) /\ TrialInv
    BY <1>1, <2>1, TrialStops
  <2>3. good < tip.height /\ pc' = "rollback"
    BY <1>1, <1>3, <2>2
  <2> QED
    BY <1>1, <2>2, <2>3 DEF TrialInv
<1> QED
    BY <1>1, <1>6, <1>8, <1>9 DEF SoundInv

\* The block a failing branch is rolled back to is lower than its top.
LEMMA RollbackSound ==
    ASSUME CrashInv, RootInv, KeptInv, SoundInv, Rollback, Observe
    PROVE  SoundInv' /\ served' = served
<1>1. /\ pc = "rollback" /\ pc' = "persist" /\ caller' = caller /\ reorg' = reorg
      /\ tip' = [tip EXCEPT !.hash = HashAt(good), !.height = good]
      /\ UNCHANGED <<row, n, cp, pins, served, offered>>
    BY DEF Rollback, Observe, locals
<1>2. (Trying' <=> Trying) /\ (Restoring' <=> Restoring) /\ (Restored' <=> Restored)
    BY <1>1 DEF Trying, Restoring, Restored
<1>3. Astray /\ Trying /\ Failing
    BY <1>1 DEF SoundInv, StraightInv, Astray, Restoring
<1>4. AsideInv /\ EndInv /\ TrialInv /\ RowsInv
    BY <1>3 DEF SoundInv, Reorging
<1>5. Reorging /\ Failing => Valid(served.hash)'
    BY <1>1 DEF SoundInv, EndInv, Valid, Agree
<1>6. /\ StraightInv' /\ (Reorging' => AsideInv' /\ EndInv')
      /\ (Reorging' <=> Reorging) /\ (Astray' <=> Astray)
    BY <1>1, <1>2, <1>3, <1>5, Carry
<1>7. RowsInv'
  <2>1. Stale = {}
    BY <1>1, <1>3 DEF Stale, Restored, Trying
  <2> QED
    BY <1>1, <1>4, <2>1 DEF RowsInv
<1>8. HashAt(good) # Top(reorg.branch)
  <2>1. /\ good \in Nat /\ good >= 1 /\ good <= t_tip.height /\ t_tip.height \in Nat
        /\ good < reorg.fork + Len(reorg.branch)
    BY <1>1, <1>4, TipFacts DEF RootInv, TrialInv
  <2>2. good \in 1..t_tip.height
    BY <2>1
  <2>3. n[good] \in DOMAIN row /\ row[n[good]].height = good
    BY <1>1, <2>2 DEF KeptInv, Sized, Present
  <2>4. Depth(n[good]) = good /\ HashAt(good) = n[good]
    BY <1>4, <2>1, <2>3 DEF RowsInv, HashAt
  <2>5. Depth(Top(reorg.branch)) = reorg.fork + Len(reorg.branch)
    BY <1>4, BranchFacts
  <2> QED
    BY <2>1, <2>4, <2>5
<1>9. tip'.hash = HashAt(good)
  <2>1. tip = [hash |-> tip.hash, height |-> tip.height,
               stamp |-> tip.stamp, weight |-> tip.weight]
    BY DEF CrashInv, TipInv
  <2> QED
    BY <1>1, <2>1
<1>10. TrialInv'
    BY <1>1, <1>8, <1>9 DEF TrialInv, Top
<1> QED
    BY <1>1, <1>6, <1>7, <1>10 DEF SoundInv

LEMMA OverrideAgrees ==
    ASSUME NEW p, NEW q, NEW b, Agree(p, b), Agree(q, b)
    PROVE  Agree(Override(p, q), b)
<1>1. /\ DOMAIN Override(p, q) = DOMAIN p \cup DOMAIN q
      /\ \A h \in DOMAIN p \cup DOMAIN q :
            Override(p, q)[h] = IF h \in DOMAIN q THEN q[h] ELSE p[h]
    BY DEF Override
<1> QED
    BY <1>1 DEF Agree

LEMMA PersistSound ==
    ASSUME SoundInv, Persist, Observe
    PROVE  SoundInv' /\ served' = served
<1>1. /\ pc = "persist" /\ pc' = "disarm" /\ caller' = caller /\ reorg' = reorg
      /\ pins' = Override(pins, cp)
      /\ UNCHANGED <<row, n, tip, cp, served, offered>>
    BY DEF Persist, Observe, locals
<1>2. (Trying' <=> Trying) /\ (Restoring' <=> Restoring) /\ (Restored' <=> Restored)
    BY <1>1 DEF Trying, Restoring, Restored
<1>3. ASSUME NEW b, Valid(b)
      PROVE  /\ \A h \in 1..Depth(b) : Chain[b][h] \notin Bad
             /\ Agree(pins', b) /\ Agree(cp', b)
    BY <1>1, <1>3, OverrideAgrees DEF Valid
<1>4. ~ Astray => /\ tip' = tip /\ Holds(tip.hash, tip.height)'
                  /\ Valid(tip.hash)' /\ pc' # "rollback"
  <2> SUFFICES ASSUME ~ Astray
               PROVE  Holds(tip.hash, tip.height)' /\ Valid(tip.hash)'
    BY <1>1
  <2>1. Holds(tip.hash, tip.height) /\ Valid(tip.hash)
    BY <1>1 DEF SoundInv, StraightInv, Straight
  <2>2. Holds(tip.hash, tip.height)'
    BY <1>1, <2>1 DEF Holds
  <2>3. Valid(tip.hash)'
    BY <1>1, <1>3, <2>1 DEF Valid
  <2> QED
    BY <2>2, <2>3
<1>5. Reorging /\ Failing => Valid(served.hash)'
  <2> SUFFICES ASSUME Reorging, Failing PROVE Valid(served.hash)'
    OBVIOUS
  <2>1. Valid(served.hash)
    BY DEF SoundInv, EndInv
  <2> QED
    BY <1>1, <1>3, <2>1 DEF Valid
<1>6. (\A h \in DOMAIN cp : h \in DOMAIN pins /\ pins[h] = cp[h])'
    BY <1>1 DEF Override
<1>7. /\ StraightInv' /\ (Reorging' => AsideInv' /\ EndInv')
      /\ (Reorging' <=> Reorging) /\ (Astray' <=> Astray)
    BY <1>1, <1>2, <1>4, <1>5, <1>6, Carry
<1>8. RowsInv'
    BY <1>1 DEF SoundInv, RowsInv, Stale
<1>9. Trying' /\ Astray' => TrialInv'
    BY <1>1, <1>2, <1>7 DEF SoundInv, TrialInv, Top
<1> QED
    BY <1>1, <1>7, <1>8, <1>9 DEF SoundInv

\* An operation ends with a tip that is straight.
LEMMA Settle ==
    ASSUME SoundInv, ~ Astray, pc \in {"judge", "disarm"}, pc' = "idle", Observe,
           UNCHANGED <<row, n, cp, tip, pins>>
    PROVE  SoundInv' /\ (served' = served \/ tip_is_better(served', served))
<1>1. served' = tip /\ offered' = offered
    BY DEF Observe
<1>2. StraightInv /\ RowsInv /\ Straight(tip)
    BY DEF SoundInv, StraightInv
<1>3. Straight(tip)'
    BY <1>1, <1>2 DEF Straight, Holds, Valid, Agree
<1>4. ~ Astray' /\ ~ Reorging' /\ ~ Trying' /\ ~ Restored'
    BY DEF Astray, Reorging, Trying, Restoring, Restored
<1>5. StraightInv'
  <2>1. tip.hash \in offered /\ tip = WholeTip(tip.hash)
    BY <1>2 DEF StraightInv, Straight
  <2> QED
    BY <1>1, <1>2, <1>3, <1>4, <2>1 DEF StraightInv
<1>6. RowsInv'
    BY <1>2 DEF RowsInv, Stale
<1> QED
    BY <1>1, <1>2, <1>4, <1>5, <1>6 DEF SoundInv, Straight

LEMMA DisarmSound ==
    ASSUME SoundInv, Disarm, Observe
    PROVE  SoundInv' /\ (served' = served \/ tip_is_better(served', served))
<1>1. /\ pc = "disarm" /\ pc' = Return /\ caller' = caller /\ reorg' = reorg
      /\ UNCHANGED <<row, n, tip, cp, pins>>
    BY DEF Disarm, memory, locals
<1>2. CASE caller = "adopt"
  <2>1. pc' = "judge" /\ UNCHANGED <<served, offered>>
    BY <1>1, <1>2 DEF Return, Observe
  <2>2. (Trying' <=> Trying) /\ (Restoring' <=> Restoring) /\ (Restored' <=> Restored)
    BY <1>1, <1>2, <2>1 DEF Trying, Restoring, Restored
  <2>3. /\ StraightInv' /\ (Reorging' => AsideInv' /\ EndInv')
        /\ (Reorging' <=> Reorging) /\ (Astray' <=> Astray)
    BY <1>1, <2>1, <2>2, CarrySame
  <2>4. RowsInv'
    BY <1>1, <2>1 DEF SoundInv, RowsInv, Stale
  <2>5. Trying' /\ Astray' => TrialInv'
    BY <1>1, <2>1, <2>2, <2>3 DEF SoundInv, TrialInv, Top
  <2> QED
    BY <2>1, <2>3, <2>4, <2>5 DEF SoundInv
<1>3. CASE caller # "adopt"
  <2>1. pc' = "idle"
    BY <1>1, <1>3 DEF Return
  <2>2. ~ Astray
    BY <1>1, <1>3 DEF Astray, Trying, Restoring
  <2> QED
    BY <1>1, <2>1, <2>2, Settle
<1> QED
    BY <1>2, <1>3

\* Only a branch that does not fail is adopted.
LEMMA AdoptedSound ==
    ASSUME SoundInv, Adopted, Observe
    PROVE  SoundInv' /\ (served' = served \/ tip_is_better(served', served))
<1>1. /\ pc = "judge" /\ pc' = "idle" /\ tip.hash = Top(reorg.branch)
      /\ UNCHANGED <<row, n, tip, cp, pins>>
    BY DEF Adopted, FullBranch, disk, memory
<1>2. ~ Astray
    BY <1>1 DEF SoundInv, TrialInv, Trying
<1> QED
    BY <1>1, <1>2, Settle

\* Only a failing branch is given up.
LEMMA AbortSound ==
    ASSUME SoundInv, Abort, Observe
    PROVE  SoundInv' /\ served' = served
<1>1. /\ pc = "judge" /\ pc' = "drop" /\ tip.hash # Top(reorg.branch)
      /\ reorg' = [reorg EXCEPT !.whole = Blocks(reorg.old) \subseteq DOMAIN row]
      /\ UNCHANGED <<row, n, tip, cp, pins, served, offered>>
    BY DEF Abort, FullBranch, memory, Observe
<1>2. Trying /\ AsideInv /\ EndInv /\ StraightInv /\ RowsInv
    BY <1>1 DEF Trying, Reorging, SoundInv
<1>3. Failing
    BY <1>1, <1>2 DEF EndInv
<1>4. AsideInv' /\ (Failing' <=> Failing)
    BY <1>1, <1>2, SameAside
<1>5. Astray' /\ ~ Trying' /\ ~ Restored'
    BY <1>1 DEF Astray, Restoring, Trying, Restored
<1>6. EndInv'
    BY <1>1, <1>2, <1>3, <1>4 DEF EndInv, Valid, Agree
<1>7. StraightInv'
    BY <1>1, <1>2, <1>5 DEF StraightInv
<1>8. RowsInv'
    BY <1>1, <1>2 DEF RowsInv, Stale, Restored
<1> QED
    BY <1>1, <1>4, <1>5, <1>6, <1>7, <1>8 DEF SoundInv

LEMMA DropSound ==
    ASSUME SoundInv, DropBranch, Observe
    PROVE  SoundInv' /\ served' = served
<1>1. /\ pc = "drop" /\ pc' = "clear_n" /\ reorg' = reorg
      /\ row' = Without(row, Blocks(reorg.branch))
      /\ UNCHANGED <<n, tip, cp, pins, served, offered>>
    BY DEF DropBranch, memory, locals, Observe
<1>2. (Trying' <=> Trying) /\ (Restoring' <=> Restoring) /\ (Restored' <=> Restored)
    BY <1>1 DEF Trying, Restoring, Restored
<1>3. /\ StraightInv' /\ (Reorging' => AsideInv' /\ EndInv')
    BY <1>1, <1>2, CarrySame
<1>4. RowsInv'
  <2>1. DOMAIN row' \subseteq DOMAIN row /\ \A b \in DOMAIN row' : row'[b] = row[b]
    BY <1>1 DEF Without
  <2>2. Stale = {} /\ Stale' = {}
    BY <1>1 DEF Stale, Restored
  <2> QED
    BY <1>1, <2>1, <2>2 DEF SoundInv, RowsInv
<1>5. ~ Trying'
    BY <1>1 DEF Trying
<1> QED
    BY <1>1, <1>3, <1>4, <1>5 DEF SoundInv

LEMMA ClearNSound ==
    ASSUME CrashInv, KeptInv, SoundInv, ClearN, Observe
    PROVE  SoundInv' /\ served' = served
<1>1. /\ pc = "clear_n" /\ pc' = "write_old" /\ reorg' = reorg
      /\ UNCHANGED <<row, tip, cp, pins, served, offered>>
  <2>1. pc = "clear_n" /\ reorg.whole
    BY DEF ClearN, KeptInv, ForkInv, Restoring
  <2> QED
    BY <2>1 DEF ClearN, memory, locals, Observe
<1>2. (Trying' <=> Trying) /\ (Restoring' <=> Restoring) /\ (Restored' <=> Restored)
    BY <1>1 DEF Trying, Restoring, Restored
<1>3. \A h \in 1..reorg.fork : h \in DOMAIN n => h \in DOMAIN n' /\ n'[h] = n[h]
  <2>1. PICK top : n' = Without(n, (reorg.fork + 1)..top)
    BY DEF ClearN
  <2>2. reorg.fork \in Nat
    BY <1>1, Underway
  <2> QED
    BY <2>1, <2>2 DEF Without
<1>4. Astray /\ ~ Trying'
    BY <1>1 DEF Astray, Restoring, Trying
<1>5. Reorging /\ Failing => Valid(served.hash)'
    BY <1>1 DEF SoundInv, EndInv, Valid, Agree
<1>6. /\ StraightInv' /\ (Reorging' => AsideInv' /\ EndInv')
    BY <1>1, <1>2, <1>3, <1>4, <1>5, Carry
<1>7. RowsInv'
    BY <1>1 DEF SoundInv, RowsInv, Stale, Restored
<1> QED
    BY <1>1, <1>4, <1>6, <1>7 DEF SoundInv

LEMMA TrimSound ==
    ASSUME CrashInv, KeptInv, SoundInv, Trim, Observe
    PROVE  SoundInv' /\ served' = served
<1>1. /\ pc = "trim" /\ pc' = "arm" /\ caller' = "adopt" /\ reorg' = reorg
      /\ n' = Without(n, (tip.height + 1)..reorg.old_tip.height)
      /\ UNCHANGED <<row, tip, cp, pins, served, offered>>
    BY DEF Trim, memory, Observe
<1>2. (Trying' <=> Trying) /\ (Restoring' <=> Restoring) /\ (Restored' <=> Restored)
    BY <1>1 DEF Trying, Restoring, Restored
<1>3. tip.height \in Nat /\ reorg.fork \in Nat /\ reorg.fork <= tip.height
    BY <1>1, TipFacts, Underway DEF KeptInv, ForkInv
<1>4. \A h \in 1..tip.height : h \in DOMAIN n => h \in DOMAIN n' /\ n'[h] = n[h]
    BY <1>1, <1>3 DEF Without
<1>5. \A h \in 1..reorg.fork : h \in DOMAIN n => h \in DOMAIN n' /\ n'[h] = n[h]
    BY <1>3, <1>4
<1>6. ~ Astray => /\ tip' = tip /\ Holds(tip.hash, tip.height)'
                  /\ Valid(tip.hash)' /\ pc' # "rollback"
  <2> SUFFICES ASSUME ~ Astray
               PROVE  Holds(tip.hash, tip.height)' /\ Valid(tip.hash)'
    BY <1>1
  <2>1. Holds(tip.hash, tip.height) /\ Valid(tip.hash)
    BY <1>1 DEF SoundInv, StraightInv, Straight
  <2>2. Holds(tip.hash, tip.height)'
    BY <1>1, <1>4, <2>1 DEF Holds
  <2> QED
    BY <1>1, <2>1, <2>2 DEF Valid, Agree
<1>7. Reorging /\ Failing => Valid(served.hash)'
    BY <1>1 DEF SoundInv, EndInv, Valid, Agree
<1>8. /\ StraightInv' /\ (Reorging' => AsideInv' /\ EndInv')
      /\ (Reorging' <=> Reorging) /\ (Astray' <=> Astray)
    BY <1>1, <1>2, <1>5, <1>6, <1>7, Carry
<1>9. RowsInv'
    BY <1>1 DEF SoundInv, RowsInv, Stale, Restored
<1>10. Trying' /\ Astray' => TrialInv'
  <2> SUFFICES ASSUME Trying, Astray PROVE TrialInv'
    BY <1>2, <1>8
  <2>1. TrialInv /\ AsideInv
    BY DEF SoundInv, Reorging
  <2>2. /\ tip.hash = Top(reorg.branch)
        /\ tip.height = reorg.fork + Len(reorg.branch)
        /\ \A i \in DOMAIN reorg.branch :
              reorg.fork + i \in DOMAIN n /\ n[reorg.fork + i] = reorg.branch[i]
    BY <1>1, <2>1 DEF TrialInv
  <2>3. \A i \in DOMAIN reorg.branch : reorg.fork + i \in 1..tip.height
    BY <1>3, <2>1, <2>2, BranchFacts
  <2> QED
    BY <1>1, <1>4, <2>2, <2>3 DEF TrialInv, Top
<1> QED
    BY <1>1, <1>8, <1>9, <1>10 DEF SoundInv

\* The weights that the batch of write_branch gives to its rows.
LEMMA WrittenWeights ==
    ASSUME NEW k \in Nat, NEW blocks, DOMAIN blocks = 1..k,
           \A i, j \in DOMAIN blocks : blocks[i] = blocks[j] => i = j,
           NEW top, write_branch(blocks, top), NEW i \in 1..k
    PROVE  row'[blocks[i]].weight = reorg.base + BranchPlays(blocks)[i]
<1> DEFINE at(b) == CHOOSE j \in DOMAIN blocks : blocks[j] = b
           weight(b) == reorg.base + BranchPlays(blocks)[at(b)]
           placed == [b \in Blocks(blocks) |->
                        [height |-> reorg.fork + at(b), weight |-> weight(b)]]
<1>1. row' = Override(row, placed)
    BY DEF write_branch
<1>2. blocks[i] \in Blocks(blocks) /\ DOMAIN placed = Blocks(blocks)
    BY DEF Blocks
<1>3. at(blocks[i]) = i
    OBVIOUS
<1>4. placed[blocks[i]] = [height |-> reorg.fork + at(blocks[i]),
                           weight |-> weight(blocks[i])]
    BY <1>2
<1>5. row'[blocks[i]] = placed[blocks[i]]
  <2> HIDE DEF placed
  <2> QED
    BY <1>1, <1>2 DEF Override
<1>6. weight(blocks[i]) = reorg.base + BranchPlays(blocks)[i]
    BY <1>3
<1> HIDE DEF placed, at, weight
<1> QED
    BY <1>4, <1>5, <1>6

LEMMA WriteOldSound ==
    ASSUME CrashInv, KeptInv, SoundInv, WriteOld, Observe
    PROVE  SoundInv' /\ served' = served
<1> DEFINE b == served.hash
           old == reorg.old
           f == reorg.fork
<1>1. /\ pc = "write_old" /\ pc' = "arm" /\ caller' = "restore" /\ reorg' = reorg
      /\ write_branch(old, reorg.old_tip)
      /\ UNCHANGED <<cp, pins, served, offered>>
    BY DEF WriteOld, Observe
<1>2. Restoring /\ ~ Trying /\ AsideInv /\ EndInv /\ StraightInv /\ RowsInv
    BY <1>1 DEF Restoring, Trying, Reorging, SoundInv
<1>3. Failing /\ Valid(b)
    BY <1>2 DEF EndInv
<1>4. tip' = served
    BY <1>1, <1>2 DEF write_branch, AsideInv
<1>5. /\ f \in Nat /\ f \in 1..served.height /\ served.height \in Nat
      /\ DOMAIN old = 1..(served.height - f)
      /\ \A i \in DOMAIN old : old[i] = Chain[b][f + i] /\ Depth(old[i]) = f + i
    BY <1>1, <1>2, ServedFacts, OldFacts, Underway DEF AsideInv
<1>6. /\ \A i, j \in DOMAIN old : old[i] = old[j] => i = j
      /\ IndexInv
    BY <1>1 DEF KeptInv, ForkInv, CrashInv
<1> DEFINE k == served.height - f
<1>7. k \in Nat /\ DOMAIN old = 1..k
    BY <1>5
<1> HIDE DEF old, f, k
<1>8. /\ \A i \in 1..k : f + i \in DOMAIN n' /\ n'[f + i] = old[i]
      /\ \A h \in 0..f : h \in DOMAIN n' => n'[h] = n[h]
    BY <1>1, <1>5, <1>6, <1>7, Written DEF f
<1>9. /\ DOMAIN n \subseteq DOMAIN n'
      /\ DOMAIN row' = DOMAIN row \cup Blocks(old)
      /\ \A x \in DOMAIN row \ Blocks(old) : row'[x] = row[x]
      /\ \A i \in 1..k : row'[old[i]].height = f + i
  <2>1. reorg.fork \in Nat /\ write_branch(old, reorg.old_tip)
    BY <1>1, <1>5 DEF f
  <2>2. \A i, j \in DOMAIN old : old[i] = old[j] => i = j
    BY <1>6
  <2> QED
    BY <1>7, <2>1, <2>2, WrittenRows DEF f
<1>10. \A h \in 1..f : h \in DOMAIN n => h \in DOMAIN n' /\ n'[h] = n[h]
  <2>1. \A h \in 1..f : h \in 0..f
    BY <1>5
  <2> QED
    BY <1>8, <1>9, <2>1
<1>11. Holds(b, served.height)'
  <2> SUFFICES ASSUME NEW h \in 1..served.height
               PROVE  h \in DOMAIN n' /\ n'[h] = Chain[b][h]
    BY <1>1 DEF Holds
  <2>1. CASE h <= f
    <3>1. h \in 1..f
      BY <2>1, <1>5
    <3>2. h \in DOMAIN n /\ n[h] = Chain[b][h]
      BY <1>2, <3>1 DEF AsideInv, Holds, f
    <3> QED
      BY <1>10, <3>1, <3>2
  <2>2. CASE ~ (h <= f)
    <3>1. h - f \in 1..k /\ f + (h - f) = h
      BY <1>5, <2>2 DEF k
    <3>2. n'[h] = old[h - f] /\ h \in DOMAIN n'
      BY <1>8, <3>1
    <3>3. old[h - f] = Chain[b][h]
      BY <1>5, <1>7, <3>1
    <3> QED
      BY <3>2, <3>3
  <2> QED
    BY <2>1, <2>2
<1>12. Straight(tip)'
  <2>1. served.hash \in offered /\ served = WholeTip(served.hash)
    BY <1>2 DEF StraightInv
  <2>2. Valid(served.hash)'
    BY <1>1, <1>3 DEF Valid, Agree
  <2> QED
    BY <1>1, <1>4, <1>11, <2>1, <2>2 DEF Straight
<1>13. AsideInv' /\ (Failing' <=> Failing)
    BY <1>1, <1>2, <1>10, SameAside DEF f
<1>14. EndInv'
    BY <1>1, <1>3, <1>13 DEF EndInv, Valid, Agree
<1>15. ~ Astray' /\ ~ Trying' /\ ~ Restoring' /\ Restored'
    BY <1>1 DEF Astray, Restoring, Trying, Restored
<1>16. StraightInv'
    BY <1>1, <1>2, <1>4, <1>12, <1>15 DEF StraightInv
<1>17. RowsInv'
  <2>1. Stale = {} /\ Stale' = Blocks(old)
    BY <1>1, <1>15 DEF Stale, Restored, old
  <2>2. ASSUME NEW x \in DOMAIN row'
        PROVE  /\ row'[x].height = Depth(x)
               /\ x \notin Stale' => row'[x].weight = Weight[x]
    <3>1. CASE x \in Blocks(old)
      <4>1. PICK i \in DOMAIN old : x = old[i]
        BY <3>1 DEF Blocks
      <4> QED
        BY <1>5, <1>7, <1>9, <2>1, <3>1, <4>1
    <3>2. CASE x \notin Blocks(old)
      BY <1>2, <1>9, <2>1, <3>2 DEF RowsInv
    <3> QED
      BY <3>1, <3>2
  <2> QED
    BY <1>1, <2>2 DEF RowsInv
<1> QED
    BY <1>1, <1>13, <1>14, <1>15, <1>16, <1>17 DEF SoundInv

LEMMA WriteBranchSound ==
    ASSUME CrashInv, KeptInv, SoundInv, WriteBranch, Observe
    PROVE  SoundInv' /\ served' = served
<1> DEFINE s == reorg.branch
           top == Top(reorg.branch)
           f == reorg.fork
           k == Len(s)
<1>1. /\ pc = "write_branch" /\ pc' = "trim" /\ caller' = caller /\ reorg' = reorg
      /\ write_branch(s, TipAt(top, f + k, reorg.base + BranchPlays(s)[k]))
      /\ UNCHANGED <<cp, pins, served, offered>>
    BY DEF WriteBranch, Observe, locals
<1>2. Trying /\ AsideInv /\ EndInv /\ StraightInv /\ RowsInv
    BY <1>1 DEF Trying, Reorging, SoundInv
<1>3. /\ k \in Nat /\ k >= 1 /\ DOMAIN s = 1..k /\ f \in Nat /\ f >= 1
      /\ top \in Block /\ Depth(top) = f + k
      /\ Weight[top] = reorg.base + BranchPlays(s)[k]
      /\ \A i \in 1..k : /\ s[i] \in Block /\ Depth(s[i]) = f + i
                         /\ Weight[s[i]] = reorg.base + BranchPlays(s)[i]
                         /\ Chain[top][f + i] = s[i]
    BY <1>2, BranchFacts
<1>4. tip' = WholeTip(top) /\ tip'.hash = top /\ tip'.height = f + k
  <2>1. tip' = TipAt(top, f + k, reorg.base + BranchPlays(s)[k])
    BY <1>1 DEF write_branch
  <2>2. tip' = WholeTip(top)
    BY <1>3, <2>1 DEF WholeTip
  <2> QED
    BY <1>3, <2>2, WholeTipFacts
<1>5. /\ \A i, j \in DOMAIN s : s[i] = s[j] => i = j
      /\ IndexInv
    BY <1>1 DEF KeptInv, ForkInv, CrashInv
<1> HIDE DEF s, f, k, top
<1>6. /\ \A i \in 1..k : f + i \in DOMAIN n' /\ n'[f + i] = s[i]
      /\ \A h \in 0..f : h \in DOMAIN n' => n'[h] = n[h]
    BY <1>1, <1>3, <1>5, Written DEF f
<1>7. /\ DOMAIN n \subseteq DOMAIN n'
      /\ DOMAIN row' = DOMAIN row \cup Blocks(s)
      /\ \A x \in DOMAIN row \ Blocks(s) : row'[x] = row[x]
      /\ \A i \in 1..k : /\ row'[s[i]].height = f + i
                         /\ row'[s[i]].weight = reorg.base + BranchPlays(s)[i]
  <2> DEFINE at == TipAt(top, f + k, reorg.base + BranchPlays(s)[k])
  <2>1. reorg.fork \in Nat /\ write_branch(s, at)
    BY <1>1, <1>3 DEF f
  <2>2. \A i, j \in DOMAIN s : s[i] = s[j] => i = j
    BY <1>5
  <2>3. k \in Nat /\ DOMAIN s = 1..k
    BY <1>3
  <2> HIDE DEF at
  <2>4. /\ DOMAIN n \subseteq DOMAIN n'
        /\ DOMAIN row' = DOMAIN row \cup Blocks(s)
        /\ \A x \in DOMAIN row \ Blocks(s) : row'[x] = row[x]
        /\ \A i \in 1..k : row'[s[i]].height = f + i
    BY <2>1, <2>2, <2>3, WrittenRows DEF f
  <2>5. ASSUME NEW i \in 1..k
        PROVE  row'[s[i]].weight = reorg.base + BranchPlays(s)[i]
    BY <2>1, <2>2, <2>3, WrittenWeights
  <2> QED
    BY <2>4, <2>5
<1>8. \A h \in 1..f : h \in DOMAIN n => h \in DOMAIN n' /\ n'[h] = n[h]
  <2>1. \A h \in 1..f : h \in 0..f
    BY <1>3
  <2> QED
    BY <1>6, <1>7, <2>1
<1>9. AsideInv' /\ (Failing' <=> Failing)
    BY <1>1, <1>2, <1>8, SameAside DEF f
<1>10. Trying' /\ ~ Restoring' /\ ~ Restored' /\ (Astray' <=> Failing)
    BY <1>1, <1>9 DEF Astray, Restoring, Trying, Restored
<1>11. EndInv'
  <2>1. CASE Failing
    BY <1>1, <1>2, <1>9, <2>1 DEF EndInv, Valid, Agree
  <2>2. CASE ~ Failing
    BY <1>1, <1>4, <1>9, <1>10, <2>2 DEF EndInv, top
  <2> QED
    BY <2>1, <2>2
<1>12. ASSUME ~ Failing PROVE Straight(tip)'
  <2>1. Holds(top, f + k)'
    <3> SUFFICES ASSUME NEW h \in 1..(f + k)
                 PROVE  h \in DOMAIN n' /\ n'[h] = Chain[top][h]
      BY <1>1 DEF Holds, top, f, k, s
    <3>1. CASE h <= f
      <4>1. h \in 1..f
        BY <1>3, <3>1
      <4>2. h \in DOMAIN n /\ n[h] = Chain[served.hash][h]
        BY <1>2, <4>1 DEF AsideInv, Holds, f
      <4>3. Chain[top][h] = Chain[served.hash][h]
        BY <1>2, <1>12, <4>1, JoinFacts DEF top, f
      <4> QED
        BY <1>8, <4>1, <4>2, <4>3
    <3>2. CASE ~ (h <= f)
      <4>1. h - f \in 1..k /\ f + (h - f) = h
        BY <1>3, <3>2
      <4> QED
        BY <1>3, <1>6, <4>1
    <3> QED
      BY <3>1, <3>2
  <2>2. Valid(top)
    BY <1>1, <1>2, <1>12 DEF EndInv, top
  <2>3. Valid(top)'
    BY <1>1, <2>2 DEF Valid, Agree, top
  <2>4. top \in offered /\ tip_is_better(WholeTip(top), served)
    BY <1>2 DEF AsideInv, top
  <2>5. Holds(tip.hash, tip.height)'
    BY <1>1, <1>4, <2>1 DEF top, f, k, s
  <2>6. Valid(tip.hash)'
    BY <1>1, <1>4, <2>3 DEF top
  <2> QED
    BY <1>1, <1>4, <2>4, <2>5, <2>6 DEF Straight
<1>13. StraightInv'
    BY <1>1, <1>2, <1>10, <1>12 DEF StraightInv
<1>14. RowsInv'
  <2>1. Stale = {} /\ Stale' = {}
    BY <1>1 DEF Stale, Restored
  <2>2. ASSUME NEW x \in DOMAIN row'
        PROVE  /\ row'[x].height = Depth(x)
               /\ row'[x].weight = Weight[x]
    <3>1. CASE x \in Blocks(s)
      <4>1. PICK i \in DOMAIN s : x = s[i]
        BY <3>1 DEF Blocks
      <4> QED
        BY <1>3, <1>7, <4>1
    <3>2. CASE x \notin Blocks(s)
      BY <1>2, <1>7, <2>1, <3>2 DEF RowsInv
    <3> QED
      BY <3>1, <3>2
  <2> QED
    BY <1>1, <2>2 DEF RowsInv
<1>15. TrialInv'
    BY <1>1, <1>3, <1>4, <1>6 DEF TrialInv, s, f, k, top
<1> QED
    BY <1>1, <1>9, <1>11, <1>13, <1>14, <1>15 DEF SoundInv

\* What Crash counts as hurt is a crash of a reorg that fails.
LEMMA FailingDoomed ==
    ASSUME SoundInv, Reorging, Failing
    PROVE  Doomed
<1>1. AsideInv /\ pc # "idle"
    BY DEF SoundInv, Reorging, Trying, Restoring, Restored
<1>2. reorg.fork \in 1..served.height /\ Holds(served.hash, reorg.fork) /\ StraightInv
    BY <1>1 DEF AsideInv, SoundInv
<1>3. reorg.fork \in 1..reorg.fork /\ reorg.fork # 0
    BY <1>2, ServedFacts
<1>4. reorg # NoReorg
    BY <1>3 DEF NoReorg
<1>5. n[reorg.fork] = Chain[served.hash][reorg.fork]
    BY <1>2, <1>3 DEF Holds
<1> QED
    BY <1>1, <1>4, <1>5 DEF Failing, Doomed

\* A crash elsewhere leaves the tip on disk.
LEMMA CrashSound ==
    ASSUME CrashInv, SoundInv, Crash, Observe, ~ hurt'
    PROVE  SoundInv' /\ served' = served
<1>1. /\ pc # "down" /\ pc' = "down" /\ caller' = "init" /\ pins' = <<>>
      /\ UNCHANGED <<row, n, t_tip, cp, served, offered>>
    BY DEF Crash, disk, Observe
<1>2. ~ (Reorging /\ Failing)
    BY <1>1, FailingDoomed DEF Observe
<1>3. ~ Astray /\ ~ Restored
  <2>1. CASE Reorging
    BY <1>2, <2>1 DEF SoundInv, EndInv, Trying, Restoring, Restored, Astray
  <2>2. CASE ~ Reorging
    BY <2>2 DEF Reorging, Astray
  <2> QED
    BY <2>1, <2>2
<1>4. StraightInv /\ RowsInv /\ Straight(tip)
    BY <1>1, <1>3 DEF SoundInv, StraightInv
<1>5. /\ t_tip.hash = tip.hash /\ t_tip.height = tip.height
    BY <1>1, TipFacts
<1>6. /\ tip.hash \in Block /\ tip.height = Depth(tip.hash)
      /\ tip = WholeTip(tip.hash)
    BY <1>4, StraightFacts DEF Straight
<1>7. Straight(WholeTip(t_tip.hash))'
  <2>1. Valid(tip.hash)
    BY <1>4 DEF Straight
  <2>2. DOMAIN pins' = {}
    BY <1>1
  <2>3. /\ \A h \in 1..Depth(tip.hash) : Chain[tip.hash][h] \notin Bad
        /\ Agree(pins', tip.hash) /\ Agree(cp', tip.hash)
    BY <1>1, <2>1, <2>2 DEF Valid, Agree
  <2>4. /\ tip.hash \in offered /\ Holds(tip.hash, tip.height)
        /\ (tip = served \/ tip_is_better(tip, served))
    BY <1>4 DEF Straight
  <2>5. Straight(WholeTip(tip.hash))
    BY <1>4, <1>6
  <2> DEFINE b == tip.hash
             t == WholeTip(b)
  <2>6. WholeTip(t_tip.hash)' = t
    BY <1>1, <1>5 DEF WholeTip
  <2>7. t.hash = b /\ t.height = Depth(b) /\ tip = t
    BY <1>6, WholeTipFacts
  <2> HIDE DEF b, t
  <2>8. \A h \in 1..t.height : h \in DOMAIN n' /\ n'[h] = Chain[b][h]
    BY <1>1, <2>4, <2>7 DEF Holds, b
  <2> QED
    BY <1>1, <1>5, <1>6, <2>3, <2>4, <2>6, <2>7, <2>8 DEF Straight, Holds, Valid, b
<1>8. ~ Reorging' /\ ~ Trying' /\ ~ Restored'
    BY <1>1 DEF Reorging, Trying, Restoring, Restored
<1>9. StraightInv'
    BY <1>1, <1>4, <1>5, <1>6, <1>7, <1>8 DEF StraightInv
<1>10. RowsInv'
    BY <1>1, <1>3, <1>4 DEF RowsInv, Stale
<1> QED
    BY <1>1, <1>8, <1>9, <1>10 DEF SoundInv

\* A restart reads that tip back.
LEMMA BootSound ==
    ASSUME CrashInv, RootInv, KeptInv, SoundInv, Boot, Observe
    PROVE  SoundInv' /\ (served' = served \/ tip_is_better(served', served))
<1> DEFINE b == t_tip.hash
<1>1. /\ pc = "down" /\ pc' \in {"arm", "idle"} /\ caller' = "init"
      /\ pins' = cp /\ tip' = load_tip /\ offered' = offered
      /\ served' = (IF pc' = "idle" THEN tip' ELSE served)
      /\ UNCHANGED <<row, n, t_tip, cp>>
    BY DEF Boot, disk, locals, Observe, RootInv
<1>2. StraightInv /\ RowsInv /\ Stale = {}
    BY <1>1 DEF SoundInv, Stale, Restored
<1>3. t_tip.height = Depth(b) /\ Straight(WholeTip(b))
    BY <1>1, <1>2 DEF StraightInv
<1>4. b \in DOMAIN row /\ b \in Block
  <2>1. t_tip.height \in 1..t_tip.height
    BY TipFacts DEF RootInv
  <2>2. t_tip.height \in DOMAIN n /\ n[t_tip.height] \in DOMAIN row
    BY <1>1, <2>1 DEF KeptInv, Sized, Present
  <2>3. n[t_tip.height] = b
    BY <2>2 DEF CrashInv, IndexInv, Indexed
  <2> QED
    BY <2>2, <2>3 DEF RootInv
<1>5. tip' = WholeTip(b)
    BY <1>1, <1>2, <1>3, <1>4 DEF load_tip, RowsInv, WholeTip
<1> DEFINE t == WholeTip(b)
<1>6. t.hash = b /\ t.height = Depth(b)
    BY WholeTipFacts
<1> HIDE DEF t, b
<1>7. /\ b \in offered /\ Holds(b, t.height) /\ Valid(b)
      /\ (t = served \/ tip_is_better(t, served))
    BY <1>3, <1>6 DEF Straight, t
<1>8. Straight(tip)'
  <2>1. Valid(tip.hash)'
    BY <1>1, <1>5, <1>6, <1>7 DEF Valid, Agree, t
  <2>2. Holds(tip.hash, tip.height)'
    BY <1>1, <1>5, <1>6, <1>7 DEF Holds, t
  <2>3. tip' = WholeTip(tip'.hash)
    BY <1>5, <1>6 DEF t
  <2>4. tip' = served' \/ tip_is_better(tip', served')
    BY <1>1, <1>5, <1>7 DEF t
  <2> QED
    BY <1>1, <1>5, <1>6, <1>7, <2>1, <2>2, <2>3, <2>4 DEF Straight, t
<1>9. ~ Reorging' /\ ~ Trying' /\ ~ Restored'
    BY <1>1 DEF Reorging, Trying, Restoring, Restored
<1>10. StraightInv'
  <2>1. served'.hash \in offered' /\ served' = WholeTip(served'.hash)
    BY <1>1, <1>2, <1>5, <1>6, <1>7 DEF StraightInv, t
  <2>2. pc' # "rollback" /\ (pc' \in {"idle", "write_branch"} => tip' = served')
    BY <1>1
  <2>3. offered' \subseteq Block
    BY <1>1, <1>2 DEF StraightInv
  <2> QED
    BY <1>1, <1>8, <1>9, <2>1, <2>2, <2>3 DEF StraightInv
<1>11. RowsInv'
    BY <1>1, <1>2, <1>9 DEF RowsInv, Stale
<1> QED
    BY <1>1, <1>5, <1>7, <1>9, <1>10, <1>11 DEF SoundInv, t

\* A connected block is a better tip, on a chain that stays valid.
LEMMA ConnectSound ==
    ASSUME PinsHonest, CrashInv, SoundInv, NEW b \in Block, connect_block(b), Observe
    PROVE  SoundInv' /\ (served' = served \/ tip_is_better(served', served))
<1> DEFINE a == tip.hash
           h == tip.height + 1
<1>1. /\ pc = "idle" /\ pc' = "idle" /\ PrevHash(b) = a
      /\ checkpoint_ok(h, b) /\ b \notin Bad
      /\ tip' = TipAt(b, h, tip.weight + Plays[b])
      /\ row' = Put(row, b, [height |-> h, weight |-> tip.weight + Plays[b]])
      /\ n' = Put(n, h, b)
      /\ apply_checkpoint(b)
      /\ pins' = (IF b \in DOMAIN Pin THEN Put(pins, Pin[b].height, Pin[b].hash)
                  ELSE pins)
      /\ served' = tip' /\ offered' = offered \cup {tip'.hash}
    BY DEF connect_block, Observe, TipAt
<1>2. StraightInv /\ RowsInv /\ Straight(tip) /\ tip = served
    BY <1>1 DEF SoundInv, StraightInv, Astray, Trying, Restoring
<1>3. /\ a \in Block /\ tip.height = Depth(a) /\ tip.weight = Weight[a]
      /\ tip.height \in Nat /\ tip.height >= 1 /\ tip.weight \in Nat
      /\ \A k \in 1..tip.height : k \in DOMAIN n /\ n[k] = Chain[a][k]
    BY <1>2, StraightFacts, ChainFacts
<1>4. b # Genesis
    BY <1>1, <1>3, ChainStoreAssumption DEF PrevHash
<1>5. /\ Depth(b) = h /\ Weight[b] = tip.weight + Plays[b] /\ Plays[b] \in Nat
      /\ \A k \in 1..tip.height : Chain[b][k] = Chain[a][k]
      /\ Chain[b][h] = b /\ h \in Nat
  <2>1. Parent[b] = a
    BY <1>1, <1>4 DEF PrevHash
  <2>2. Plays[b] \in Nat
    BY ChainStoreAssumption
  <2> HIDE DEF a
  <2> QED
    BY <1>3, <1>4, <2>1, <2>2, ChainFacts
<1>6. tip' = WholeTip(b) /\ tip'.hash = b /\ tip'.height = h /\ Depth(b) \in 1..Depth(b)
  <2>1. tip' = WholeTip(b)
    BY <1>1, <1>5 DEF WholeTip
  <2>2. h >= 1
    BY <1>3
  <2> QED
    BY <1>5, <2>1, <2>2, WholeTipFacts
<1> HIDE DEF h, a
<1>7. /\ \A k \in 1..h : k \in 1..tip.height \/ k = h
      /\ \A k \in 1..tip.height : k # h
    BY <1>3 DEF h
<1>8. \A k \in 1..h : k \in DOMAIN n' /\ n'[k] = Chain[b][k]
  <2>1. \A k \in 1..tip.height : k \in DOMAIN n' /\ n'[k] = n[k]
    BY <1>1, <1>3, <1>7 DEF Put
  <2>2. h \in DOMAIN n' /\ n'[h] = b
    BY <1>1 DEF Put
  <2> QED
    BY <1>3, <1>5, <1>7, <2>1, <2>2
<1>9. ASSUME NEW p, Agree(p, a), h \in DOMAIN p => p[h] = b
      PROVE  Agree(p, b)
    BY <1>3, <1>5, <1>7, <1>9 DEF Agree
<1>10. Agree(pins, b) /\ Agree(cp, b)
  <2>1. Agree(pins, a) /\ Agree(cp, a)
    BY <1>2 DEF Straight, Valid, a
  <2>2. h \in DOMAIN pins => pins[h] = b
    BY <1>1 DEF checkpoint_ok
  <2>3. h \in DOMAIN cp => cp[h] = b
    BY <1>1, <1>2, <2>2 DEF StraightInv
  <2> QED
    BY <1>9, <2>1, <2>2, <2>3
<1>11. Agree(pins', b) /\ Agree(cp', b)
  <2>1. Agree(pins', b)
    BY <1>1, <1>5, <1>6, <1>10, PinKeeps
  <2>2. Agree(cp', b)
    BY <1>1, <1>5, <1>6, <1>10, PinKeeps DEF apply_checkpoint
  <2> QED
    BY <2>1, <2>2
<1>12. \A k \in 1..h : Chain[b][k] \notin Bad
    BY <1>1, <1>2, <1>3, <1>5, <1>7 DEF Straight, Valid, a
<1>13. tip_is_better(tip', served)
  <2>1. /\ tip'.weight = tip.weight + Plays[b] /\ tip'.height = tip.height + 1
    BY <1>1 DEF TipAt, h
  <2> DEFINE w == tip.weight
             v == tip'.weight
             x == tip.height
             y == tip'.height
  <2>2. v = w + Plays[b] /\ y = x + 1 /\ w \in Nat /\ x \in Nat /\ Plays[b] \in Nat
    BY <1>3, <1>5, <2>1
  <2> HIDE DEF w, v, x, y
  <2>3. v > w \/ (v = w /\ y > x)
    BY <2>2
  <2>4. tip_is_better(tip', tip)
    BY <2>3, Zenon DEF tip_is_better, w, v, x, y
  <2> QED
    BY <1>2, <2>4
<1>14. Straight(tip)'
  <2>1. Holds(tip.hash, tip.height)'
    BY <1>6, <1>8 DEF Holds
  <2>2. Valid(tip.hash)'
    BY <1>5, <1>6, <1>11, <1>12 DEF Valid, Agree
  <2> QED
    BY <1>1, <1>6, <2>1, <2>2 DEF Straight
<1>15. \A k \in DOMAIN cp' : k \in DOMAIN pins' /\ pins'[k] = cp'[k]
  <2>1. \A k \in DOMAIN cp : k \in DOMAIN pins /\ pins[k] = cp[k]
    BY <1>1, <1>2 DEF StraightInv
  <2> QED
    BY <1>1, <2>1 DEF apply_checkpoint, Put
<1>16. ~ Reorging' /\ ~ Trying' /\ ~ Restored' /\ ~ Astray'
    BY <1>1 DEF Reorging, Trying, Restoring, Restored, Astray
<1>17. StraightInv'
  <2>1. offered' \subseteq Block
    BY <1>1, <1>2, <1>6 DEF StraightInv
  <2> QED
    BY <1>1, <1>6, <1>14, <1>15, <1>16, <2>1 DEF StraightInv
<1>18. RowsInv'
  <2>1. Stale = {}
    BY <1>1 DEF Stale, Restored
  <2>2. /\ DOMAIN row' = DOMAIN row \cup {b}
        /\ row'[b].height = h /\ row'[b].weight = tip.weight + Plays[b]
        /\ \A x \in DOMAIN row \ {b} : row'[x] = row[x]
    BY <1>1 DEF Put
  <2> QED
    BY <1>1, <1>2, <1>5, <2>1, <2>2 DEF RowsInv
<1> QED
    BY <1>1, <1>13, <1>16, <1>17, <1>18 DEF SoundInv

\* A branch that passes the checks.
LEMMA ReorgSound ==
    ASSUME CrashInv, RootInv, SoundInv, NEW s \in Branch, reorg_to_branch(s), Observe,
           ~ hurt'
    PROVE  SoundInv' /\ served' = served
<1> DEFINE p == PrevHash(s[1])
           f == row[p].height
           w == row[p].weight
           b == tip.hash
           top == Top(s)
<1>1. /\ pc = "idle" /\ pc' = "write_branch" /\ Assembled(s)
      /\ \A i \in DOMAIN s : checkpoint_ok(f + i, s[i])
      /\ tip_is_better(TipAt(top, f + Len(s), w + BranchPlays(s)[Len(s)]), tip)
      /\ reorg' = [fork |-> f, base |-> w, branch |-> s, old |-> Snapshot(f),
                   old_tip |-> tip, whole |-> FALSE]
      /\ UNCHANGED <<row, n, t_tip, cp, tip, pins, served>>
    BY DEF reorg_to_branch, Better, Observe, memory
<1>2. /\ reorg'.fork = f /\ reorg'.base = w /\ reorg'.branch = s
      /\ reorg'.old = Snapshot(f) /\ reorg'.old_tip = tip
    BY <1>1
<1>3. offered' = offered \cup {top}
    BY <1>1, <1>2 DEF Observe
<1>4. ~ (f > tip.height)
    BY <1>1, <1>2 DEF Observe, OverGap
<1>5. StraightInv /\ RowsInv /\ Straight(tip) /\ tip = served
    BY <1>1 DEF SoundInv, StraightInv, Astray, Trying, Restoring
<1>6. /\ b \in Block /\ tip.height = Depth(b) /\ tip.height \in Nat /\ Valid(b)
      /\ \A h \in 1..tip.height : h \in DOMAIN n /\ n[h] = Chain[b][h]
    BY <1>5, StraightFacts DEF Straight
<1>7. /\ s \in Seq(Block \ {Genesis}) /\ s # <<>> /\ p \in DOMAIN row /\ p \in Block
      /\ \A i \in 2..Len(s) : PrevHash(s[i]) = s[i - 1]
    BY <1>1, ChainStoreAssumption DEF Assembled, RootInv
<1>8. f = Depth(p) /\ w = Weight[p]
  <2>1. p \notin Stale
    BY <1>1 DEF Stale, Restored
  <2> QED
    BY <1>5, <1>7, <2>1 DEF RowsInv
<1>9. f \in Nat /\ f >= 1 /\ f \in 1..tip.height /\ Chain[p][f] = p
  <2>1. f \in Nat /\ f >= 1 /\ Chain[p][f] = p
    BY <1>7, <1>8, ChainFacts
  <2> HIDE DEF f
  <2> QED
    BY <1>4, <1>6, <2>1
<1>10. Len(s) \in Nat /\ Len(s) >= 1 /\ DOMAIN s = 1..Len(s) /\ Len(s) \in 1..Len(s)
    BY <1>7
<1>11. PrevHash(s[1]) = p
    OBVIOUS
<1> HIDE DEF p, f, w
<1>12. \A i \in 1..Len(s) :
          /\ s[i] \in Block /\ Depth(s[i]) = f + i
          /\ Weight[s[i]] = w + BranchPlays(s)[i]
          /\ \A h \in 1..f : Chain[s[i]][h] = Chain[p][h]
          /\ \A j \in 1..i : Chain[s[i]][f + j] = s[j]
    BY <1>7, <1>8, <1>11, RunFacts
<1>13. /\ top \in Block /\ Depth(top) = f + Len(s)
       /\ Weight[top] = w + BranchPlays(s)[Len(s)]
       /\ \A h \in 1..f : Chain[top][h] = Chain[p][h]
       /\ \A j \in 1..Len(s) : Chain[top][f + j] = s[j]
    BY <1>10, <1>12 DEF Top
<1> HIDE DEF top
<1>14. tip_is_better(WholeTip(top), served)
    BY <1>1, <1>5, <1>13 DEF WholeTip
<1>15. ASSUME NEW i \in DOMAIN Snapshot(f) PROVE Snapshot(f)[i] = Chain[b][f + i]
  <2>1. DOMAIN Snapshot(f) = 1..Larger(tip.height - f, 0)
        /\ Snapshot(f)[i] = n[f + i]
    BY DEF Snapshot
  <2>2. i \in 1..(tip.height - f)
    BY <1>6, <1>9, <2>1 DEF Larger
  <2>3. f + i \in 1..tip.height
    BY <1>6, <1>9, <2>2
  <2> QED
    BY <1>6, <2>1, <2>3
<1>16. Holds(b, f)
    BY <1>6, <1>9 DEF Holds
<1>17. AsideInv'
  <2>1. reorg'.fork \in 1..served'.height
    BY <1>1, <1>2, <1>5, <1>9
  <2>2. Holds(served.hash, reorg.fork)'
    BY <1>1, <1>2, <1>5, <1>16 DEF Holds
  <2>3. \A i \in DOMAIN reorg'.old :
           reorg'.old[i] = Chain[served'.hash][reorg'.fork + i]
    BY <1>1, <1>2, <1>5, <1>15
  <2>4. Top(reorg'.branch) = top /\ PrevHash(reorg'.branch[1]) = p
    BY <1>2, <1>11 DEF top
  <2>5. tip_is_better(WholeTip(Top(reorg'.branch)), served')
    BY <1>1, <1>14, <2>4
  <2> QED
    BY <1>1, <1>2, <1>3, <1>5, <1>7, <1>8, <2>1, <2>2, <2>3, <2>4, <2>5 DEF AsideInv
<1>18. Trying' /\ ~ Restoring' /\ ~ Restored' /\ ~ Astray'
    BY <1>1 DEF Trying, Restoring, Restored, Astray
<1>19. ASSUME ~ Failing' PROVE Valid(top)
  <2>1. Chain[b][f] = p /\ Blocks(s) \cap Bad = {}
    BY <1>1, <1>2, <1>5, <1>11, <1>19 DEF Failing
  <2>2. \A h \in 1..f : Chain[top][h] = Chain[b][h] /\ h \in 1..Depth(b)
    <3> HIDE DEF b
    <3>1. f \in 1..Depth(b) /\ b \in Block
      BY <1>6, <1>9
    <3>2. \A h \in 1..f : Chain[p][h] = Chain[b][h]
      BY <2>1, <3>1, LowerChain
    <3>3. \A h \in 1..f : h \in 1..Depth(b)
      BY <1>6, <1>9
    <3> QED
      BY <1>13, <3>2, <3>3
  <2>3. ASSUME NEW h \in 1..(f + Len(s)), h \notin 1..f
        PROVE  h - f \in 1..Len(s) /\ f + (h - f) = h
    BY <1>9, <1>10, <2>3
  <2>4. ASSUME NEW h \in 1..(f + Len(s))
        PROVE  /\ Chain[top][h] \notin Bad
               /\ h \in DOMAIN pins => pins[h] = Chain[top][h]
               /\ h \in DOMAIN cp => cp[h] = Chain[top][h]
    <3>1. CASE h \in 1..f
      BY <1>6, <2>2, <3>1 DEF Valid, Agree
    <3>2. CASE h \notin 1..f
      <4> DEFINE i == h - f
      <4>1. i \in 1..Len(s) /\ f + i = h
        BY <2>3, <3>2
      <4>2. Chain[top][h] = s[i] /\ s[i] \in Blocks(s)
        BY <1>10, <1>13, <4>1 DEF Blocks
      <4> HIDE DEF i
      <4>3. h \in DOMAIN pins => pins[h] = s[i]
        BY <1>1, <1>10, <4>1 DEF checkpoint_ok
      <4>4. h \in DOMAIN cp => cp[h] = s[i]
        BY <1>1, <1>5, <4>3 DEF StraightInv
      <4> QED
        BY <2>1, <4>2, <4>3, <4>4
    <3> QED
      BY <3>1, <3>2
  <2>5. DOMAIN pins \subseteq Nat \ {0} /\ DOMAIN cp \subseteq Nat \ {0}
    BY <1>6 DEF Valid, Agree
  <2> QED
    BY <1>13, <2>4, <2>5 DEF Valid, Agree
<1>20. EndInv'
  <2>1. CASE Failing'
    BY <1>1, <1>5, <1>6, <2>1 DEF EndInv, Valid, Agree
  <2>2. CASE ~ Failing'
    <3>1. Valid(Top(reorg.branch))'
      BY <1>1, <1>2, <1>19, <2>2 DEF Valid, Agree, top
    <3> QED
      BY <1>1, <1>18, <2>2, <3>1 DEF EndInv
  <2> QED
    BY <2>1, <2>2
<1>21. Straight(tip)'
  <2>1. Holds(tip.hash, tip.height)' /\ Valid(tip.hash)'
    BY <1>1, <1>5 DEF Straight, Holds, Valid, Agree
  <2> QED
    BY <1>1, <1>3, <1>5, <2>1 DEF Straight
<1>22. StraightInv'
  <2>1. offered' \subseteq Block
    BY <1>3, <1>5, <1>13 DEF StraightInv
  <2> QED
    BY <1>1, <1>3, <1>5, <1>18, <1>21, <2>1 DEF StraightInv
<1>23. RowsInv'
    BY <1>1, <1>5, <1>18 DEF RowsInv, Stale, Restored
<1> QED
    BY <1>1, <1>17, <1>18, <1>20, <1>22, <1>23 DEF SoundInv

LEMMA ReorgInit == Init /\ PinsHonest => ReorgInv
<1> SUFFICES ASSUME Init, PinsHonest PROVE ReorgInv
    OBVIOUS
<1>1. /\ DOMAIN row = {Genesis} /\ row[Genesis].height = 1
      /\ row[Genesis].weight = Plays[Genesis]
      /\ n[1] = Genesis /\ DOMAIN n = {1} /\ pc = "idle" /\ ~ hurt /\ ~ lost
      /\ tip = TipAt(Genesis, 1, Plays[Genesis]) /\ served = tip
      /\ offered = {Genesis} /\ DOMAIN cp = {} /\ DOMAIN pins = {}
    BY DEF Init
<1>2. Genesis \in Block /\ Genesis \notin Bad
    BY ChainStoreAssumption
<1>3. Depth(Genesis) = 1 /\ Weight[Genesis] = Plays[Genesis] /\ Chain[Genesis][1] = Genesis
    BY <1>2, ChainFacts
<1>4. tip = WholeTip(Genesis) /\ tip.hash = Genesis /\ tip.height = 1
    BY <1>1, <1>3 DEF WholeTip, TipAt
<1>5. \A h \in 1..1 : h = 1
    OBVIOUS
<1>6. Straight(tip)
    BY <1>1, <1>2, <1>3, <1>4, <1>5 DEF Straight, Holds, Valid, Agree
<1>7. ~ Reorging /\ ~ Trying /\ ~ Restored
    BY <1>1 DEF Reorging, Trying, Restoring, Restored
<1>8. StraightInv
    BY <1>1, <1>2, <1>4, <1>6, <1>7 DEF StraightInv
<1>9. RowsInv
    BY <1>1, <1>3 DEF RowsInv
<1> QED
    BY <1>1, <1>7, <1>8, <1>9 DEF ReorgInv, SoundInv

\* Every step of the rebuild.
LEMMA RebuildSound ==
    ASSUME PinsHonest, CrashInv, RootInv, KeptInv, SoundInv, Rebuild, Observe
    PROVE  SoundInv' /\ (served' = served \/ tip_is_better(served', served))
BY ArmSound, ClearSound, ReplayBlockSound, NeverMissing, ReplayEndSound,
   RollbackSound, PersistSound, DisarmSound DEF Rebuild

LEMMA SoundStep ==
    ASSUME PinsHonest, CrashInv, RootInv, KeptInv, SoundInv, Next, ~ hurt'
    PROVE  SoundInv' /\ (served' = served \/ tip_is_better(served', served))
<1>1. Step /\ Observe
    BY DEF Next
<1>2. CASE \E b \in Block : connect_block(b)
    BY <1>1, <1>2, ConnectSound
<1>3. CASE \E s \in Branch : reorg_to_branch(s)
    BY <1>1, <1>3, ReorgSound
<1>4. CASE Rebuild
    BY <1>1, <1>4, RebuildSound
<1>5. CASE WriteBranch \/ Trim
    BY <1>1, <1>5, WriteBranchSound, TrimSound
<1>6. CASE Adopted
    BY <1>1, <1>6, AdoptedSound
<1>7. CASE Abort \/ DropBranch \/ ClearN \/ WriteOld
    BY <1>1, <1>7, AbortSound, DropSound, ClearNSound, WriteOldSound
<1>8. CASE Crash
    BY <1>1, <1>8, CrashSound
<1>9. CASE Boot
    BY <1>1, <1>9, BootSound
<1> QED
    BY <1>1, <1>2, <1>3, <1>4, <1>5, <1>6, <1>7, <1>8, <1>9 DEF Step

LEMMA ReorgStep ==
    ASSUME PinsHonest, CrashInv, ServeInv, ReorgInv, [Next]_vars
    PROVE  /\ ReorgInv'
           /\ ~ hurt' => served' = served \/ tip_is_better(served', served)
<1>1. CASE Next
  <2>1. hurt => hurt'
    BY <1>1 DEF Next, Observe
  <2>2. ASSUME ~ hurt'
        PROVE  SoundInv' /\ (served' = served \/ tip_is_better(served', served))
    <3>1. ~ hurt /\ SoundInv /\ RootInv /\ KeptInv
        BY <2>1, <2>2 DEF ReorgInv, ServeInv
    <3> QED
        BY <1>1, <2>2, <3>1, SoundStep
  <2>3. ASSUME lost' PROVE hurt'
    <3>1. CASE lost
        BY <2>1, <3>1 DEF ReorgInv
    <3>2. CASE pc' = "down" /\ Stripped
      <4>1. CASE hurt
        BY <2>1, <4>1
      <4>2. CASE ~ hurt
        <5>1. SoundInv /\ Reorging /\ ~ Trying
          <6>1. pc \in {"clear_n", "write_old"} /\ SoundInv
            BY <3>2, <4>2 DEF ReorgInv, Stripped
          <6> QED
            BY <6>1 DEF Reorging, Restoring, Trying
        <5>2. Failing
          BY <5>1 DEF SoundInv, EndInv
        <5>3. Doomed
          BY <5>1, <5>2, FailingDoomed
        <5>4. hurt' = (hurt \/ (pc' = "down" /\ Doomed) \/ OverGap)
          BY <1>1 DEF Next, Observe
        <5> QED
          BY <3>2, <5>3, <5>4, Zenon
      <4> QED
        BY <4>1, <4>2
    <3>3. CASE OverGap
        BY <1>1, <3>3 DEF Next, Observe
    <3> QED
        BY <1>1, <2>3, <3>1, <3>2, <3>3 DEF Next, Observe
  <2> QED
    BY <2>2, <2>3 DEF ReorgInv
<1>2. CASE UNCHANGED vars
  <2>1. UNCHANGED <<row, n, t_tip, cp, tip, pins, pc, caller, good, cum, reorg,
                    served, offered, hurt, lost>>
    BY <1>2 DEF vars, disk, memory, locals, history
  <2>2. /\ (Trying' <=> Trying) /\ (Restoring' <=> Restoring)
        /\ (Restored' <=> Restored) /\ (Failing' <=> Failing)
    BY <2>1 DEF Trying, Restoring, Restored, Failing
  <2>3. (Reorging' <=> Reorging) /\ (Astray' <=> Astray) /\ Stale' = Stale
    BY <2>1, <2>2 DEF Reorging, Astray, Stale
  <2>4. RowsInv => RowsInv'
    BY <2>1, <2>3 DEF RowsInv
  <2>5. \A b : /\ Valid(b) => /\ \A h \in 1..Depth(b) : Chain[b][h] \notin Bad
                              /\ Agree(pins', b) /\ Agree(cp', b)
    BY <2>1 DEF Valid
  <2>6. StraightInv => StraightInv'
    <3>1. \A t : Straight(t) =>
             /\ t.hash \in offered' /\ t = WholeTip(t.hash)
             /\ \A h \in 1..t.height : h \in DOMAIN n' /\ n'[h] = Chain[t.hash][h]
             /\ \A h \in 1..Depth(t.hash) : Chain[t.hash][h] \notin Bad
             /\ Agree(pins', t.hash) /\ Agree(cp', t.hash)
             /\ (t = served' \/ tip_is_better(t, served'))
      BY <2>1, <2>5 DEF Straight, Holds
    <3>2. Straight(tip) => Straight(tip)'
      BY <2>1, <3>1 DEF Straight, Holds, Valid
    <3>3. Straight(WholeTip(t_tip.hash)) => Straight(WholeTip(t_tip.hash))'
      <4> DEFINE t == WholeTip(t_tip.hash)
      <4>1. t' = t
        BY <2>1 DEF WholeTip
      <4> HIDE DEF t
      <4>2. Straight(t) => Straight(t)'
        BY <2>1, <3>1, <4>1 DEF Straight, Holds, Valid
      <4> QED
        BY <4>2 DEF t
    <3> QED
      BY <2>1, <2>2, <2>3, <3>2, <3>3 DEF StraightInv
  <2>7. (AsideInv => AsideInv') /\ (EndInv => EndInv') /\ (TrialInv => TrialInv')
    BY <2>1, <2>2 DEF AsideInv, EndInv, TrialInv, Holds, Valid, Agree, Top
  <2>8. SoundInv => SoundInv'
    BY <2>2, <2>3, <2>4, <2>6, <2>7 DEF SoundInv
  <2> QED
    BY <2>1, <2>8 DEF ReorgInv
<1> QED
    BY <1>1, <1>2

\* Honest checkpoints leave the genesis block alone.
LEMMA HonestGenesis == PinsHonest => PinsKeepGenesis
<1> SUFFICES ASSUME PinsHonest, NEW b \in DOMAIN Pin, Pin[b].height = 1
             PROVE  Pin[b].hash = Genesis
    BY DEF PinsKeepGenesis
<1>1. b \in Block /\ Pin[b].hash = Chain[b][1]
    BY ChainStoreAssumption DEF PinsHonest
<1> QED
    BY <1>1, ChainLinks

\* With the checkpoints of PinsHonest, until a crash hurts: rows, index, pins and what a reorg put aside are those of
\* the chain served before, of its successor, or of a branch that fails for sure.
THEOREM ReorgInvariant == PinsHonest /\ Spec => []ReorgInv
<1> SUFFICES ASSUME PinsHonest PROVE Spec => []ReorgInv
    OBVIOUS
<1>1. Init => ReorgInv
    BY ReorgInit
<1>2. CrashInv /\ ServeInv /\ ReorgInv /\ [Next]_vars => ReorgInv'
    BY ReorgStep
<1>3. Spec => []ServeInv
    BY HonestGenesis, ServeInvariant
<1> QED
    BY <1>1, <1>2, <1>3, CrashInvariant, PTL DEF Spec

\* If no branch that fails carries a checkpoint (PinsHonest), a reorg that is given
\* up leaves exactly the tip it started from, its weight, height and timestamp
\* included (reorg_to_branch: "restored previous chain"). A checkpoint that a branch
\* on trial pins stays pinned, and may cut the chain that is being restored: that
\* case is outside the theorem, and there the restore is not exact.
THEOREM AbortsRestoreExactly == PinsHonest /\ Spec => []RestoredExactly
<1>1. ReorgInv => RestoredExactly
  <2> SUFFICES ASSUME SoundInv, pc = "disarm", caller = "restore"
               PROVE  tip = reorg.old_tip
    BY DEF ReorgInv, RestoredExactly
  <2>1. Restored /\ Reorging
    BY DEF Restored, Reorging
  <2>2. ~ Astray
    BY DEF Astray, Restoring, Trying
  <2> QED
    BY <2>1, <2>2 DEF SoundInv, StraightInv, AsideInv
<1> QED
    BY <1>1, ReorgInvariant, PTL

\* With the checkpoints of PinsHonest, a tip is always one that was offered: what remains of a branch cut short by a
\* block that fails is never the chain (reorg_to_branch).
THEOREM OnlyWholeBranchesAdopted == PinsHonest /\ Spec => []WholeBranchesOnly
<1>1. ReorgInv => WholeBranchesOnly
  <2> SUFFICES ASSUME SoundInv, pc = "idle" PROVE tip.hash \in offered
    BY DEF ReorgInv, WholeBranchesOnly
  <2>1. ~ Astray
    BY DEF Astray, Restoring, Trying
  <2> QED
    BY <2>1 DEF SoundInv, StraightInv, Straight
<1> QED
    BY <1>1, ReorgInvariant, PTL

\* With the checkpoints of PinsHonest, every height that one of them pins and the
\* chain has reached holds the pinned block (checkpoint_ok in connect_block, reorg_to_branch and the replay).
THEOREM PinsStayMatched == PinsHonest /\ Spec => []PinnedHeightsMatch
<1>1. ReorgInv => PinnedHeightsMatch
  <2> SUFFICES ASSUME SoundInv, pc = "idle", NEW h \in DOMAIN pins, h <= tip.height
               PROVE  n[h] = pins[h]
    BY DEF ReorgInv, PinnedHeightsMatch
  <2>1. StraightInv /\ Straight(tip)
    BY DEF SoundInv, StraightInv, Astray, Restoring, Trying
  <2>2. /\ tip.height = Depth(tip.hash) /\ tip.height \in Nat
        /\ \A k \in 1..tip.height : n[k] = Chain[tip.hash][k]
    BY <2>1, StraightFacts
  <2>3. Agree(pins, tip.hash)
    BY <2>1 DEF Straight, Valid
  <2>4. h \in 1..Depth(tip.hash)
    BY <2>2, <2>3 DEF Agree
  <2> QED
    BY <2>2, <2>3, <2>4 DEF Agree
<1> QED
    BY <1>1, ReorgInvariant, PTL

\* With the checkpoints of PinsHonest, the tip after an operation, a failed reorg or
\* a restart is the one before it or better by tip_is_better (reorg_to_branch).
THEOREM ForkChoiceNeverBack == PinsHonest /\ Spec => ForkChoiceMonotone
<1> SUFFICES ASSUME PinsHonest PROVE Spec => ForkChoiceMonotone
    OBVIOUS
<1>1. CrashInv /\ ServeInv /\ ReorgInv /\ [Next]_vars =>
         [~ hurt' /\ served' # served => tip_is_better(served', served)]_vars
    BY ReorgStep
<1>2. Spec => []ServeInv
    BY HonestGenesis, ServeInvariant
<1>3. Spec => []ReorgInv
    BY ReorgInvariant
<1> QED
    BY <1>1, <1>2, <1>3, CrashInvariant, PTL DEF Spec, ForkChoiceMonotone
=============================================================================
