------------------------------ MODULE MeshProofs ------------------------------
(***************************************************************************)
(* What the nodes of the mesh know of each other: which blocks they took   *)
(* over, for every block tree and number of nodes and however messages are *)
(* lost, late and reordered; what a mini node says it relayed, for every   *)
(* number of deliveries, frames and sessions; and which wallets are        *)
(* present, for every set of wallets and devices, every skew, TTL and reap *)
(* window, and however requests are delayed, repeated and reordered.  The  *)
(* three share no state.                                                   *)
(*                                                                         *)
(* ChainComplete needs of the types that what is pending is a block        *)
(* (GossipInv), and of the tree that heights, weights and chains obey the  *)
(* equations that define them.  Those are recursive functions; that they   *)
(* exist is proved from the order of the block numbers (Recursion).        *)
(*                                                                         *)
(* WitnessHonest is not inductive: proof.cosign trusts g_delivery_done,    *)
(* which nothing in WitnessHonest speaks of.  WitnessInv adds that no row  *)
(* remembers more than went on, and that no more went on than came in.     *)
(*                                                                         *)
(* DepartedFallsOut is not inductive: the node only sees the time a hello  *)
(* claims.  FreshOnes ties that time to the last signature of the wallet,  *)
(* BoundByRecent ties the node's own last_verified_ms to it through the    *)
(* skew check.                                                             *)
(***************************************************************************)
EXTENDS Propagator, RelayWitness, Presence, WellFoundedInduction, TLAPS

-----------------------------------------------------------------------------
(* Propagator: block trees *)

\* What is no zero hash.
ProperBlock == Block \ {Zero}

\* A set of blocks has a first one.
LEMMA FirstBlock ==
    ASSUME NEW S \in SUBSET Block, S # {}
    PROVE  \E b \in S : \A c \in S : ~(c < b)
<1>1. S \in SUBSET Nat
  BY PropagatorAssumption
<1>2. PICK b \in S : \A c \in S : ~(<<c, b>> \in OpToRel(<, Nat))
  BY <1>1, NatLessThanWellFounded, WFMin
<1> QED BY <1>1, <1>2 DEF OpToRel

\* What holds of the zero hash, and of a block once it holds of its parent,
\* holds of every block.  P lists the blocks it holds of.
LEMMA AlongParents ==
    ASSUME NEW P, Zero \in P, \A b \in ProperBlock : Parent[b] \in P => b \in P
    PROVE  Block \subseteq P
<1>1. SUFFICES ASSUME Block \ P # {} PROVE FALSE
  OBVIOUS
<1>2. PICK b \in Block \ P : \A c \in Block \ P : ~(c < b)
  BY <1>1, FirstBlock
<1>3. b \in ProperBlock /\ Parent[b] \in Block /\ Parent[b] < b
  BY <1>2, PropagatorAssumption DEF ProperBlock
<1> QED BY <1>2, <1>3

\* A recursion along parents has a solution.
LEMMA Recursion ==
    ASSUME NEW V, NEW v0 \in V, NEW g \in [ProperBlock -> [V -> V]]
    PROVE  \E f \in [Block -> V] :
              f[Zero] = v0 /\ \A b \in ProperBlock : f[b] = g[b][f[Parent[b]]]
<1> DEFINE Closed(r) == /\ v0 \in r[Zero]
                        /\ \A b \in ProperBlock : \A v \in r[Parent[b]] : g[b][v] \in r[b]
           C == {r \in [Block -> SUBSET V] : Closed(r)}
           R == [b \in Block |-> {v \in V : \A r \in C : v \in r[b]}]
           P == {b \in Block : \E v \in V : R[b] = {v}}
<1>0. /\ Zero \in Block /\ \A b \in ProperBlock : b \in Block /\ b # Zero /\ Parent[b] \in Block
      /\ \A b \in ProperBlock : \A v \in V : g[b][v] \in V
  BY PropagatorAssumption DEF ProperBlock
<1>1. R \in [Block -> SUBSET V] /\ Closed(R)
  <2>1. R \in [Block -> SUBSET V]
    OBVIOUS
  <2>2. v0 \in R[Zero]
    BY <1>0
  <2>3. ASSUME NEW b \in ProperBlock, NEW v \in R[Parent[b]] PROVE g[b][v] \in R[b]
    <3>1. v \in V /\ \A r \in C : v \in r[Parent[b]]
      BY <1>0
    <3>2. \A r \in C : g[b][v] \in r[b]
      BY <3>1, <1>0
    <3> QED BY <1>0, <3>1, <3>2
  <2> QED BY <2>1, <2>2, <2>3
<1>2. ASSUME NEW r \in [Block -> SUBSET V], Closed(r), NEW b \in Block
      PROVE  R[b] \subseteq r[b]
  BY <1>2
<1> HIDE DEF R, C
<1>3. ASSUME NEW b \in Block, NEW v \in R[b], v # v0 \/ b # Zero,
             b \in ProperBlock => \A u \in R[Parent[b]] : g[b][u] # v
      PROVE  FALSE
  <2> DEFINE r == [R EXCEPT ![b] = @ \ {v}]
  <2>1. r \in [Block -> SUBSET V] /\ \A c \in Block : r[c] \subseteq R[c]
    BY <1>1
  <2>2. v0 \in r[Zero]
    BY <1>0, <1>1, <1>3
  <2>3. ASSUME NEW c \in ProperBlock, NEW u \in r[Parent[c]] PROVE g[c][u] \in r[c]
    <3>1. u \in R[Parent[c]] /\ g[c][u] \in R[c]
      BY <1>0, <1>1, <2>1
    <3> QED BY <1>0, <1>1, <1>3, <3>1
  <2>4. v \in r[b]
    <3> HIDE DEF r
    <3>1. Closed(r)
      BY <2>2, <2>3
    <3> HIDE DEF Closed
    <3>2. R[b] \subseteq r[b]
      BY <1>2, <2>1, <3>1
    <3> QED BY <1>3, <3>2
  <2> QED BY <1>1, <2>4
<1>4. Zero \in P
  <2>1. v0 \in R[Zero]
    BY <1>1
  <2>2. ASSUME NEW v \in R[Zero] PROVE v = v0
    <3>1. Zero \notin ProperBlock
      BY DEF ProperBlock
    <3> QED BY <1>0, <1>3, <2>2, <3>1
  <2>3. R[Zero] = {v0}
    BY <2>1, <2>2
  <2> QED BY <1>0, <2>3
<1>5. ASSUME NEW b \in ProperBlock, Parent[b] \in P PROVE b \in P
  <2>1. PICK u \in V : R[Parent[b]] = {u}
    BY <1>5
  <2>2. g[b][u] \in R[b] /\ g[b][u] \in V
    BY <1>0, <1>1, <2>1
  <2>3. \A v \in R[b] : v = g[b][u]
    BY <1>0, <1>3, <2>1
  <2>4. R[b] = {g[b][u]}
    BY <2>2, <2>3
  <2> QED BY <1>0, <2>2, <2>4
<1>6. \A b \in Block : \E v \in V : R[b] = {v}
  <2> DEFINE Q == P
  <2>1. Zero \in Q /\ \A b \in ProperBlock : Parent[b] \in Q => b \in Q
    BY <1>4, <1>5
  <2> HIDE DEF Q
  <2>2. Block \subseteq Q
    BY <2>1, AlongParents
  <2> QED BY <2>2 DEF Q
<1> DEFINE f == [b \in Block |-> CHOOSE v \in V : R[b] = {v}]
<1>7. \A b \in Block : f[b] \in V /\ R[b] = {f[b]}
  BY <1>6
<1>8. f \in [Block -> V]
  BY <1>7
<1>9. f[Zero] = v0
  BY <1>0, <1>1, <1>7
<1>10. ASSUME NEW b \in ProperBlock PROVE f[b] = g[b][f[Parent[b]]]
  <2> HIDE DEF f
  <2>1. g[b][f[Parent[b]]] \in R[b]
    BY <1>0, <1>1, <1>7
  <2> QED BY <1>0, <1>7, <2>1
<1> HIDE DEF f
<1> QED BY <1>8, <1>9, <1>10

\* Heights count from one at the first block.
LEMMA Heights ==
    /\ height \in [Block -> Nat] /\ height[Zero] = 0
    /\ \A b \in ProperBlock : height[b] = height[Parent[b]] + 1
<1> DEFINE g == [b \in ProperBlock |-> [v \in Nat |-> v + 1]]
<1>0. /\ Zero \in Block /\ \A b \in ProperBlock : b \in Block /\ b # Zero /\ Parent[b] \in Block
      /\ \A b \in Block : b # Zero => b \in ProperBlock
  BY PropagatorAssumption DEF ProperBlock
<1>1. PICK f \in [Block -> Nat] :
         f[Zero] = 0 /\ \A b \in ProperBlock : f[b] = g[b][f[Parent[b]]]
  <2>1. g \in [ProperBlock -> [Nat -> Nat]] /\ 0 \in Nat
    BY PropagatorAssumption DEF ProperBlock
  <2> HIDE DEF g
  <2> QED BY <2>1, Recursion
<1>2. ASSUME NEW b \in Block
      PROVE  f[b] = IF b = Zero THEN 0 ELSE f[Parent[b]] + 1
  <2>1. CASE b = Zero
    BY <1>1, <2>1
  <2>2. CASE b # Zero
    <3>1. b \in ProperBlock /\ f[Parent[b]] \in Nat /\ f[b] = g[b][f[Parent[b]]]
      BY <1>0, <1>1, <2>2
    <3> QED BY <2>2, <3>1
  <2> QED BY <2>1, <2>2
<1>3. f = [b \in Block |-> IF b = Zero THEN 0 ELSE f[Parent[b]] + 1]
  BY <1>1, <1>2
<1>4. height = [b \in Block |-> IF b = Zero THEN 0 ELSE height[Parent[b]] + 1]
  BY <1>3 DEF height
<1> DEFINE P == {b \in Block : height[b] \in Nat}
<1>5. Zero \in P /\ \A b \in ProperBlock : height[b] = height[Parent[b]] + 1
  BY <1>0, <1>4
<1>6. ASSUME NEW b \in ProperBlock, Parent[b] \in P PROVE b \in P
  BY <1>0, <1>5, <1>6, PropagatorAssumption DEF ProperBlock
<1>7. Block \subseteq P
  <2>1. Zero \in P /\ \A b \in ProperBlock : Parent[b] \in P => b \in P
    BY <1>5, <1>6
  <2> HIDE DEF P
  <2> QED BY <2>1, AlongParents
<1> QED BY <1>0, <1>4, <1>5, <1>7

\* Weights add up plays.
LEMMA Weights ==
    /\ weight \in [Block -> Nat] /\ weight[Zero] = 0
    /\ \A b \in ProperBlock : weight[b] = weight[Parent[b]] + Plays[b]
<1> DEFINE g == [b \in ProperBlock |-> [v \in Nat |-> v + Plays[b]]]
<1>0. /\ Zero \in Block /\ \A b \in ProperBlock : b \in Block /\ b # Zero /\ Parent[b] \in Block
      /\ \A b \in Block : b # Zero => b \in ProperBlock
  BY PropagatorAssumption DEF ProperBlock
<1>1. PICK f \in [Block -> Nat] :
         f[Zero] = 0 /\ \A b \in ProperBlock : f[b] = g[b][f[Parent[b]]]
  <2>1. g \in [ProperBlock -> [Nat -> Nat]] /\ 0 \in Nat
    BY PropagatorAssumption DEF ProperBlock
  <2> HIDE DEF g
  <2> QED BY <2>1, Recursion
<1>2. ASSUME NEW b \in Block
      PROVE  f[b] = IF b = Zero THEN 0 ELSE f[Parent[b]] + Plays[b]
  <2>1. CASE b = Zero
    BY <1>1, <2>1
  <2>2. CASE b # Zero
    <3>1. b \in ProperBlock /\ f[Parent[b]] \in Nat /\ f[b] = g[b][f[Parent[b]]]
      BY <1>0, <1>1, <2>2
    <3> QED BY <2>2, <3>1
  <2> QED BY <2>1, <2>2
<1>3. f = [b \in Block |-> IF b = Zero THEN 0 ELSE f[Parent[b]] + Plays[b]]
  BY <1>1, <1>2
<1>4. weight = [b \in Block |-> IF b = Zero THEN 0 ELSE weight[Parent[b]] + Plays[b]]
  BY <1>3 DEF weight
<1> DEFINE P == {b \in Block : weight[b] \in Nat}
<1>5. Zero \in P /\ \A b \in ProperBlock : weight[b] = weight[Parent[b]] + Plays[b]
  BY <1>0, <1>4
<1>6. ASSUME NEW b \in ProperBlock, Parent[b] \in P PROVE b \in P
  BY <1>0, <1>5, <1>6, PropagatorAssumption DEF ProperBlock
<1>7. Block \subseteq P
  <2>1. Zero \in P /\ \A b \in ProperBlock : Parent[b] \in P => b \in P
    BY <1>5, <1>6
  <2> HIDE DEF P
  <2> QED BY <2>1, AlongParents
<1> QED BY <1>0, <1>4, <1>5, <1>7

\* A chain is its parent's chain and its block.
LEMMA Chains ==
    /\ chain \in [Block -> SUBSET ProperBlock] /\ chain[Zero] = {}
    /\ \A b \in ProperBlock : chain[b] = chain[Parent[b]] \cup {b}
<1> DEFINE g == [b \in ProperBlock |-> [v \in SUBSET ProperBlock |-> v \cup {b}]]
<1>0. /\ Zero \in Block /\ \A b \in ProperBlock : b \in Block /\ b # Zero /\ Parent[b] \in Block
      /\ \A b \in Block : b # Zero => b \in ProperBlock
  BY PropagatorAssumption DEF ProperBlock
<1>1. PICK f \in [Block -> SUBSET ProperBlock] :
         f[Zero] = {} /\ \A b \in ProperBlock : f[b] = g[b][f[Parent[b]]]
  <2> DEFINE V == SUBSET ProperBlock
             v0 == {}
  <2>1. g \in [ProperBlock -> [V -> V]] /\ v0 \in V
    OBVIOUS
  <2> HIDE DEF g, V, v0
  <2>2. \E f \in [Block -> V] :
           f[Zero] = v0 /\ \A b \in ProperBlock : f[b] = g[b][f[Parent[b]]]
    BY <2>1, Recursion
  <2> QED BY <2>2 DEF V, v0
<1>2. ASSUME NEW b \in Block
      PROVE  f[b] = IF b = Zero THEN {} ELSE f[Parent[b]] \cup {b}
  <2>1. CASE b = Zero
    BY <1>1, <2>1
  <2>2. CASE b # Zero
    <3>1. b \in ProperBlock /\ f[Parent[b]] \in SUBSET ProperBlock /\ f[b] = g[b][f[Parent[b]]]
      BY <1>0, <1>1, <2>2
    <3> QED BY <2>2, <3>1
  <2> QED BY <2>1, <2>2
<1>3. f = [b \in Block |-> IF b = Zero THEN {} ELSE f[Parent[b]] \cup {b}]
  BY <1>1, <1>2
<1>4. chain = [b \in Block |-> IF b = Zero THEN {} ELSE chain[Parent[b]] \cup {b}]
  BY <1>3 DEF chain
<1> DEFINE P == {b \in Block : chain[b] \in SUBSET ProperBlock}
<1>5. Zero \in P /\ \A b \in ProperBlock : chain[b] = chain[Parent[b]] \cup {b}
  BY <1>0, <1>4
<1>6. ASSUME NEW b \in ProperBlock, Parent[b] \in P PROVE b \in P
  BY <1>0, <1>5, <1>6, PropagatorAssumption DEF ProperBlock
<1>7. Block \subseteq P
  <2>1. Zero \in P /\ \A b \in ProperBlock : Parent[b] \in P => b \in P
    BY <1>5, <1>6
  <2> HIDE DEF P
  <2> QED BY <2>1, AlongParents
<1> QED BY <1>0, <1>4, <1>5, <1>7

-----------------------------------------------------------------------------
(* Chains *)

\* A block is the top of its chain: what else is on it is lower and has its own
\* chain there.
LEMMA ChainOrder ==
    ASSUME NEW b \in Block
    PROVE  /\ b # Zero => b \in chain[b]
           /\ \A c \in chain[b] : /\ c \in ProperBlock /\ chain[c] \subseteq chain[b]
                                  /\ c # b => height[c] < height[b]
<1> DEFINE Fine(a) == \A c \in chain[a] : /\ chain[c] \subseteq chain[a]
                                          /\ c # a => height[c] < height[a]
           P == {a \in Block : Fine(a)}
<1>0. /\ Zero \in Block /\ \A a \in ProperBlock : a \in Block /\ a # Zero /\ Parent[a] \in Block
      /\ \A a \in Block : a # Zero => a \in ProperBlock
  BY PropagatorAssumption DEF ProperBlock
<1>1. Zero \in P
  BY <1>0, Chains
<1>2. ASSUME NEW a \in ProperBlock, Parent[a] \in P PROVE a \in P
  <2>1. chain[a] = chain[Parent[a]] \cup {a} /\ height[a] = height[Parent[a]] + 1
    BY Chains, Heights
  <2>2. ASSUME NEW c \in chain[a], c # a
        PROVE  chain[c] \subseteq chain[a] /\ height[c] < height[a]
    <3>1. c \in chain[Parent[a]] /\ c \in Block
      BY <1>0, <2>1, <2>2, Chains
    <3>2. chain[c] \subseteq chain[Parent[a]]
      BY <1>2, <3>1
    <3>3. height[c] <= height[Parent[a]] /\ height[c] \in Nat /\ height[Parent[a]] \in Nat
      <4>1. height[c] \in Nat /\ height[Parent[a]] \in Nat
        BY <1>0, <3>1, Heights
      <4>2. c # Parent[a] => height[c] < height[Parent[a]]
        BY <1>2, <3>1
      <4> QED BY <4>1, <4>2
    <3> QED BY <2>1, <3>2, <3>3
  <2>3. Fine(a)
    BY <2>2
  <2> QED BY <1>0, <2>3
<1>3. Block \subseteq P
  <2>1. Zero \in P /\ \A a \in ProperBlock : Parent[a] \in P => a \in P
    BY <1>1, <1>2
  <2> HIDE DEF P
  <2> QED BY <2>1, AlongParents
<1>4. Fine(b)
  BY <1>3
<1>5. b # Zero => b \in chain[b]
  BY <1>0, Chains
<1>6. \A c \in chain[b] : c \in ProperBlock
  BY Chains
<1> QED BY <1>4, <1>5, <1>6

\* Of two blocks of one chain the lower is on the chain of the higher.
LEMMA ChainLinear ==
    ASSUME NEW b \in Block, NEW c \in chain[b], NEW f \in chain[b],
           height[c] <= height[f]
    PROVE  c \in chain[f]
<1> DEFINE Line(a) == \A x, y \in chain[a] : height[x] <= height[y] => x \in chain[y]
           P == {a \in Block : Line(a)}
<1>0. /\ Zero \in Block /\ \A a \in ProperBlock : a \in Block /\ a # Zero /\ Parent[a] \in Block
  BY PropagatorAssumption DEF ProperBlock
<1>1. Zero \in P
  BY <1>0, Chains
<1>2. ASSUME NEW a \in ProperBlock, Parent[a] \in P PROVE a \in P
  <2>1. chain[a] = chain[Parent[a]] \cup {a}
    BY Chains
  <2>2. ASSUME NEW x \in chain[a], NEW y \in chain[a], height[x] <= height[y]
        PROVE  x \in chain[y]
    <3>1. CASE y = a
      BY <3>1
    <3>2. CASE y # a /\ x # a
      BY <1>2, <2>1, <2>2, <3>2
    <3>3. CASE y # a /\ x = a
      <4>1. height[y] < height[a]
        BY <1>0, <3>3, ChainOrder
      <4>2. height[y] \in Nat /\ height[a] \in Nat
        BY <1>0, Chains, Heights
      <4> QED BY <2>2, <3>3, <4>1, <4>2
    <3> QED BY <3>1, <3>2, <3>3
  <2>3. Line(a)
    BY <2>2
  <2> QED BY <1>0, <2>3
<1>3. Block \subseteq P
  <2>1. Zero \in P /\ \A a \in ProperBlock : Parent[a] \in P => a \in P
    BY <1>1, <1>2
  <2> HIDE DEF P
  <2> QED BY <2>1, AlongParents
<1> QED BY <1>3

\* Some blocks of a chain have a highest one.
LEMMA HighestOf ==
    ASSUME NEW b \in Block, NEW S \in SUBSET chain[b], S # {}
    PROVE  Highest(S) \in S
<1> DEFINE D == {height[b] - height[c] : c \in S}
<1>1. ASSUME NEW c \in S
      PROVE  height[c] \in Nat /\ height[b] \in Nat /\ height[c] <= height[b]
  <2>1. c \in Block /\ c \in chain[b]
    BY Chains DEF ProperBlock
  <2>2. height[c] \in Nat /\ height[b] \in Nat
    BY <2>1, Heights
  <2>3. c # b => height[c] < height[b]
    BY <2>1, ChainOrder
  <2> QED BY <2>2, <2>3
<1>2. D \in SUBSET Nat /\ D # {}
  BY <1>1
<1>3. PICK d \in D : \A e \in D : ~(<<e, d>> \in OpToRel(<, Nat))
  <2> HIDE DEF D
  <2> QED BY <1>2, NatLessThanWellFounded, WFMin
<1>4. \A e \in D : ~(e < d)
  <2> HIDE DEF D
  <2> QED BY <1>2, <1>3 DEF OpToRel
<1>5. PICK c \in S : d = height[b] - height[c]
  OBVIOUS
<1>6. ASSUME NEW e \in S PROVE height[e] <= height[c]
  <2>1. ~(height[b] - height[e] < height[b] - height[c])
    BY <1>4, <1>5
  <2> QED BY <1>1, <2>1
<1> QED BY <1>5, <1>6 DEF Highest

-----------------------------------------------------------------------------
(* The invariant *)

\* A job has a kind, a request for data is addressed to a node, and data is of
\* a block.
Good(m) ==
    /\ "kind" \in DOMAIN m
    /\ m.kind = "getdata" => m.to \in Node
    /\ m.kind = "data" => m.hash \in ProperBlock

GossipTypes ==
    /\ tip \in [Node -> Block]
    /\ have \in [Node -> SUBSET ProperBlock]
    /\ pending \in [Node -> SUBSET ProperBlock]
    /\ DOMAIN apply = Node
    /\ \A i \in Node : /\ {"busy", "blk", "local", "did"} \subseteq DOMAIN apply[i]
                       /\ apply[i].busy => apply[i].blk \in ProperBlock
    /\ \A e \in up : e \subseteq Node
    /\ \A m \in jobs : Good(m)

GossipInv == GossipTypes /\ ChainComplete

\* The invariant holds of the chains the nodes start with.
LEMMA GossipInvInit == Init => GossipInv
<1> SUFFICES ASSUME Init PROVE GossipInv
  OBVIOUS
<1>1. tip \in [Node -> Block] /\ \A i \in Node : have[i] = chain[tip[i]]
  BY PropagatorAssumption DEF Init
<1>2. have \in [Node -> SUBSET ProperBlock]
  BY <1>1, Chains DEF Init
<1>3. pending \in [Node -> SUBSET ProperBlock] /\ up = {} /\ jobs = {}
  BY DEF Init
<1>4. DOMAIN apply = Node /\ \A i \in Node :
         {"busy", "blk", "local", "did"} \subseteq DOMAIN apply[i] /\ ~apply[i].busy
  BY DEF Init
<1> QED BY <1>1, <1>2, <1>3, <1>4 DEF GossipInv, GossipTypes, ChainComplete

\* What is sent to a connected peer is sent to a node.
LEMMA SentGood ==
    ASSUME GossipInv, NEW msgs,
           \A m \in msgs : "kind" \in DOMAIN m /\ (m.kind = "data" => m.hash \in ProperBlock)
    PROVE  \A m \in Sent(msgs) : Good(m)
BY DEF GossipInv, GossipTypes, Sent, Good

\* A step that moves no chain, no block and no loop only adds good jobs.
LEMMA OnlyJobs ==
    ASSUME GossipInv, UNCHANGED <<tip, have, pending, apply>>,
           \A e \in up' : e \subseteq Node,
           \A m \in jobs' : m \in jobs \/ Good(m)
    PROVE  GossipInv' /\ UNCHANGED tip
BY DEF GossipInv, GossipTypes, ChainComplete, Good

\* Connections come and go.
LEMMA LinkSteps ==
    ASSUME GossipInv, NEW i \in Node, NEW j \in Node,
           Connect(i, j) \/ Disconnect(i, j) \/ Expire(i, j)
    PROVE  GossipInv' /\ UNCHANGED tip
<1>1. UNCHANGED <<tip, have, pending, apply>>
  BY DEF Connect, Disconnect, Expire, chainVars, queueVars
<1>2. \A e \in up' : e \subseteq Node
  BY DEF Connect, Disconnect, Expire, GossipInv, GossipTypes
<1>3. \A m \in jobs' : m \in jobs \/ Good(m)
  <2>1. CASE Connect(i, j)
    BY <2>1 DEF Connect, Good
  <2>2. CASE Disconnect(i, j)
    BY <2>2 DEF Disconnect
  <2>3. CASE Expire(i, j)
    BY <2>3 DEF Expire
  <2> QED BY <2>1, <2>2, <2>3
<1> QED BY <1>1, <1>2, <1>3, OnlyJobs

\* Every handler but that of data leaves chain and queue of blocks alone.
LEMMA HandlerSteps ==
    ASSUME GossipInv, NEW m \in jobs, Handle(m) \/ Lose(m), ~Data(m)
    PROVE  GossipInv' /\ UNCHANGED tip
<1> USE DEF chainVars, queueVars, linkVars
<1>0. Good(m) /\ have \in [Node -> SUBSET ProperBlock] /\ up' = up
  BY DEF GossipInv, GossipTypes, Handle, Lose, on_peer_connected, Hello, NodeHello,
         GetBlocksHandler, Inv, News, GetData
<1>1. UNCHANGED <<tip, have, pending, apply>>
  BY DEF Handle, Lose, on_peer_connected, Hello, NodeHello, GetBlocksHandler, Inv,
         News, GetData
<1>2. ASSUME NEW msgs, jobs' = After(m, msgs),
             \A n \in msgs : "kind" \in DOMAIN n
                             /\ (n.kind = "data" => n.hash \in ProperBlock)
      PROVE  \A n \in jobs' : n \in jobs \/ Good(n)
  BY <1>2, SentGood DEF After
<1>3. CASE on_peer_connected(m)
  <2> DEFINE msgs == {[kind |-> "hello", from |-> m.to, to |-> m.from, tip |-> tip[m.to]],
                      [kind |-> "node_hello", from |-> m.to, to |-> m.from]}
  <2>1. jobs' = After(m, msgs)
    BY <1>3 DEF on_peer_connected
  <2>2. \A n \in msgs : "kind" \in DOMAIN n /\ (n.kind = "data" => n.hash \in ProperBlock)
    OBVIOUS
  <2> HIDE DEF msgs
  <2>3. \A n \in jobs' : n \in jobs \/ Good(n)
    BY <1>2, <2>1, <2>2
  <2> QED BY <1>0, <1>1, <2>3, OnlyJobs DEF GossipInv, GossipTypes
<1>4. CASE Hello(m)
  <2>1. PICK msgs \in {{}, {GetBlocks(m.to, m.from)}} : jobs' = After(m, msgs)
    BY <1>4 DEF Hello
  <2>2. \A n \in msgs : "kind" \in DOMAIN n /\ (n.kind = "data" => n.hash \in ProperBlock)
    BY <2>1 DEF GetBlocks
  <2>3. \A n \in jobs' : n \in jobs \/ Good(n)
    BY <1>2, <2>1, <2>2
  <2> QED BY <1>0, <1>1, <2>3, OnlyJobs DEF GossipInv, GossipTypes
<1>5. CASE NodeHello(m)
  <2>1. PICK table, hashes : jobs' = After(m, do_announce(m.to, table, hashes))
    BY <1>5 DEF NodeHello
  <2>2. \A n \in do_announce(m.to, table, hashes) :
           "kind" \in DOMAIN n /\ (n.kind = "data" => n.hash \in ProperBlock)
    BY DEF do_announce, Invs
  <2>3. \A n \in jobs' : n \in jobs \/ Good(n)
    BY <1>2, <2>1, <2>2
  <2> QED BY <1>0, <1>1, <2>3, OnlyJobs DEF GossipInv, GossipTypes
<1>6. CASE GetBlocksHandler(m)
  <2>1. PICK out : jobs' = After(m, IF out = <<>> THEN {}
                            ELSE {[kind |-> "inv", from |-> m.to, to |-> m.from,
                                   hashes |-> out]})
    BY <1>6 DEF GetBlocksHandler
  <2> DEFINE msgs == IF out = <<>> THEN {}
                     ELSE {[kind |-> "inv", from |-> m.to, to |-> m.from, hashes |-> out]}
  <2>2. \A n \in msgs : "kind" \in DOMAIN n /\ (n.kind = "data" => n.hash \in ProperBlock)
    OBVIOUS
  <2>3. jobs' = After(m, msgs)
    BY <2>1
  <2> HIDE DEF msgs
  <2>4. \A n \in jobs' : n \in jobs \/ Good(n)
    BY <1>2, <2>2, <2>3
  <2> QED BY <1>0, <1>1, <2>4, OnlyJobs DEF GossipInv, GossipTypes
<1>7. CASE Inv(m)
  <2>1. PICK news : \A n \in jobs' : n \in jobs \/ n = [m EXCEPT !.kind = "news", !.hashes = news]
    BY <1>7 DEF Inv
  <2>2. Good([m EXCEPT !.kind = "news", !.hashes = news])
    BY <1>0 DEF Good
  <2> QED BY <1>0, <1>1, <2>1, <2>2, OnlyJobs DEF GossipInv, GossipTypes
<1>8. CASE News(m) \/ Lose(m)
  <2>1. \A n \in jobs' : n \in jobs
    BY <1>8 DEF News, Lose
  <2> QED BY <1>0, <1>1, <2>1, OnlyJobs DEF GossipInv, GossipTypes
<1>9. CASE GetData(m)
  <2> DEFINE msgs == IF m.hash \in have[m.to]
                     THEN {[kind |-> "data", from |-> m.to, to |-> m.from, hash |-> m.hash]}
                     ELSE {}
  <2>1. m.kind = "getdata" /\ jobs' = After(m, msgs)
    BY <1>9 DEF GetData
  <2>2. have[m.to] \subseteq ProperBlock
    BY <1>0, <2>1 DEF Good
  <2>3. \A n \in msgs : "kind" \in DOMAIN n /\ (n.kind = "data" => n.hash \in ProperBlock)
    BY <2>2
  <2> HIDE DEF msgs
  <2>4. \A n \in jobs' : n \in jobs \/ Good(n)
    BY <1>2, <2>1, <2>3
  <2> QED BY <1>0, <1>1, <2>4, OnlyJobs DEF GossipInv, GossipTypes
<1> QED BY <1>3, <1>4, <1>5, <1>6, <1>7, <1>8, <1>9 DEF Handle

\* A block arrives.
LEMMA DataStep ==
    ASSUME GossipInv, NEW m \in jobs, Data(m)
    PROVE  GossipInv' /\ UNCHANGED tip
<1>1. m.hash \in ProperBlock
  BY DEF Data, GossipInv, GossipTypes, Good
<1>2. /\ UNCHANGED <<tip, have, apply, up>> /\ jobs' = jobs \ {m}
      /\ pending' = [pending EXCEPT ![m.to] = @ \cup {m.hash}]
  BY DEF Data, chainVars, linkVars
<1>3. pending' \in [Node -> SUBSET ProperBlock]
  BY <1>1, <1>2 DEF GossipInv, GossipTypes
<1> QED BY <1>2, <1>3 DEF GossipInv, GossipTypes, ChainComplete, Good

\* announce_new_block, schedule_getdata and the timers.
LEMMA TellSteps ==
    ASSUME GossipInv,
           \/ \E t \in telling : Gate(t) \/ Hold(t) \/ Flood(t)
           \/ \E i \in Node : \/ \E q \in todo[i] : schedule_getdata(i, q)
                              \/ \E p \in Node : Stall(i, p)
    PROVE  GossipInv' /\ UNCHANGED tip
<1>1. UNCHANGED <<tip, have, pending, apply, up>>
  BY DEF Gate, Hold, Flood, schedule_getdata, Stall, chainVars, queueVars, linkVars
<1>2. \A n \in jobs' : n \in jobs \/ Good(n)
  <2>1. ASSUME NEW msgs, jobs' = jobs \cup Sent(msgs),
               \A n \in msgs : "kind" \in DOMAIN n
                               /\ (n.kind = "data" => n.hash \in ProperBlock)
        PROVE  \A n \in jobs' : n \in jobs \/ Good(n)
    BY <2>1, SentGood
  <2>2. ASSUME NEW t \in telling, Gate(t) \/ Hold(t)
        PROVE  jobs' = jobs
    BY <2>2 DEF Gate, Hold
  <2>3. ASSUME NEW t \in telling, Flood(t)
        PROVE  \A n \in jobs' : n \in jobs \/ Good(n)
    <3>1. PICK hashes : jobs' = jobs \cup Sent(do_announce(t[1], peers[t[1]], hashes))
      BY <2>3 DEF Flood
    <3>2. \A n \in do_announce(t[1], peers[t[1]], hashes) :
             "kind" \in DOMAIN n /\ (n.kind = "data" => n.hash \in ProperBlock)
      BY DEF do_announce, Invs
    <3> QED BY <2>1, <3>1, <3>2
  <2>4. ASSUME NEW i \in Node, NEW q \in todo[i], schedule_getdata(i, q)
        PROVE  \A n \in jobs' : n \in jobs \/ Good(n)
    <3>1. CASE jobs' = jobs
      BY <3>1
    <3>2. CASE jobs' # jobs
      <4>1. PICK h, p : jobs' = jobs \cup Sent({[kind |-> "getdata", from |-> i, to |-> p,
                                                 hash |-> h]})
        BY <2>4, <3>2 DEF schedule_getdata
      <4> DEFINE msgs == {[kind |-> "getdata", from |-> i, to |-> p, hash |-> h]}
      <4>2. \A n \in msgs : "kind" \in DOMAIN n /\ (n.kind = "data" => n.hash \in ProperBlock)
        OBVIOUS
      <4>3. jobs' = jobs \cup Sent(msgs)
        BY <4>1
      <4> HIDE DEF msgs
      <4> QED BY <2>1, <4>2, <4>3
    <3> QED BY <3>1, <3>2
  <2>5. ASSUME NEW i \in Node, NEW p \in Node, Stall(i, p)
        PROVE  jobs' = jobs
    BY <2>5 DEF Stall
  <2> QED BY <2>2, <2>3, <2>4, <2>5
<1> QED BY <1>1, <1>2, OnlyJobs DEF GossipInv, GossipTypes

\* A child of the tip is better, and its chain is the tip's and itself.
LEMMA ChildOfTip ==
    ASSUME GossipInv, NEW i \in Node, NEW b \in ProperBlock, Parent[b] = tip[i]
    PROVE  tip_is_better(b, tip[i]) /\ chain[b] \subseteq have[i] \cup {b}
<1>1. tip[i] \in Block /\ chain[tip[i]] \subseteq have[i]
  BY DEF GossipInv, GossipTypes, ChainComplete
<1>2. chain[b] = chain[tip[i]] \cup {b}
  BY Chains
<1>3. /\ height[b] = height[tip[i]] + 1 /\ weight[b] = weight[tip[i]] + Plays[b]
      /\ height[tip[i]] \in Nat /\ weight[tip[i]] \in Nat /\ Plays[b] \in Nat
  BY <1>1, Heights, Weights, PropagatorAssumption DEF ProperBlock
<1>4. tip_is_better(b, tip[i])
  BY <1>3 DEF tip_is_better
<1> QED BY <1>1, <1>2, <1>4

\* A branch found in pending_blocks_ and what has a row make a whole chain, if
\* the fork point is on the node's own.
LEMMA BranchWhole ==
    ASSUME GossipInv, NEW i \in Node, NEW b \in ProperBlock, Adopted(i, b)
    PROVE  chain[b] \subseteq have[i] \cup Branch(i, b)
<1> DEFINE F == ForkPoint(i, b)
           S == (chain[b] \ {b}) \cap have[i]
<1>0. b \in Block /\ tip[i] \in Block /\ chain[tip[i]] \subseteq have[i]
  BY DEF ProperBlock, GossipInv, GossipTypes, ChainComplete
<1>1. F # Zero /\ F \in chain[tip[i]] /\ Between(i, b) \subseteq pending[i]
  BY DEF Adopted, FoundFork
<1>2. F = Highest(S)
  BY DEF ForkPoint
<1>3. S # {}
  BY <1>1, <1>2 DEF Highest
<1>4. F \in chain[b]
  <2>1. S \in SUBSET chain[b]
    OBVIOUS
  <2> HIDE DEF S
  <2> QED BY <1>0, <1>2, <1>3, <2>1, HighestOf
<1>5. chain[F] \subseteq have[i]
  BY <1>0, <1>1, ChainOrder
<1> SUFFICES ASSUME NEW c \in chain[b] PROVE c \in have[i] \cup Branch(i, b)
  OBVIOUS
<1>6. CASE c = b
  BY <1>6 DEF Branch
<1>7. CASE c # b /\ height[c] > height[F]
  BY <1>1, <1>7 DEF Between, Branch
<1>8. CASE ~(height[c] > height[F])
  <2>1. height[c] \in Nat /\ height[F] \in Nat
    BY <1>0, <1>4, Chains, Heights DEF ProperBlock
  <2>2. c \in chain[F]
    <3> HIDE DEF F
    <3> QED BY <1>0, <1>4, <1>8, <2>1, ChainLinear
  <2> QED BY <1>5, <2>2
<1> QED BY <1>6, <1>7, <1>8

\* A node moves to a better tip whose chain it has the rows of.
LEMMA MovesOn ==
    ASSUME GossipInv, NEW i \in Node, NEW b \in ProperBlock,
           NEW blocks \in SUBSET ProperBlock,
           chain[b] \subseteq have[i] \cup blocks, tip_is_better(b, tip[i]),
           tip' = [tip EXCEPT ![i] = b],
           have' = [have EXCEPT ![i] = @ \cup blocks],
           pending' \in [Node -> SUBSET ProperBlock],
           DOMAIN apply' = Node,
           \A j \in Node : /\ {"busy", "blk", "local", "did"} \subseteq DOMAIN apply'[j]
                           /\ apply'[j].busy => apply'[j].blk \in ProperBlock,
           UNCHANGED <<up, jobs>>
    PROVE  /\ GossipInv'
           /\ \A j \in Node : tip'[j] # tip[j] => tip_is_better(tip'[j], tip[j])
<1>1. tip \in [Node -> Block] /\ have \in [Node -> SUBSET ProperBlock]
  BY DEF GossipInv, GossipTypes
<1>2. tip' \in [Node -> Block] /\ have' \in [Node -> SUBSET ProperBlock]
  BY <1>1 DEF ProperBlock
<1>3. ChainComplete'
  <2> SUFFICES ASSUME NEW j \in Node PROVE chain[tip'[j]] \subseteq have'[j]
    BY DEF ChainComplete
  <2> QED BY <1>1 DEF GossipInv, ChainComplete
<1>4. GossipTypes'
  BY <1>2 DEF GossipInv, GossipTypes, Good
<1>5. \A j \in Node : tip'[j] # tip[j] => tip_is_better(tip'[j], tip[j])
  BY <1>1
<1> QED BY <1>3, <1>4, <1>5 DEF GossipInv

\* The producer extends its tip.
LEMMA MintStep ==
    ASSUME GossipInv, NEW i \in Node, NEW b \in Block \ {Zero}, Mint(i, b)
    PROVE  /\ GossipInv'
           /\ \A j \in Node : tip'[j] # tip[j] => tip_is_better(tip'[j], tip[j])
<1>1. b \in ProperBlock /\ Parent[b] = tip[i]
  BY DEF Mint, ProperBlock
<1>2. /\ tip' = [tip EXCEPT ![i] = b] /\ have' = [have EXCEPT ![i] = @ \cup {b}]
      /\ UNCHANGED <<pending, apply, up, jobs>>
  BY DEF Mint, queueVars
<1>3. tip_is_better(b, tip[i]) /\ chain[b] \subseteq have[i] \cup {b}
  BY <1>1, ChildOfTip
<1>4. /\ pending' \in [Node -> SUBSET ProperBlock] /\ DOMAIN apply' = Node
      /\ \A j \in Node : /\ {"busy", "blk", "local", "did"} \subseteq DOMAIN apply'[j]
                         /\ apply'[j].busy => apply'[j].blk \in ProperBlock
  BY <1>2 DEF GossipInv, GossipTypes
<1>5. {b} \in SUBSET ProperBlock
  BY <1>1
<1> DEFINE blocks == {b}
<1>6. /\ have' = [have EXCEPT ![i] = @ \cup blocks]
      /\ chain[b] \subseteq have[i] \cup blocks /\ blocks \in SUBSET ProperBlock
  BY <1>2, <1>3, <1>5
<1> HIDE DEF blocks
<1> QED BY <1>1, <1>2, <1>3, <1>4, <1>6, MovesOn

\* The apply loop takes a block from pending_blocks_, or asks on.
LEMMA LoopSteps ==
    ASSUME GossipInv, NEW i \in Node, Pop(i) \/ FollowUp(i)
    PROVE  GossipInv' /\ UNCHANGED tip
<1>0. /\ DOMAIN apply = Node /\ pending \in [Node -> SUBSET ProperBlock]
      /\ \A j \in Node : /\ {"busy", "blk", "local", "did"} \subseteq DOMAIN apply[j]
                         /\ apply[j].busy => apply[j].blk \in ProperBlock
  BY DEF GossipInv, GossipTypes
<1>1. UNCHANGED <<tip, have, up>>
  BY DEF Pop, FollowUp, chainVars, linkVars
<1>2. pending' \in [Node -> SUBSET ProperBlock]
  BY <1>0 DEF Pop, FollowUp, queueVars
<1>3. DOMAIN apply' = Node
  BY <1>0 DEF Pop, FollowUp
<1>4. ASSUME NEW j \in Node
      PROVE  /\ {"busy", "blk", "local", "did"} \subseteq DOMAIN apply'[j]
             /\ apply'[j].busy => apply'[j].blk \in ProperBlock
  <2>1. CASE j # i
    <3>1. apply'[j] = apply[j]
      BY <2>1, <1>0 DEF Pop, FollowUp
    <3> QED BY <1>0, <3>1
  <2>2. CASE j = i /\ Pop(i)
    <3>1. Head(expected[i]) \in ProperBlock
      BY <1>0, <2>2 DEF Pop, HeadArrived
    <3>2. apply'[i] = [busy |-> TRUE, blk |-> Head(expected[i]),
                       local |-> tip[i], did |-> apply[i].did]
      BY <1>0, <2>2 DEF Pop
    <3> QED BY <2>2, <3>1, <3>2
  <2>3. CASE j = i /\ FollowUp(i)
    <3>1. apply'[i] = [apply[i] EXCEPT !.did = FALSE]
      BY <1>0, <2>3 DEF FollowUp
    <3> QED BY <1>0, <2>3, <3>1
  <2> QED BY <2>1, <2>2, <2>3
<1>5. \A n \in jobs' : n \in jobs \/ Good(n)
  <2>1. CASE Pop(i)
    BY <2>1 DEF Pop
  <2>2. CASE FollowUp(i)
    <3>1. PICK Q : jobs' = jobs \cup Sent({GetBlocks(i, p) : p \in Q})
      BY <2>2 DEF FollowUp
    <3> DEFINE msgs == {GetBlocks(i, p) : p \in Q}
    <3>2. \A n \in msgs : "kind" \in DOMAIN n /\ (n.kind = "data" => n.hash \in ProperBlock)
      BY DEF GetBlocks
    <3>3. jobs' = jobs \cup Sent(msgs)
      BY <3>1
    <3> HIDE DEF msgs
    <3> QED BY <3>2, <3>3, SentGood
  <2> QED BY <2>1, <2>2
<1> QED BY <1>1, <1>2, <1>3, <1>4, <1>5 DEF GossipInv, GossipTypes, ChainComplete, Good

\* The apply loop connects a block, adopts a branch, or lets go.
LEMMA ApplyStep ==
    ASSUME GossipInv, NEW i \in Node, ApplyBlock(i)
    PROVE  /\ GossipInv'
           /\ \A j \in Node : tip'[j] # tip[j] => tip_is_better(tip'[j], tip[j])
<1> DEFINE b == apply[i].blk
<1>0. /\ DOMAIN apply = Node /\ pending \in [Node -> SUBSET ProperBlock]
      /\ \A j \in Node : /\ {"busy", "blk", "local", "did"} \subseteq DOMAIN apply[j]
                         /\ apply[j].busy => apply[j].blk \in ProperBlock
  BY DEF GossipInv, GossipTypes
<1>1. b \in ProperBlock /\ UNCHANGED <<up, jobs>>
  BY <1>0 DEF ApplyBlock, linkVars
<1>2. PICK r : r \in {[apply[i] EXCEPT !.busy = FALSE],
                      [apply[i] EXCEPT !.busy = FALSE, !.did = TRUE]}
               /\ apply' = [apply EXCEPT ![i] = r]
  BY DEF ApplyBlock, Applied
<1>3. /\ DOMAIN apply' = Node
      /\ \A j \in Node : /\ {"busy", "blk", "local", "did"} \subseteq DOMAIN apply'[j]
                         /\ apply'[j].busy => apply'[j].blk \in ProperBlock
  <2>1. DOMAIN r = DOMAIN apply[i] /\ ~r.busy
    BY <1>0, <1>2
  <2> QED BY <1>0, <1>2, <2>1
<1>4. ASSUME NEW blocks \in SUBSET ProperBlock, Applied(i, b, blocks),
             chain[b] \subseteq have[i] \cup blocks, tip_is_better(b, tip[i])
      PROVE  /\ GossipInv'
             /\ \A j \in Node : tip'[j] # tip[j] => tip_is_better(tip'[j], tip[j])
  <2>1. /\ tip' = [tip EXCEPT ![i] = b] /\ have' = [have EXCEPT ![i] = @ \cup blocks]
        /\ pending' = [pending EXCEPT ![i] = @ \ blocks]
    BY <1>4 DEF Applied
  <2>2. pending' \in [Node -> SUBSET ProperBlock]
    BY <1>0, <2>1
  <2> HIDE DEF b
  <2> QED BY <1>1, <1>3, <1>4, <2>1, <2>2, MovesOn
<1>5. CASE Parent[b] = tip[i] /\ Applied(i, b, {b})
  <2>1. tip_is_better(b, tip[i]) /\ chain[b] \subseteq have[i] \cup {b}
    <3> HIDE DEF b
    <3> QED BY <1>1, <1>5, ChildOfTip
  <2>2. {b} \in SUBSET ProperBlock
    BY <1>1
  <2> HIDE DEF b
  <2> QED BY <1>4, <1>5, <2>1, <2>2
<1>6. CASE Adopted(i, b) /\ Applied(i, b, Branch(i, b))
  <2>1. chain[b] \subseteq have[i] \cup Branch(i, b) /\ tip_is_better(b, tip[i])
    <3> HIDE DEF b
    <3>1. tip_is_better(b, tip[i])
      BY <1>6 DEF Adopted
    <3> QED BY <1>1, <1>6, <3>1, BranchWhole
  <2>2. Branch(i, b) \in SUBSET ProperBlock
    BY <1>0, <1>1 DEF Branch
  <2> HIDE DEF b
  <2> QED BY <1>4, <1>6, <2>1, <2>2
<1>7. CASE UNCHANGED <<tip, have, pending>>
  <2>1. \A e \in up : e \subseteq Node
    BY DEF GossipInv, GossipTypes
  <2> QED BY <1>1, <1>3, <1>7 DEF GossipInv, GossipTypes, ChainComplete, Good
<1> QED BY <1>5, <1>6, <1>7 DEF ApplyBlock, chainVars

\* Every step keeps the invariant and improves the tips it moves.
LEMMA GossipInvStep ==
    GossipInv /\ [Next]_vars =>
        /\ GossipInv'
        /\ \A i \in Node : tip'[i] # tip[i] => tip_is_better(tip'[i], tip[i])
<1> SUFFICES ASSUME GossipInv, [Next]_vars
             PROVE  /\ GossipInv'
                    /\ \A i \in Node : tip'[i] # tip[i] => tip_is_better(tip'[i], tip[i])
  OBVIOUS
<1>1. CASE UNCHANGED vars
  BY <1>1 DEF vars, chainVars, linkVars, queueVars, GossipInv, GossipTypes,
              ChainComplete, Good
<1>2. ASSUME NEW i \in Node, NEW j \in Node, Connect(i, j) \/ Disconnect(i, j) \/ Expire(i, j)
      PROVE  GossipInv' /\ UNCHANGED tip
  BY <1>2, LinkSteps
<1>3. ASSUME NEW m \in jobs, Handle(m) \/ Lose(m)
      PROVE  GossipInv' /\ UNCHANGED tip
  BY <1>3, HandlerSteps, DataStep
<1>4. ASSUME NEW i \in Node, NEW b \in Block \ {Zero}, Mint(i, b)
      PROVE  /\ GossipInv'
             /\ \A j \in Node : tip'[j] # tip[j] => tip_is_better(tip'[j], tip[j])
  BY <1>4, MintStep
<1>5. ASSUME NEW i \in Node, Pop(i) \/ FollowUp(i)
      PROVE  GossipInv' /\ UNCHANGED tip
  BY <1>5, LoopSteps
<1>6. ASSUME NEW i \in Node, ApplyBlock(i)
      PROVE  /\ GossipInv'
             /\ \A j \in Node : tip'[j] # tip[j] => tip_is_better(tip'[j], tip[j])
  BY <1>6, ApplyStep
<1>7. CASE \/ \E t \in telling : Gate(t) \/ Hold(t) \/ Flood(t)
           \/ \E i \in Node : \/ \E q \in todo[i] : schedule_getdata(i, q)
                              \/ \E p \in Node : Stall(i, p)
  BY <1>7, TellSteps
<1> QED BY <1>1, <1>2, <1>3, <1>4, <1>5, <1>6, <1>7 DEF Next

\* A node has a row of every block behind its tip (ChainComplete), in whatever
\* order blocks, messages, reorgs and mints come: apply_loop puts a branch on a
\* fork point of its own chain, and leaves no gap between.
THEOREM ChainsAlwaysComplete == Spec => []ChainComplete
<1>1. GossipInv => ChainComplete
  BY DEF GossipInv
<1>2. GossipInv /\ [Next]_vars => GossipInv'
  BY GossipInvStep
<1> QED BY <1>1, <1>2, GossipInvInit, PTL DEF Spec

\* A tip gives way to a better one only (TipsImprove), although the apply loop
\* works with a tip it read before the producer moved it.
THEOREM TipsAlwaysImprove == Spec => TipsImprove
<1> DEFINE Improves == \A i \in Node : tip'[i] # tip[i] => tip_is_better(tip'[i], tip[i])
<1>1. GossipInv /\ [Next]_vars => GossipInv' /\ Improves
  BY GossipInvStep
<1>2. GossipInv /\ [Next]_vars => [Improves]_vars
  BY <1>1
<1> QED BY <1>1, <1>2, GossipInvInit, PTL DEF Spec, TipsImprove

-----------------------------------------------------------------------------
(* RelayWitness *)

\* A row remembered after the flush never overstates the delivery.
NoRowOverstates ==
    \A d \in Delivery : /\ Bytes(done[d]) <= passed[d]
                        /\ passed[d] <= frames[d] /\ frames[d] <= MaxFrames

WitnessInv == WitnessTypeOK /\ WitnessHonest /\ NoRowOverstates

\* What is in the two tables, row by row.
LEMMA Rows ==
    ASSUME WitnessInv, NEW d \in Delivery
    PROVE  /\ Bytes(accum[d]) \in Nat /\ Bytes(done[d]) \in Nat
           /\ accum[d] # Nothing => accum[d] \in DeliveryAccum /\ Bytes(accum[d]) = accum[d].bytes
           /\ done[d] # Nothing => done[d] \in DeliveryDone /\ Bytes(done[d]) = done[d].bytes
           /\ Bytes(accum[d]) <= passed[d] /\ Bytes(accum[d]) <= MaxFrames
           /\ Bytes(done[d]) <= MaxFrames
           /\ passed[d] \in Nat /\ frames[d] \in Nat /\ reported[d] \in Nat
<1> USE DEF WitnessInv, WitnessTypeOK
<1>1. passed[d] \in Nat /\ frames[d] \in Nat /\ reported[d] \in Nat
  OBVIOUS
<1>2. accum[d] # Nothing => accum[d] \in DeliveryAccum /\ accum[d].bytes \in Nat
  BY WitnessAssumption DEF DeliveryAccum
<1>3. done[d] # Nothing => done[d] \in DeliveryDone /\ done[d].bytes \in Nat
  BY WitnessAssumption DEF DeliveryDone
<1>4. Bytes(accum[d]) \in Nat /\ Bytes(done[d]) \in Nat
  BY <1>2, <1>3 DEF Bytes
<1>5. /\ accum[d] # Nothing => Bytes(accum[d]) = accum[d].bytes
      /\ done[d] # Nothing => Bytes(done[d]) = done[d].bytes
  BY DEF Bytes
<1>6. reported[d] + Bytes(accum[d]) = passed[d]
  BY DEF WitnessHonest
<1>7. Bytes(done[d]) <= passed[d] /\ passed[d] <= frames[d] /\ frames[d] <= MaxFrames
  BY DEF NoRowOverstates
<1> QED BY <1>1, <1>2, <1>3, <1>4, <1>5, <1>6, <1>7, WitnessAssumption

\* No row is what stands for the absence of one.
LEMMA RowsAreSomething ==
    /\ \A row \in DeliveryAccum : row # Nothing
    /\ \A row \in DeliveryDone : row # Nothing
    /\ Bytes(Nothing) = 0
    /\ \A row \in DeliveryAccum \cup DeliveryDone : Bytes(row) = row.bytes
<1>1. ASSUME NEW row \in DeliveryAccum PROVE row # Nothing
  <2>1. PICK b \in 0..MaxFrames, i \in BOOLEAN : row = [bytes |-> b, idle |-> i]
    BY DEF DeliveryAccum
  <2> QED BY <2>1, WitnessAssumption, Zenon
<1>2. ASSUME NEW row \in DeliveryDone PROVE row # Nothing
  <2>1. PICK b \in 0..MaxFrames, a \in 0..(kCosignMemory + 1), s \in Session \cup {Nothing} :
             row = [bytes |-> b, age |-> a, session |-> s]
    BY DEF DeliveryDone
  <2> QED BY <2>1, WitnessAssumption, Zenon
<1> QED BY <1>1, <1>2 DEF Bytes

\* Before the first frame nothing is claimed.
LEMMA WitnessInvInit == WitnessInit => WitnessInv
BY WitnessAssumption
   DEF WitnessInit, WitnessInv, WitnessTypeOK, WitnessHonest, NoRowOverstates, Bytes

\* A frame is counted exactly when it could be sent on.
LEMMA FrameStep ==
    ASSUME WitnessInv, NEW d \in Delivery, NEW sent \in BOOLEAN, on_relay_binary(d, sent)
    PROVE  WitnessInv'
<1> USE DEF WitnessInv
<1>1. UNCHANGED <<done, reported, cosigned>>
  BY DEF on_relay_binary
<1>2. frames' = [frames EXCEPT ![d] = @ + 1] /\ frames[d] < MaxFrames
  BY DEF on_relay_binary
<1>3. CASE sent
  <2> DEFINE row == [bytes |-> Bytes(accum[d]) + 1, idle |-> FALSE]
  <2>1. accum' = [accum EXCEPT ![d] = row] /\ passed' = [passed EXCEPT ![d] = @ + 1]
    BY <1>3 DEF on_relay_binary, Counted
  <2>2. row \in DeliveryAccum /\ row.bytes = Bytes(accum[d]) + 1
    <3>1. Bytes(accum[d]) + 1 \in 0..MaxFrames
      BY <1>2, Rows, WitnessAssumption DEF NoRowOverstates
    <3> QED BY <3>1 DEF DeliveryAccum
  <2>3. Bytes(row) = Bytes(accum[d]) + 1
    BY <2>2, RowsAreSomething
  <2> HIDE DEF row
  <2>4. WitnessTypeOK'
    BY <1>1, <1>2, <2>1, <2>2 DEF WitnessTypeOK
  <2>5. ASSUME NEW e \in Delivery
        PROVE  /\ (reported[e] + Bytes(accum[e]) = passed[e])'
               /\ (cosigned[e] # {} => passed[e] >= kCosignMinBytes)'
               /\ (Bytes(done[e]) <= passed[e] /\ passed[e] <= frames[e] /\ frames[e] <= MaxFrames)'
    <3>1. CASE e = d
      BY <1>1, <1>2, <2>1, <2>3, <3>1, Rows, WitnessAssumption
         DEF WitnessTypeOK, WitnessHonest, NoRowOverstates
    <3>2. CASE e # d
      BY <1>1, <1>2, <2>1, <3>2 DEF WitnessTypeOK, WitnessHonest, NoRowOverstates
    <3> QED BY <3>1, <3>2
  <2> QED BY <2>4, <2>5 DEF WitnessHonest, NoRowOverstates
<1>4. CASE ~sent
  <2>1. accum' = accum /\ passed' = passed
    BY <1>4 DEF on_relay_binary, Counted, WitnessTypeOK
  <2>2. WitnessTypeOK'
    BY <1>1, <1>2, <2>1 DEF WitnessTypeOK
  <2>3. WitnessHonest'
    BY <1>1, <2>1 DEF WitnessHonest
  <2>4. NoRowOverstates'
    BY <1>1, <1>2, <2>1, Rows, WitnessAssumption DEF NoRowOverstates, WitnessTypeOK
  <2> QED BY <2>2, <2>3, <2>4
<1> QED BY <1>3, <1>4

\* The reaper moves a count from the accumulator to the report, and remembers it.
LEMMA ReaperStep ==
    ASSUME WitnessInv, reaper_loop
    PROVE  WitnessInv'
<1> USE DEF WitnessInv
<1> DEFINE kept(row) == row # Nothing /\ row.age <= kCosignMemory
           ready == {d \in Delivery : accum[d] # Nothing /\ accum[d].idle}
           flushed(d) == [bytes |-> accum[d].bytes, age |-> 0,
                          session |-> IF kept(done[d]) THEN done[d].session ELSE Nothing]
<1>1. UNCHANGED <<frames, passed, cosigned>>
  BY DEF reaper_loop
<1>2. done' = [d \in Delivery |-> IF d \in ready THEN flushed(d)
                                  ELSE IF kept(done[d]) THEN done[d] ELSE Nothing]
  BY Zenon DEF reaper_loop
<1>3. /\ accum' = [d \in Delivery |-> IF d \in ready THEN Nothing ELSE accum[d]]
      /\ reported' = [d \in Delivery |-> reported[d] + IF d \in ready THEN accum[d].bytes ELSE 0]
  BY DEF reaper_loop
<1>4. ASSUME NEW d \in ready
      PROVE  /\ d \in Delivery /\ accum[d] # Nothing /\ accum[d].bytes = Bytes(accum[d])
             /\ flushed(d) \in DeliveryDone /\ Bytes(flushed(d)) = accum[d].bytes
  <2>1. d \in Delivery /\ accum[d] # Nothing
    OBVIOUS
  <2>2. accum[d].bytes = Bytes(accum[d]) /\ accum[d].bytes \in 0..MaxFrames
    BY <2>1, Rows DEF DeliveryAccum
  <2>3. flushed(d).session \in Session \cup {Nothing}
    BY <2>1, Rows DEF DeliveryDone
  <2>4. flushed(d) \in DeliveryDone
    BY <2>2, <2>3, WitnessAssumption DEF DeliveryDone
  <2>5. Bytes(flushed(d)) = flushed(d).bytes
    BY <2>4, RowsAreSomething
  <2> QED BY <2>1, <2>2, <2>4, <2>5
<1> HIDE DEF flushed
<1>5. WitnessTypeOK'
  <2>1. accum' \in [Delivery -> DeliveryAccum \cup {Nothing}]
    BY <1>3 DEF WitnessTypeOK
  <2>2. reported' \in [Delivery -> Nat]
    BY <1>3, <1>4, Rows DEF WitnessTypeOK
  <2>3. done' \in [Delivery -> DeliveryDone \cup {Nothing}]
    BY <1>2, <1>4 DEF WitnessTypeOK
  <2> QED BY <1>1, <2>1, <2>2, <2>3 DEF WitnessTypeOK
<1>6. ASSUME NEW d \in Delivery
      PROVE  /\ (reported[d] + Bytes(accum[d]) = passed[d])'
             /\ (Bytes(done[d]) <= passed[d])'
  <2>1. CASE d \in ready
    <3>1. done'[d] = flushed(d) /\ accum'[d] = Nothing /\ reported'[d] = reported[d] + accum[d].bytes
      BY <1>2, <1>3, <2>1
    <3> QED BY <1>1, <1>4, <2>1, <3>1, Rows, RowsAreSomething DEF WitnessHonest
  <2>2. CASE d \notin ready
    <3>1. accum'[d] = accum[d] /\ reported'[d] = reported[d] /\ done'[d] \in {done[d], Nothing}
      BY <1>2, <1>3, <2>2, Rows
    <3> QED BY <1>1, <3>1, Rows, RowsAreSomething DEF WitnessHonest, NoRowOverstates
  <2> QED BY <2>1, <2>2
<1> QED BY <1>1, <1>5, <1>6 DEF WitnessHonest, NoRowOverstates

\* A signature is given only for a delivery the tables still vouch for.
LEMMA CosignStep ==
    ASSUME WitnessInv, NEW d \in Delivery, NEW s \in Session, NEW agree \in BOOLEAN,
           proof_cosign(d, s, agree)
    PROVE  WitnessInv'
<1> USE DEF WitnessInv
<1> DEFINE row == IF done[d] # Nothing THEN done[d]
                  ELSE [bytes |-> Relayed(d), age |-> 0, session |-> Nothing]
<1>1. UNCHANGED <<accum, frames, passed, reported>>
  BY DEF proof_cosign
<1>2. Relayed(d) >= kCosignMinBytes /\ Relayed(d) \in 0..MaxFrames /\ Relayed(d) <= passed[d]
  BY Rows, WitnessAssumption DEF proof_cosign, Relayed, NoRowOverstates
<1>3. row \in DeliveryDone /\ row.bytes = Relayed(d)
  <2>1. CASE done[d] # Nothing
    BY <2>1, Rows DEF Relayed
  <2>2. CASE done[d] = Nothing
    BY <2>2, <1>2, WitnessAssumption DEF DeliveryDone
  <2> QED BY <2>1, <2>2
<1>4. /\ \/ done' = [done EXCEPT ![d] = row]
         \/ done' = [done EXCEPT ![d] = [row EXCEPT !.session = s]]
      /\ cosigned' = cosigned \/ cosigned' = [cosigned EXCEPT ![d] = @ \cup {s}]
  BY Zenon DEF proof_cosign
<1> HIDE DEF row
<1>5. PICK r \in DeliveryDone : done' = [done EXCEPT ![d] = r] /\ r.bytes = Relayed(d)
  <2>1. [row EXCEPT !.session = s] \in DeliveryDone /\ [row EXCEPT !.session = s].bytes = Relayed(d)
    BY <1>3 DEF DeliveryDone
  <2> QED BY <1>3, <1>4, <2>1
<1>6. Bytes(r) = Relayed(d)
  BY <1>5, RowsAreSomething
<1>7. WitnessTypeOK'
  BY <1>1, <1>4, <1>5 DEF WitnessTypeOK
<1>8. WitnessHonest'
  BY <1>1, <1>2, <1>4, Rows, WitnessAssumption DEF WitnessHonest, WitnessTypeOK
<1>9. NoRowOverstates'
  BY <1>1, <1>2, <1>5, <1>6 DEF NoRowOverstates, WitnessTypeOK
<1> QED BY <1>7, <1>8, <1>9

\* Time passing, and a delivery making room for another.
LEMMA AgeingStep ==
    ASSUME WitnessInv, NEW d \in Delivery, FallsIdle(d) \/ Age(d) \/ NextDelivery(d)
    PROVE  WitnessInv'
<1> USE DEF WitnessInv
<1>1. CASE FallsIdle(d)
  <2> DEFINE row == [accum[d] EXCEPT !.idle = TRUE]
  <2>1. accum' = [accum EXCEPT ![d] = row] /\ UNCHANGED <<done, frames, passed, reported, cosigned>>
    BY <1>1 DEF FallsIdle
  <2>2. row \in DeliveryAccum /\ row.bytes = Bytes(accum[d])
    BY <1>1, Rows DEF FallsIdle, DeliveryAccum
  <2>3. Bytes(row) = Bytes(accum[d])
    BY <2>2, RowsAreSomething
  <2> HIDE DEF row
  <2> QED BY <2>1, <2>2, <2>3 DEF WitnessTypeOK, WitnessHonest, NoRowOverstates
<1>2. CASE Age(d)
  <2> DEFINE row == [done[d] EXCEPT !.age = @ + 1]
  <2>1. done' = [done EXCEPT ![d] = row] /\ UNCHANGED <<accum, frames, passed, reported, cosigned>>
    BY <1>2 DEF Age
  <2>2. row \in DeliveryDone /\ row.bytes = Bytes(done[d])
    BY <1>2, Rows, WitnessAssumption DEF Age, DeliveryDone
  <2>3. Bytes(row) = Bytes(done[d])
    BY <2>2, RowsAreSomething
  <2> HIDE DEF row
  <2> QED BY <2>1, <2>2, <2>3 DEF WitnessTypeOK, WitnessHonest, NoRowOverstates
<1>3. CASE NextDelivery(d)
  <2>1. accum[d] = Nothing /\ done[d] = Nothing /\ UNCHANGED <<accum, done>>
    BY <1>3 DEF NextDelivery
  <2>2. /\ frames' = [frames EXCEPT ![d] = 0] /\ passed' = [passed EXCEPT ![d] = 0]
        /\ reported' = [reported EXCEPT ![d] = 0] /\ cosigned' = [cosigned EXCEPT ![d] = {}]
    BY <1>3 DEF NextDelivery
  <2>3. WitnessTypeOK'
    BY <2>1, <2>2 DEF WitnessTypeOK
  <2> QED BY <2>1, <2>2, <2>3, RowsAreSomething, WitnessAssumption
          DEF WitnessTypeOK, WitnessHonest, NoRowOverstates
<1> QED BY <1>1, <1>2, <1>3

-----------------------------------------------------------------------------
\* Every step preserves the invariant.
LEMMA WitnessInvStep == WitnessInv /\ [WitnessNext]_witnessVars => WitnessInv'
<1> SUFFICES ASSUME WitnessInv, [WitnessNext]_witnessVars PROVE WitnessInv'
  OBVIOUS
<1>1. CASE UNCHANGED witnessVars
  BY <1>1 DEF witnessVars, WitnessInv, WitnessTypeOK, WitnessHonest, NoRowOverstates
<1>2. CASE reaper_loop
  BY <1>2, ReaperStep
<1>3. ASSUME NEW d \in Delivery, FallsIdle(d) \/ Age(d) \/ NextDelivery(d) PROVE WitnessInv'
  BY <1>3, AgeingStep
<1>4. ASSUME NEW d \in Delivery, NEW sent \in BOOLEAN, on_relay_binary(d, sent) PROVE WitnessInv'
  BY <1>4, FrameStep
<1>5. ASSUME NEW d \in Delivery, NEW s \in Session, NEW agree \in BOOLEAN, proof_cosign(d, s, agree)
      PROVE  WitnessInv'
  BY <1>5, CosignStep
<1> QED BY <1>1, <1>2, <1>3, <1>4, <1>5 DEF WitnessNext

(***************************************************************************)
(* Each byte that went on to a listener is reported once or waits to be,   *)
(* no other is, and every co-signature rests on kCosignMinBytes that went  *)
(* on: for any number of deliveries, frames and sessions and any moment of *)
(* the reaper's pass (on_relay_binary, reaper_loop, proof.cosign).         *)
(***************************************************************************)
THEOREM WitnessAlwaysHonest == WitnessSpec => []WitnessHonest
<1>1. WitnessInit => WitnessInv
  BY WitnessInvInit
<1>2. WitnessInv /\ [WitnessNext]_witnessVars => WitnessInv'
  BY WitnessInvStep
<1>3. WitnessInv => WitnessHonest
  BY DEF WitnessInv
<1> QED BY <1>1, <1>2, <1>3, PTL DEF WitnessSpec

-----------------------------------------------------------------------------
SignedHello == [k : {"hello"}, w : Wallets, p : Peers, ts : Nat]
Bye == [k : {"bye"}, w : Wallets, p : Peers, ts : Nat]

PresenceTypes ==
    /\ now \in Nat /\ now >= Begin
    /\ bind \in [Wallets -> [peer : Peers \cup {None}, verified : Nat, ts : Nat]]
    /\ rev \in [Peers -> Wallets \cup {None}]
    /\ dev \in [Peers -> Device]
    /\ net \subseteq SignedHello \cup Bye
    /\ signed \in [Wallets -> Nat]
    /\ byed \in [Wallets -> Nat]

\* A hello on the way claims no time a device's clock had not yet reached when
\* the wallet last signed (Clock, announce).
FreshOnes == \A m \in net : m.k = "hello" => m.ts <= signed[m.w] + 1

\* A binding in any window was verified within the skew of the last signature
\* (presence_hello); a binding withdrawn is out of every window.
BoundByRecent ==
    \A w \in Wallets : bind[w].verified # 0 => bind[w].verified <= signed[w] + 1 + SKEW

\* Nobody has signed in the node's future.
SignedBefore == \A w \in Wallets : signed[w] <= now

PresenceInv == PresenceTypes /\ FreshOnes /\ BoundByRecent /\ SignedBefore

-----------------------------------------------------------------------------
\* No window holds a wallet that was never verified, or whose bye was accepted:
\* the clock starts later than the longest of them (Begin).
LEMMA LiveIsVerified ==
    ASSUME PresenceTypes, NEW w \in Wallets, Live(w)
    PROVE  bind[w].verified # 0
BY PresenceAssumption DEF PresenceTypes, Live, Begin

\* The inductive invariant gives the bound: TTL for the node's window, SKEW for
\* the check of the time claimed, one unit for a clock that runs ahead.
LEMMA InvFallsOut == PresenceInv => DepartedFallsOut
<1> SUFFICES ASSUME PresenceInv, NEW w \in Wallets, Live(w)
             PROVE  now - signed[w] < SKEW + TTL + 1
  BY DEF DepartedFallsOut
<1>1. bind[w].verified # 0
  BY LiveIsVerified DEF PresenceInv
<1>2. bind[w].verified <= signed[w] + 1 + SKEW
  BY <1>1 DEF PresenceInv, BoundByRecent
<1>3. now - bind[w].verified < TTL
  BY DEF Live
<1>4. now \in Nat /\ bind[w].verified \in Nat /\ signed[w] \in Nat
  BY DEF PresenceInv, PresenceTypes
<1> QED BY <1>2, <1>3, <1>4, PresenceAssumption

\* The initial state: nothing bound, nothing signed, nothing on the way.
LEMMA PresenceInvInit == PresenceInit => PresenceInv
<1> SUFFICES ASSUME PresenceInit PROVE PresenceInv
  OBVIOUS
<1>1. PresenceTypes
  BY PresenceAssumption DEF PresenceInit, PresenceTypes, Begin, Unbound
<1>2. FreshOnes /\ BoundByRecent /\ SignedBefore
  BY PresenceAssumption DEF PresenceInit, FreshOnes, BoundByRecent, SignedBefore, Unbound, Begin
<1> QED BY <1>1, <1>2 DEF PresenceInv

\* announce: the wait is over and the device stamps, signs and sends.
LEMMA AnnounceStep ==
    ASSUME PresenceInv, NEW p \in Peers, announce(p)
    PROVE  PresenceInv'
<1> DEFINE w == dev[p].ann
<1> DEFINE m == [k |-> "hello", w |-> w, p |-> p, ts |-> Clock(p)]
<1> USE DEF PresenceInv, PresenceTypes
<1>0. w \in Wallets
  BY DEF announce, Device
<1>1. Clock(p) \in Nat /\ Clock(p) <= now + 1
  BY DEF Clock
<1>2. dev' \in [Peers -> Device]
  BY DEF announce, Device
<1>3. UNCHANGED <<now, bind, rev, byed>>
  BY DEF announce
<1>4. CASE w = dev[p].wallet
  <2>1. net' = net \cup {m} /\ signed' = [signed EXCEPT ![w] = now]
    BY <1>4, Zenon DEF announce
  <2> HIDE DEF w
  <2>2. m \in SignedHello /\ m.w = w /\ m.ts <= now + 1
    BY <1>0, <1>1 DEF SignedHello
  <2> HIDE DEF m
  <2>3. \A v \in Wallets : signed'[v] \in Nat /\ signed[v] <= signed'[v] /\ signed'[v] <= now
    BY <1>0, <2>1 DEF SignedBefore
  <2>4. PresenceTypes'
    BY <1>0, <1>2, <1>3, <2>1, <2>2
  <2>5. FreshOnes'
    <3> SUFFICES ASSUME NEW x \in net', x.k = "hello"
                 PROVE  x.ts <= signed'[x.w] + 1
      BY DEF FreshOnes
    <3>1. CASE x = m
      BY <3>1, <2>2, <2>1, <1>0
    <3>2. CASE x \in net
      <4>1. x \in SignedHello
        BY <3>2 DEF SignedHello, Bye
      <4>2. x.w \in Wallets /\ x.ts \in Nat /\ x.ts <= signed[x.w] + 1
        BY <3>2, <4>1 DEF FreshOnes, SignedHello
      <4> QED BY <4>2, <2>3
    <3> QED BY <3>1, <3>2, <2>1
  <2>6. BoundByRecent'
    BY <1>3, <2>3, PresenceAssumption DEF BoundByRecent
  <2>7. SignedBefore'
    BY <1>3, <2>3 DEF SignedBefore
  <2> QED BY <2>4, <2>5, <2>6, <2>7
<1>5. CASE w # dev[p].wallet
  <2>1. UNCHANGED <<net, signed>>
    BY <1>5, Zenon DEF announce
  <2> QED BY <1>2, <1>3, <2>1 DEF FreshOnes, BoundByRecent, SignedBefore
<1> QED BY <1>4, <1>5

\* presence.hello: what passes the skew check was signed at most SKEW ago by the
\* node's clock, so the binding it makes is within SKEW of the last signature.
LEMMA HelloStep ==
    ASSUME PresenceInv, NEW m \in net, presence_hello(m)
    PROVE  PresenceInv'
<1> USE DEF PresenceInv, PresenceTypes
<1>1. m \in SignedHello /\ m.w \in Wallets /\ m.p \in Peers /\ m.ts \in Nat
  BY DEF presence_hello, SignedHello, Bye
<1>2. m.ts <= signed[m.w] + 1 /\ now - m.ts <= SKEW
  BY <1>1, PresenceAssumption DEF presence_hello, FreshOnes, Skewed
<1>3. UNCHANGED <<now, dev, net, signed, byed>>
  BY DEF presence_hello
<1>4. /\ bind' = [bind EXCEPT ![m.w] = [peer |-> m.p, verified |-> now, ts |-> m.ts]]
      /\ rev' \in [Peers -> Wallets \cup {None}]
  BY <1>1 DEF presence_hello, Forget
<1>5. PresenceTypes'
  BY <1>1, <1>3, <1>4
<1>6. BoundByRecent'
  BY <1>1, <1>2, <1>3, <1>4, PresenceAssumption DEF BoundByRecent
<1> QED BY <1>3, <1>5, <1>6 DEF FreshOnes, SignedBefore

\* presence.bye: an accepted goodbye takes the binding out of every window.
LEMMA ByeStep ==
    ASSUME PresenceInv, NEW m \in net, presence_bye(m)
    PROVE  PresenceInv'
<1> USE DEF PresenceInv, PresenceTypes
<1>1. m \in Bye /\ m.w \in Wallets /\ m.ts \in Nat
  BY DEF presence_bye, SignedHello, Bye
<1>2. UNCHANGED <<now, dev, net, signed>>
  BY DEF presence_bye
<1>3. byed' \in [Wallets -> Nat]
  BY <1>1 DEF presence_bye
<1>4. CASE Bound(m.w)
  <2>1. /\ bind' = [bind EXCEPT ![m.w].verified = 0, ![m.w].ts = m.ts]
        /\ rev' = Forget(rev, bind[m.w].peer)
    BY <1>4 DEF presence_bye
  <2>2. PresenceTypes'
    BY <1>1, <1>2, <1>3, <2>1 DEF Forget
  <2>3. BoundByRecent'
    BY <1>1, <1>2, <2>1 DEF BoundByRecent
  <2> QED BY <1>2, <2>2, <2>3 DEF FreshOnes, SignedBefore
<1>5. CASE ~Bound(m.w)
  BY <1>2, <1>3, <1>5 DEF presence_bye, FreshOnes, SignedBefore, BoundByRecent
<1> QED BY <1>4, <1>5

\* A step that signs nothing and forgets bindings at most, or lets time pass.
LEMMA ForgetfulStep ==
    ASSUME PresenceInv, UNCHANGED <<net, signed, byed>>,
           now' \in Nat, now' >= now,
           dev' \in [Peers -> Device], rev' \in [Peers -> Wallets \cup {None}],
           bind' \in [Wallets -> [peer : Peers \cup {None}, verified : Nat, ts : Nat]],
           \A w \in Wallets : bind'[w] \in {bind[w], Unbound}
    PROVE  PresenceInv'
<1> USE DEF PresenceInv, PresenceTypes
<1>1. PresenceTypes' /\ FreshOnes'
  BY PresenceAssumption DEF Begin, FreshOnes
<1>2. BoundByRecent'
  BY DEF BoundByRecent, Unbound
<1>3. SignedBefore'
  BY DEF SignedBefore
<1> QED BY <1>1, <1>2, <1>3

\* withdraw puts a bye on the way, never a hello.
LEMMA WithdrawStep ==
    ASSUME PresenceInv, NEW p \in Peers, withdraw(p)
    PROVE  PresenceInv'
<1> USE DEF PresenceInv, PresenceTypes
<1> DEFINE m == [k |-> "bye", w |-> dev[p].bye, p |-> p, ts |-> Clock(p)]
<1>1. dev[p].bye \in Wallets /\ Clock(p) \in Nat
  BY DEF withdraw, Device, Clock
<1>2. m \in Bye /\ m.k # "hello"
  BY <1>1 DEF Bye
<1>3. net' = net \/ net' = net \cup {m}
  BY Zenon DEF withdraw
<1>4. dev' \in [Peers -> Device]
  BY DEF withdraw, Device
<1>5. UNCHANGED <<now, bind, rev, signed, byed>>
  BY DEF withdraw
<1> HIDE DEF m
<1>6. PresenceTypes'
  BY <1>2, <1>3, <1>4, <1>5
<1>7. FreshOnes'
  BY <1>2, <1>3, <1>5 DEF FreshOnes
<1> QED BY <1>5, <1>6, <1>7 DEF BoundByRecent, SignedBefore

-----------------------------------------------------------------------------
\* Every step of the players and of the node preserves the invariant.
LEMMA PresenceInvStep == PresenceInv /\ [PresenceNext]_presenceVars => PresenceInv'
<1> SUFFICES ASSUME PresenceInv, [PresenceNext]_presenceVars PROVE PresenceInv'
  OBVIOUS
<1>0. /\ Unbound \in [peer : Peers \cup {None}, verified : Nat, ts : Nat]
      /\ PresenceTypes
  BY DEF Unbound, PresenceInv
<1>1. ASSUME NEW p \in Peers,
             beat(p) \/ goodbye(p) \/ startHeartbeat(p)
      PROVE  PresenceInv'
  <2>1. UNCHANGED <<now, bind, rev, net, signed, byed>>
    BY <1>1 DEF beat, goodbye, startHeartbeat
  <2>2. dev' \in [Peers -> Device]
    <3>1. CASE beat(p)
      BY <1>0, <3>1 DEF beat, PresenceTypes, Device
    <3>2. CASE goodbye(p)
      <4>1. /\ dev \in [Peers -> Device]
            /\ dev' = [dev EXCEPT ![p] = [@ EXCEPT !.beat = FALSE, !.bye = dev[p].wallet]]
        BY <1>0, <3>2 DEF goodbye, PresenceTypes
      <4>2. [dev[p] EXCEPT !.beat = FALSE, !.bye = dev[p].wallet] \in Device
        BY <4>1 DEF Device
      <4> QED BY <4>1, <4>2
    <3>3. CASE startHeartbeat(p)
      <4>1. dev \in [Peers -> Device] /\ dev' = [dev EXCEPT ![p].beat = TRUE]
        BY <1>0, <3>3 DEF startHeartbeat, PresenceTypes
      <4>2. [dev[p] EXCEPT !.beat = TRUE] \in Device
        BY <4>1 DEF Device
      <4> QED BY <4>1, <4>2
    <3> QED BY <1>1, <3>1, <3>2, <3>3
  <2> QED BY <1>0, <2>1, <2>2, ForgetfulStep DEF PresenceTypes
<1>2. ASSUME NEW p \in Peers, announce(p) PROVE PresenceInv'
  BY <1>2, AnnounceStep
<1>3. ASSUME NEW p \in Peers, withdraw(p) PROVE PresenceInv'
  BY <1>3, WithdrawStep
<1>4. ASSUME NEW p \in Peers, on_peer_disconnected(p) PROVE PresenceInv'
  <2>1. UNCHANGED <<now, dev, net, signed, byed>>
    BY <1>4 DEF on_peer_disconnected
  <2>2. rev' \in [Peers -> Wallets \cup {None}]
    BY <1>0, <1>4 DEF on_peer_disconnected, Forget, PresenceTypes
  <2>3. /\ bind' \in [Wallets -> [peer : Peers \cup {None}, verified : Nat, ts : Nat]]
        /\ \A w \in Wallets : bind'[w] \in {bind[w], Unbound}
    BY <1>0, <1>4 DEF on_peer_disconnected, PresenceTypes
  <2> QED BY <1>0, <2>1, <2>2, <2>3, ForgetfulStep DEF PresenceTypes
<1>5. ASSUME NEW p \in Peers, NEW w \in Wallets, switchWallet(p, w) PROVE PresenceInv'
  <2>1. UNCHANGED <<now, bind, rev, net, signed, byed>>
    BY <1>5 DEF switchWallet
  <2>2. dev' \in [Peers -> Device]
    BY <1>0, <1>5 DEF switchWallet, PresenceTypes, Device
  <2> QED BY <1>0, <2>1, <2>2, ForgetfulStep DEF PresenceTypes
<1>6. ASSUME NEW m \in net, presence_hello(m) PROVE PresenceInv'
  BY <1>6, HelloStep
<1>7. ASSUME NEW m \in net, presence_bye(m) PROVE PresenceInv'
  BY <1>7, ByeStep
<1>8. CASE prune
  <2>1. UNCHANGED <<now, dev, net, signed, byed>>
    BY <1>8 DEF prune
  <2>2. rev' \in [Peers -> Wallets \cup {None}]
    BY <1>0, <1>8 DEF prune, PresenceTypes
  <2>3. /\ bind' \in [Wallets -> [peer : Peers \cup {None}, verified : Nat, ts : Nat]]
        /\ \A w \in Wallets : bind'[w] \in {bind[w], Unbound}
    BY <1>0, <1>8 DEF prune, PresenceTypes
  <2> QED BY <1>0, <2>1, <2>2, <2>3, ForgetfulStep DEF PresenceTypes
<1>9. CASE Restart
  <2>1. UNCHANGED <<now, dev, net, signed, byed>>
    BY <1>9 DEF Restart
  <2> QED BY <1>0, <1>9, <2>1, ForgetfulStep DEF PresenceTypes, Restart
<1>10. CASE Tick
  <2>1. UNCHANGED <<bind, rev, dev, net, signed, byed>> /\ now' = now + 1
    BY <1>10 DEF Tick
  <2> QED BY <1>0, <2>1, ForgetfulStep DEF PresenceTypes
<1>11. CASE UNCHANGED presenceVars
  <2>1. UNCHANGED <<now, bind, rev, dev, net, signed, byed>>
    BY <1>11 DEF presenceVars
  <2> QED BY <1>0, <2>1, ForgetfulStep DEF PresenceTypes
<1> QED
  BY <1>1, <1>2, <1>3, <1>4, <1>5, <1>6, <1>7, <1>8, <1>9, <1>10, <1>11 DEF PresenceNext

(***************************************************************************)
(* A wallet whose devices have stopped signing is out of discovery within  *)
(* SKEW + TTL and the advance of a device's clock, whatever is delayed,    *)
(* repeated, reordered or lost by a restart, for every number of wallets,  *)
(* devices and requests (presence.hello, presence.bye, the prune thread).  *)
(***************************************************************************)
THEOREM DepartedAlwaysFallsOut == PresenceSpec => []DepartedFallsOut
<1>1. PresenceInit => PresenceInv
  BY PresenceInvInit
<1>2. PresenceInv /\ [PresenceNext]_presenceVars => PresenceInv'
  BY PresenceInvStep
<1>3. PresenceInv => DepartedFallsOut
  BY InvFallsOut
<1> QED BY <1>1, <1>2, <1>3, PTL DEF PresenceSpec

=============================================================================
