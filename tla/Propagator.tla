----------------------------- MODULE Propagator -----------------------------
(***************************************************************************)
(* How blocks travel between full nodes: BlockPropagator (hello, getblocks,*)
(* inv, getdata, data, the apply loop, retries and the gate on announcing) *)
(* on top of the connection callbacks and the job queue of RatsApi.        *)
(*                                                                         *)
(* Three workers take jobs from a queue that drops its oldest entries when *)
(* full, so messages are a set: handled in any order, also after their     *)
(* connection is gone, and some lost.  Two equal messages count as one.    *)
(*                                                                         *)
(* A step is a locked section with what follows it up to the next one that *)
(* other threads can get in between of with an effect: an inv is checked   *)
(* against the chain and queued in two steps, a block is popped and        *)
(* applied in two, announce_new_block reads the count and acts in two.     *)
(*                                                                         *)
(* Simplifications: every block passes its checks, so a reorg succeeds     *)
(* when the branch starts on the current chain and is better (ChainStore   *)
(* has the rest); h: rows outlive reorgs; chains are shorter than ten      *)
(* blocks, so a locator lists all of one and is named by its tip; a timer  *)
(* fires when nothing more can come, and up to MaxFaults times while the   *)
(* answer is still on its way; kHelloCooldown is the debounce's window     *)
(* and never decides; the DHT and the seed dialler are Connect; known and  *)
(* held announcements stay below their caps of thousands.                  *)
(***************************************************************************)
EXTENDS Integers, FiniteSets, Sequences, SequencesExt

CONSTANTS
    Node,
    Block, Parent, Plays,   \* blocks are numbers: by height, then timestamp, then hash
    Zero,           \* the zero hash: prev_hash of a first block, empty tip
    InitTip,        \* node -> tip at the start
    Mintable,       \* node -> the blocks it may produce
    MAX_INV_COUNT, MAX_GETDATA_IN_FLIGHT,
    Lossy,          \* kinds of message that may be lost
    MaxFaults,      \* bound: messages lost and timers that fire early
    MaxEvents       \* bound: blocks minted and connections ended

ASSUME PropagatorAssumption ==
    /\ Block \subseteq Nat /\ Zero \in Block
    /\ Parent \in [Block \ {Zero} -> Block]
    /\ \A b \in Block \ {Zero} : Parent[b] < b
    /\ Plays \in [Block \ {Zero} -> Nat]
    /\ InitTip \in [Node -> Block]
    /\ Mintable \in [Node -> SUBSET Block]
    /\ MAX_INV_COUNT \in Nat \ {0} /\ MAX_GETDATA_IN_FLIGHT \in Nat \ {0}
    /\ MaxFaults \in Nat /\ MaxEvents \in Nat

VARIABLES
    have, tip,      \* h: rows and tip_ of each node's Chain
    up,             \* connections, as pairs of nodes
    stamped,        \* last_connect_handshake_ms_ not older than the debounce
    jobs,           \* messages under way and jobs in rpc_queue_
    peers,          \* peers_
    expected, pending,   \* expected_sequence_ and pending_blocks_
    todo,           \* what each thread has yet to pass to schedule_getdata
    apply,          \* locals of apply_loop
    telling,        \* calls of announce_new_block: node, thread, hash, stage
    held,           \* pending_announce_
    faults, events

chainVars == <<have, tip>>
linkVars == <<up, stamped, events>>
queueVars == <<expected, pending>>
tellVars == <<telling, held>>
vars == <<chainVars, linkVars, jobs, faults, peers, queueVars, todo, apply, tellVars>>

-----------------------------------------------------------------------------
\* Heights start at 1; the zero hash is no block and has no row.
height[b \in Block] == IF b = Zero THEN 0 ELSE height[Parent[b]] + 1
weight[b \in Block] == IF b = Zero THEN 0 ELSE weight[Parent[b]] + Plays[b]
chain[b \in Block] == IF b = Zero THEN {} ELSE chain[Parent[b]] \cup {b}

\* The highest block of a set, with the zero hash for none.
Highest(S) == IF S = {} THEN Zero
              ELSE CHOOSE b \in S : \A c \in S : height[c] <= height[b]

tip_is_better(b, c) ==
    \/ weight[b] > weight[c]
    \/ weight[b] = weight[c] /\ height[b] > height[c]
    \/ weight[b] = weight[c] /\ height[b] = height[c] /\ b > c

PeerState == [height : Nat, weight : Nat, hello : BOOLEAN, full : BOOLEAN,
              known : SUBSET Block, in_flight : SUBSET Block]

NewPeer == [height |-> 0, weight |-> 0, hello |-> FALSE, full |-> FALSE,
            known |-> {}, in_flight |-> {}]

Message == [kind : {"connect", "node_hello"}, from : Node, to : Node]
             \cup [kind : {"hello", "getblocks"}, from : Node, to : Node, tip : Block]
             \cup [kind : {"inv", "news"}, from : Node, to : Node, hashes : Seq(Block)]
             \cup [kind : {"getdata", "data"}, from : Node, to : Node, hash : Block]

Loop == [busy : BOOLEAN, blk : Block, local : Block, did : BOOLEAN]

TypeOK ==
    /\ have \in [Node -> SUBSET Block] /\ tip \in [Node -> Block]
    /\ \A e \in up : e \subseteq Node /\ Cardinality(e) = 2
    /\ stamped \in [Node -> SUBSET Node]
    /\ jobs \subseteq Message
    /\ \A i \in Node : /\ DOMAIN peers[i] \subseteq Node
                       /\ \A j \in DOMAIN peers[i] : peers[i][j] \in PeerState
    /\ expected \in [Node -> Seq(Block)] /\ pending \in [Node -> SUBSET Block]
    /\ todo \in [Node -> SUBSET Seq(Block)]
    /\ apply \in [Node -> Loop]
    /\ telling \subseteq Node \X {"apply", "mint"} \X Block \X {"gate", "hold", "flood"}
    /\ held \in [Node -> SUBSET Block]
    /\ faults \in 0..MaxFaults /\ events \in 0..MaxEvents

Init ==
    /\ tip = InitTip /\ have = [i \in Node |-> chain[InitTip[i]]]
    /\ up = {} /\ stamped = [i \in Node |-> {}] /\ events = 0
    /\ jobs = {} /\ faults = 0
    /\ peers = [i \in Node |-> <<>>]
    /\ expected = [i \in Node |-> <<>>] /\ pending = [i \in Node |-> {}]
    /\ todo = [i \in Node |-> {}]
    /\ apply = [i \in Node |-> [busy |-> FALSE, blk |-> Zero,
                                local |-> Zero, did |-> FALSE]]
    /\ telling = {} /\ held = [i \in Node |-> {}]

-----------------------------------------------------------------------------
Entry(i, j) == IF j \in DOMAIN peers[i] THEN peers[i][j] ELSE NewPeer

\* peers_ of i with j's entry replaced, or created.
WithPeer(i, j, ps) ==
    [peers EXCEPT ![i] = [p \in DOMAIN @ \cup {j} |-> IF p = j THEN ps ELSE @[p]]]

WithoutPeer(ps, j) == [p \in DOMAIN ps \ {j} |-> ps[p]]

\* send_request: nothing reaches a peer that is not connected.
Sent(msgs) == {m \in msgs : {m.from, m.to} \in up}

\* Jobs once m is done and msgs are sent.
After(m, msgs) == (jobs \ {m}) \cup Sent(msgs)

\* The loop, if any, that a thread starts over an unordered set of hashes.
Loops(S) == {{q} \ {<<>>} : q \in SetToSeqs(S)}

\* Append the hashes that are not queued yet.
Queue(q, hashes) ==
    q \o SelectSeq(hashes, LAMBDA h : h \notin Range(q))

GetBlocks(i, j) == [kind |-> "getblocks", from |-> i, to |-> j, tip |-> tip[i]]

\* Better by weight, height as the tiebreak.
Ahead(ps, t) ==
    ps.weight > weight[t] \/ (ps.weight = weight[t] /\ ps.height > height[t])

-----------------------------------------------------------------------------
(***************************************************************************)
(* Connections: on_peer_connected_cb with its debounce on both ends,       *)
(* on_peer_disconnected_cb, and the handshake that a worker does.          *)
(***************************************************************************)
Ends(i, j) == {<<i, j>>, <<j, i>>}

Connect(i, j) ==
    LET greet == {e \in Ends(i, j) : e[2] \notin stamped[e[1]]}
    IN  /\ {i, j} \notin up
        /\ up' = up \cup {{i, j}}
        /\ jobs' = jobs \cup {[kind |-> "connect", from |-> e[2], to |-> e[1]]
                                : e \in greet}
        /\ stamped' = [x \in Node |-> stamped[x]
                          \cup {e[2] : e \in {f \in greet : f[1] = x}}]
        /\ UNCHANGED <<chainVars, events, faults, peers, queueVars, todo, apply,
                       tellVars>>

\* What was received stays queued, the rest is gone.
Disconnect(i, j) ==
    LET other(x) == IF x = i THEN j ELSE i
        between == {m \in jobs : /\ {m.from, m.to} = {i, j}
                                 /\ m.kind \notin {"connect", "news"}}
    IN  /\ {i, j} \in up /\ events < MaxEvents
        /\ events' = events + 1
        /\ up' = up \ {{i, j}}
        /\ \E received \in SUBSET between : jobs' = (jobs \ between) \cup received
        /\ \E li \in Loops(Entry(i, j).in_flight), lj \in Loops(Entry(j, i).in_flight) :
             todo' = [todo EXCEPT ![i] = @ \cup li, ![j] = @ \cup lj]
        /\ peers' = [x \in Node |-> IF x \in {i, j}
                                    THEN WithoutPeer(peers[x], other(x))
                                    ELSE peers[x]]
        /\ UNCHANGED <<chainVars, stamped, faults, queueVars, apply, tellVars>>

\* kConnectDebounceMs have passed.  Only the next connection looks at it, so it
\* may as well expire after the last one has ended.
Expire(i, j) ==
    /\ j \in stamped[i] /\ {i, j} \notin up
    /\ stamped' = [stamped EXCEPT ![i] = @ \ {j}]
    /\ UNCHANGED <<chainVars, up, events, jobs, faults, peers, queueVars, todo,
                   apply, tellVars>>

on_peer_connected(m) ==
    LET i == m.to
        j == m.from
    IN  /\ m.kind = "connect"
        /\ peers' = WithPeer(i, j, Entry(i, j))
        /\ jobs' = After(m, {[kind |-> "hello", from |-> i, to |-> j, tip |-> tip[i]],
                             [kind |-> "node_hello", from |-> i, to |-> j]})
        /\ UNCHANGED <<chainVars, linkVars, faults, queueVars, todo, apply, tellVars>>

-----------------------------------------------------------------------------
(***************************************************************************)
(* Announcing.  do_announce sends an inv of each hash to the peers that do *)
(* not know it, and notes that they do.                                    *)
(***************************************************************************)
Invs(i, table, hashes) ==
    {[kind |-> "inv", from |-> i, to |-> p, hashes |-> <<h>>] :
        p \in DOMAIN table, h \in hashes}

do_announce(i, table, hashes) ==
    {m \in Invs(i, table, hashes) : m.hashes[1] \notin table[m.to].known}

Known(table, hashes) ==
    [p \in DOMAIN table |-> [table[p] EXCEPT !.known = @ \cup hashes]]

full_node_peer_count(i) ==
    Cardinality({p \in DOMAIN peers[i] : peers[i][p].full})

\* announce_new_block reads the gate.
Gate(t) ==
    /\ t \in telling /\ t[4] = "gate"
    /\ telling' = (telling \ {t})
         \cup {<<t[1], t[2], t[3],
                 IF full_node_peer_count(t[1]) = 0 THEN "hold" ELSE "flood">>}
    /\ UNCHANGED <<chainVars, linkVars, jobs, faults, peers, queueVars, todo,
                   apply, held>>

\* It puts the hash aside, under another lock than the count.
Hold(t) ==
    /\ t \in telling /\ t[4] = "hold"
    /\ telling' = telling \ {t}
    /\ held' = [held EXCEPT ![t[1]] = @ \cup {t[3]}]
    /\ UNCHANGED <<chainVars, linkVars, jobs, faults, peers, queueVars, todo, apply>>

\* flush_pending_announce and do_announce.
Flood(t) ==
    LET i == t[1]
        hashes == held[i] \cup {t[3]}
    IN  /\ t \in telling /\ t[4] = "flood"
        /\ telling' = telling \ {t}
        /\ jobs' = jobs \cup Sent(do_announce(i, peers[i], hashes))
        /\ peers' = [peers EXCEPT ![i] = Known(@, hashes)]
        /\ held' = [held EXCEPT ![i] = {}]
        /\ UNCHANGED <<chainVars, linkVars, faults, queueVars, todo, apply>>

\* The producer's own block.
Mint(i, b) ==
    /\ b \in Mintable[i] /\ b \notin have[i]
    /\ Parent[b] = tip[i]
    /\ events < MaxEvents /\ events' = events + 1
    /\ have' = [have EXCEPT ![i] = @ \cup {b}]
    /\ tip' = [tip EXCEPT ![i] = b]
    /\ telling' = telling \cup {<<i, "mint", b, "gate">>}
    /\ UNCHANGED <<up, stamped, jobs, faults, peers, queueVars, todo, apply, held>>

-----------------------------------------------------------------------------
(***************************************************************************)
(* handle_request, one action per verb.  m.to handles, m.from has sent it. *)
(***************************************************************************)
\* Mutant: heights counted from zero.
Hello_zero_based(m) ==
    LET i == m.to
        j == m.from
        ps == [Entry(i, j) EXCEPT !.height = height[m.tip] - 1,
                                  !.weight = weight[m.tip], !.hello = TRUE]
    IN  /\ m.kind = "hello"
        /\ peers' = WithPeer(i, j, ps)
        /\ jobs' = After(m, IF Ahead(ps, tip[i]) THEN {GetBlocks(i, j)} ELSE {})
        /\ UNCHANGED <<chainVars, linkVars, faults, queueVars, todo, apply, tellVars>>

Hello(m) ==
    LET i == m.to
        j == m.from
        ps == [Entry(i, j) EXCEPT !.height = height[m.tip],
                                  !.weight = weight[m.tip], !.hello = TRUE]
    IN  /\ m.kind = "hello"
        /\ peers' = WithPeer(i, j, ps)
        /\ jobs' = After(m, IF Ahead(ps, tip[i]) THEN {GetBlocks(i, j)} ELSE {})
        /\ UNCHANGED <<chainVars, linkVars, faults, queueVars, todo, apply, tellVars>>

\* A new full-node peer gets what was held.
NodeHello(m) ==
    LET i == m.to
        j == m.from
        became == ~Entry(i, j).full
        table == WithPeer(i, j, [Entry(i, j) EXCEPT !.full = TRUE])
        hashes == IF became THEN held[i] ELSE {}
    IN  /\ m.kind = "node_hello"
        /\ jobs' = After(m, do_announce(i, table[i], hashes))
        /\ peers' = [table EXCEPT ![i] = Known(@, hashes)]
        /\ held' = [held EXCEPT ![i] = @ \ hashes]
        /\ UNCHANGED <<chainVars, linkVars, faults, queueVars, todo, apply, telling>>

\* The hashes of the chain at these heights, in order.
HashesAt(t, hs) ==
    SetToSortSeq({b \in chain[t] : height[b] \in hs},
                 LAMBDA b, c : height[b] < height[c])

\* The locator's first hash with an h: row is the fork point.
hashes_after_locator(i, t) ==
    LET fork_height == height[Highest(chain[t] \cap have[i])]
    IN  HashesAt(tip[i], (fork_height + 1)..(fork_height + MAX_INV_COUNT))

GetBlocksHandler(m) ==
    LET out == hashes_after_locator(m.to, m.tip)
    IN  /\ m.kind = "getblocks"
        /\ jobs' = After(m, IF out = <<>> THEN {}
                            ELSE {[kind |-> "inv", from |-> m.to, to |-> m.from,
                                   hashes |-> out]})
        /\ UNCHANGED <<chainVars, linkVars, faults, peers, queueVars, todo, apply,
                       tellVars>>

\* inv: the hashes without a row ...
Inv(m) ==
    LET news == SelectSeq(m.hashes, LAMBDA h : h \notin have[m.to])
    IN  /\ m.kind = "inv"
        /\ jobs' = (jobs \ {m})
             \cup {n \in {[m EXCEPT !.kind = "news", !.hashes = news]} : news # <<>>}
        /\ UNCHANGED <<chainVars, linkVars, faults, peers, queueVars, todo, apply,
                       tellVars>>

\* ... are queued and asked for.
News(m) ==
    LET i == m.to
        j == m.from
        hashes == Range(m.hashes)
    IN  /\ m.kind = "news"
        /\ jobs' = jobs \ {m}
        /\ peers' = WithPeer(i, j, [Entry(i, j) EXCEPT !.known = @ \cup hashes])
        /\ expected' = [expected EXCEPT ![i] = Queue(@, m.hashes)]
        /\ todo' = [todo EXCEPT ![i] = @ \cup {m.hashes}]
        /\ UNCHANGED <<chainVars, linkVars, faults, pending, apply, tellVars>>

GetData(m) ==
    /\ m.kind = "getdata"
    /\ jobs' = After(m, IF m.hash \in have[m.to]
                        THEN {[kind |-> "data", from |-> m.to, to |-> m.from,
                               hash |-> m.hash]}
                        ELSE {})
    /\ UNCHANGED <<chainVars, linkVars, faults, peers, queueVars, todo, apply, tellVars>>

\* With ingest_block_bytes.
Data(m) ==
    LET i == m.to
        j == m.from
    IN  /\ m.kind = "data"
        /\ jobs' = jobs \ {m}
        /\ peers' = IF j \in DOMAIN peers[i]
                    THEN [peers EXCEPT ![i][j].in_flight = @ \ {m.hash}]
                    ELSE peers
        /\ pending' = [pending EXCEPT ![i] = @ \cup {m.hash}]
        /\ expected' = [expected EXCEPT ![i] = Queue(@, <<m.hash>>)]
        /\ UNCHANGED <<chainVars, linkVars, faults, todo, apply, tellVars>>

\* Lost on the way, or dropped by a full rpc_queue_.
Lose(m) ==
    /\ m.kind \in Lossy /\ faults < MaxFaults
    /\ faults' = faults + 1
    /\ jobs' = jobs \ {m}
    /\ UNCHANGED <<chainVars, linkVars, peers, queueVars, todo, apply, tellVars>>

-----------------------------------------------------------------------------
(***************************************************************************)
(* schedule_getdata.  It goes through an unordered map and stops at the    *)
(* first peer that is asked already or can be.                             *)
(***************************************************************************)
HasRoom(ps) == Cardinality(ps.in_flight) < MAX_GETDATA_IN_FLIGHT

Asked(i, h) == {p \in DOMAIN peers[i] : h \in peers[i][p].in_flight}

Knowing(i, h) == {p \in DOMAIN peers[i] : h \in peers[i][p].known /\ HasRoom(peers[i][p])}

LeastLoaded(i) ==
    {p \in DOMAIN peers[i] :
        /\ HasRoom(peers[i][p])
        /\ \A q \in DOMAIN peers[i] :
             Cardinality(peers[i][p].in_flight) <= Cardinality(peers[i][q].in_flight)}

Candidates(i, h) == IF Asked(i, h) = {} /\ Knowing(i, h) = {} THEN LeastLoaded(i)
                    ELSE Knowing(i, h) \ Asked(i, h)

schedule_getdata(i, q) ==
    LET h == Head(q)
    IN  /\ todo' = [todo EXCEPT ![i] = (@ \ {q}) \cup ({Tail(q)} \ {<<>>})]
        /\ \/ /\ h \in have[i] \/ Asked(i, h) # {} \/ Candidates(i, h) = {}
              /\ UNCHANGED <<peers, jobs>>
           \/ /\ h \notin have[i]
              /\ \E p \in Candidates(i, h) :
                   /\ peers' = [peers EXCEPT ![i][p].in_flight = @ \cup {h}]
                   /\ jobs' = jobs \cup Sent({[kind |-> "getdata", from |-> i, to |-> p,
                                               hash |-> h]})
        /\ UNCHANGED <<chainVars, linkVars, faults, queueVars, apply, tellVars>>

\* A timer of i goes off; early if one of these kinds is still to be handled.
Timer(i, kinds) ==
    LET late == {m \in jobs : m.kind \in kinds /\ i \in {m.from, m.to}}
    IN  IF late = {} THEN faults' = faults
        ELSE faults < MaxFaults /\ faults' = faults + 1

\* stall_loop: kGetdataStall have passed for p.
Stall(i, p) ==
    /\ p \in DOMAIN peers[i] /\ peers[i][p].in_flight # {}
    /\ Timer(i, {"getdata", "data"})
    /\ \E loop \in Loops(peers[i][p].in_flight) :
         todo' = [todo EXCEPT ![i] = @ \cup loop]
    /\ peers' = [peers EXCEPT ![i][p].in_flight = {}]
    /\ UNCHANGED <<chainVars, linkVars, jobs, queueVars, apply, tellVars>>

-----------------------------------------------------------------------------
(***************************************************************************)
(* apply_loop.  Its thread announces what it applied before it goes on.    *)
(***************************************************************************)
Idle(i) ==
    /\ ~apply[i].busy
    /\ \A t \in telling : t[1] = i => t[2] # "apply"

HeadArrived(i) == expected[i] # <<>> /\ Head(expected[i]) \in pending[i]

Pop(i) ==
    /\ Idle(i) /\ HeadArrived(i)
    /\ apply' = [apply EXCEPT ![i] = [busy |-> TRUE, blk |-> Head(expected[i]),
                                      local |-> tip[i], did |-> @.did]]
    /\ pending' = [pending EXCEPT ![i] = @ \ {Head(expected[i])}]
    /\ expected' = [expected EXCEPT ![i] = Tail(@)]
    /\ UNCHANGED <<chainVars, linkVars, jobs, faults, peers, todo, tellVars>>

\* Walking back from b: the first ancestor with a row, and what lies between.
ForkPoint(i, b) == Highest((chain[b] \ {b}) \cap have[i])

Between(i, b) == {c \in chain[b] \ {b} : height[c] > height[ForkPoint(i, b)]}

\* The blocks the walk picks up.
Branch(i, b) == (Between(i, b) \cap pending[i]) \cup {b}

\* Mutant: a missing ancestor ends the walk, not the attempt.
FoundFork_gaps(i, b) == ForkPoint(i, b) # Zero

FoundFork(i, b) == ForkPoint(i, b) # Zero /\ Between(i, b) \subseteq pending[i]

\* Mutant: compared with the tip as it was when the block was taken.
Adopted_stale(i, b) ==
    /\ FoundFork(i, b)
    /\ ForkPoint(i, b) \in chain[tip[i]]
    /\ tip_is_better(b, apply[i].local)

\* reorg_to_branch.
Adopted(i, b) ==
    /\ FoundFork(i, b)
    /\ ForkPoint(i, b) \in chain[tip[i]]
    /\ tip_is_better(b, tip[i])

Applied(i, b, blocks) ==
    /\ have' = [have EXCEPT ![i] = @ \cup blocks]
    /\ tip' = [tip EXCEPT ![i] = b]
    /\ pending' = [pending EXCEPT ![i] = @ \ blocks]
    /\ apply' = [apply EXCEPT ![i].busy = FALSE, ![i].did = TRUE]
    /\ telling' = telling \cup {<<i, "apply", b, "gate">>}

ApplyBlock(i) ==
    LET b == apply[i].blk
        extends == Parent[b] = apply[i].local
        connects == extends /\ Parent[b] = tip[i]   \* connect_block looks again
        reorgs == ~extends /\ Adopted(i, b)
    IN  /\ apply[i].busy
        /\ \/ connects /\ Applied(i, b, {b})
           \/ reorgs /\ Applied(i, b, Branch(i, b))
           \/ /\ ~connects /\ ~reorgs
              /\ apply' = [apply EXCEPT ![i].busy = FALSE]
              /\ UNCHANGED <<chainVars, pending, telling>>
        /\ UNCHANGED <<linkVars, jobs, faults, peers, expected, todo, held>>

\* Mutant: only after a block was applied.
FollowUp_applied(i) ==
    /\ Idle(i) /\ ~HeadArrived(i) /\ apply[i].did
    /\ apply' = [apply EXCEPT ![i].did = FALSE]
    /\ jobs' = jobs \cup Sent({GetBlocks(i, p) : p \in
                   {q \in DOMAIN peers[i] : /\ peers[i][q].hello
                                            /\ Ahead(peers[i][q], tip[i])
                                            /\ peers[i][q].in_flight = {}}})
    /\ UNCHANGED <<chainVars, linkVars, faults, peers, queueVars, todo, tellVars>>

\* The continuation, when the inner loop stops: at once after a block, or when
\* the wait has timed out.
FollowUp(i) ==
    LET followups == {p \in DOMAIN peers[i] : /\ peers[i][p].hello
                                              /\ Ahead(peers[i][p], tip[i])
                                              /\ peers[i][p].in_flight = {}}
    IN  /\ Idle(i) /\ ~HeadArrived(i)
        /\ \/ apply[i].did /\ UNCHANGED faults
           \/ /\ ~apply[i].did /\ expected[i] = <<>> /\ followups # {}
              /\ Timer(i, {"getblocks", "inv", "news"})
        /\ apply' = [apply EXCEPT ![i].did = FALSE]
        /\ jobs' = jobs \cup Sent({GetBlocks(i, p) : p \in followups})
        /\ UNCHANGED <<chainVars, linkVars, peers, queueVars, todo, tellVars>>

-----------------------------------------------------------------------------
Handle(m) ==
    \/ on_peer_connected(m)
    \/ Hello(m)
    \/ NodeHello(m)
    \/ GetBlocksHandler(m)
    \/ Inv(m)
    \/ News(m)
    \/ GetData(m)
    \/ Data(m)

Next ==
    \/ \E i, j \in Node : i # j /\ (Connect(i, j) \/ Disconnect(i, j) \/ Expire(i, j))
    \/ \E m \in jobs : Handle(m) \/ Lose(m)
    \/ \E t \in telling : Gate(t) \/ Hold(t) \/ Flood(t)
    \/ \E i \in Node, b \in Block \ {Zero} : Mint(i, b)
    \/ \E i \in Node : \/ Pop(i) \/ ApplyBlock(i) \/ FollowUp(i)
                       \/ \E q \in todo[i] : schedule_getdata(i, q)
                       \/ \E p \in Node : Stall(i, p)

Spec == Init /\ [][Next]_vars

\* The jobs of a node that are served in turn: rpc_queue_ is first in, first out.
Lane(i, k, h) == {m \in jobs : m.to = i /\ m.kind = k
                               /\ (k \in {"getdata", "data"} => m.hash = h)}

Kinds == {"connect", "hello", "node_hello", "getblocks", "inv", "news", "getdata", "data"}

\* Every loop and worker runs on, and a dropped peer is dialled again.
Fairness ==
    /\ \A i \in Node : /\ WF_vars(Pop(i))
                       /\ WF_vars(ApplyBlock(i))
                       /\ WF_vars(FollowUp(i))
                       /\ WF_vars(\E t \in telling : t[1] = i /\ (Gate(t) \/ Hold(t) \/ Flood(t)))
    /\ \A i, j \in Node : /\ WF_vars(i # j /\ Connect(i, j))
                          /\ WF_vars(Stall(i, j))
    /\ \A i \in Node, h \in Block :
         /\ WF_vars(\E q \in todo[i] : Head(q) = h /\ schedule_getdata(i, q))
         /\ \A k \in Kinds : WF_vars(\E m \in Lane(i, k, h) : Handle(m))

FairSpec == Spec /\ Fairness

-----------------------------------------------------------------------------
\* A node serves the whole chain behind its tip, in whatever order blocks came
\* in and branches were put together from pending_blocks_.
ChainComplete == \A i \in Node : chain[tip[i]] \subseteq have[i]

\* A tip is only ever replaced by a better one, although the apply loop decides
\* on a tip that the producer may have moved since it was read.
TipsImprove == [][\A i \in Node : tip'[i] # tip[i] => tip_is_better(tip'[i], tip[i])]_vars

\* i knows that j is ahead.
Behind(i, j) == j \in DOMAIN peers[i] /\ peers[i][j].hello /\ Ahead(peers[i][j], tip[i])

\* The queue waits for a block that nobody is asked for or about to be.
Wedged(i) ==
    /\ expected[i] # <<>> /\ ~HeadArrived(i)
    /\ \A q \in todo[i] : Head(expected[i]) \notin Range(q)
    /\ Asked(i, Head(expected[i])) = {}

\* A joining node that knows a peer to be ahead does not stay behind it, whatever
\* inv, getblocks, getdata or data is lost and whenever the stall timer of
\* stall_loop fires, unless the head of its queue is a block nobody will send.
BehindOnlyIfWedged == \A i, j \in Node : []<>(~Behind(i, j) \/ Wedged(i))

\* Nodes do not stay behind a peer they know to be ahead: the continuation in
\* apply_loop "drives multi-batch catch-up to completion without external
\* nudges", and by the hello handler "a heavier-but-shorter chain must still pull
\* us".
CatchesUp == \A i, j \in Node : []<>~Behind(i, j)

\* Minted blocks reach everyone: once the producers are done the nodes are on one
\* tip, as announce_new_block holds a hash only until a full-node peer appears.
Converges == <>[](\A i, j \in Node : tip[i] = tip[j])

=============================================================================
