---- MODULE MCProducer ----
(***************************************************************************)
(* Small instances of Producer.                                            *)
(***************************************************************************)
EXTENDS Producer

Metered(a, n) == [sender |-> a, nonce |-> n, hash |-> 1, kind |-> "metered"]
Reward(a, n) == [sender |-> a, nonce |-> n, hash |-> 1, kind |-> "reward"]
Settlement == [sender |-> 1, nonce |-> 0, hash |-> 2, kind |-> "system"]

\* A run of nonces with an exempt tail.
MCRun == {Metered(1, 0), Metered(1, 1), Reward(1, 2)}

\* A transaction without funds, alone and beside a settlement.
MCPoison == {Metered(2, 0)}
MCMixed == {Settlement} \cup MCPoison

\* All of them. A behaviour has the run, submitted before the first tick, or
\* the settlement, each with one song and at most one block of a peer; or it
\* has the poison with two encodings of one song, restarts and more peers. What
\* is left out are inputs, never a step of the producer.
MCAll == MCRun \cup MCMixed
Inputs == DOMAIN mempool \cup landed
Focus ==
    \/ Inputs \subseteq MCPoison
    \/ /\ Inputs \subseteq MCRun \/ Inputs \subseteq {Settlement}
       /\ DOMAIN sp \cup DOMAIN songs \cup catalog \subseteq {1}
       /\ peers <= 1 /\ restarts = 0
Early == (DOMAIN mempool' \ DOMAIN mempool) \cap MCRun # {} => now = 0

MCPair == {Metered(1, 0), Metered(1, 1)}
MCSystem == {Settlement}
MCNoPoison == {}
MCIndependent == [t \in Tx |-> {}]

MCAlike == {{1, 2}}
MCDistinct == {}
====
