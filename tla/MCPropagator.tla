---------------------------- MODULE MCPropagator ----------------------------
(* Small networks for TLC.                                                  *)
EXTENDS Propagator

\* Blocks 1-2-4 are a chain, 3 is a lighter sibling of 2, with a child 5.
Tree == (1 :> 0) @@ (2 :> 1) @@ (3 :> 1) @@ (4 :> 2) @@ (5 :> 3)
Heard == [b \in 1..5 |-> IF b = 1 THEN 0 ELSE IF b \in {2, 5} THEN 2 ELSE 1]

\* Node 1 has two blocks, node 2 none; nobody mints.
Fresh == (1 :> 2) @@ (2 :> 0)
NobodyMints == (1 :> {}) @@ (2 :> {})

\* Both have the first block, and node 1 mints on.
Even == (1 :> 1) @@ (2 :> 1)
OneMints == (1 :> {2, 4}) @@ (2 :> {})

\* Siblings; each node mints on its own, and 5 outweighs 2.
Siblings == (1 :> 2) @@ (2 :> 3)
BothMint == (1 :> {4}) @@ (2 :> {5})

\* Node 1 is on 4, node 2 on 3.
Forked == (1 :> 4) @@ (2 :> 3)

\* 2 alone does not outweigh 3, with 4 it does.
HeardLate == [b \in 1..5 |-> CASE b = 3 -> 1 [] b = 4 -> 3 [] OTHER -> 0]

=============================================================================
