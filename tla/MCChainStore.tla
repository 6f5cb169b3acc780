---- MODULE MCChainStore ----
(***************************************************************************)
(* Small instances of ChainStore, on two trees of eight blocks.            *)
(***************************************************************************)
EXTENDS ChainStore

\* The fork:                  height   1   2   3   4
\*                                     1 - 2 - 3 - 4
\*                                           \ 7
\*                                     1 - 5 - 6 - 8
\* 5 outweighs 3 at a lower height, so that 3 is left above the tip and 4 may
\* arrive on it; 4, 6 and 8 make each branch the heavier one in turn; 3 and 7
\* differ by their timestamps alone.
ForkParent == [b \in Block \ {1} |-> CASE b \in {2, 5} -> 1 [] b = 7 -> 2
                                       [] b = 8 -> 6 [] OTHER -> b - 1]
ForkPlays == [b \in Block |-> CASE b \in {4, 8} -> 3 [] b = 5 -> 2
                                [] b \in {3, 7} -> 1 [] OTHER -> 0]

\* The stairs: 1 - 2 - 3 - 4 - 5, and a heavier block on each of 3, 2 and 1.
StairsParent == [b \in Block \ {1} |-> CASE b = 6 -> 3 [] b = 7 -> 2 [] b = 8 -> 1
                                         [] OTHER -> b - 1]
StairsPlays == [b \in Block |-> IF b > 5 THEN b - 5 ELSE 0]

MCStamp == [b \in Block |-> b]

\* 3 and 6 carry the same song.
MCPayload == [b \in Block |-> IF b = 6 THEN 3 ELSE b]

\* All contiguous runs of at most three blocks.
MCBranch ==
    {s \in UNION {[1..k -> Block \ {1}] : k \in 1..3} :
        \A i \in 2..Len(s) : Parent[s[i]] = s[i - 1]}

\* The last block of the heavier branch does not apply.
TopBad == {8}
NoneBad == {}

\* A checkpoint in 7 pins 2, which keeps the heavier branch out.
PinSound == [b \in {7} |-> [height |-> 2, hash |-> 2]]
\* A checkpoint of the stairs in 5, and one in the branch below the bad block.
NoPins == <<>>
PinStairs == [b \in {5} |-> [height |-> 4, hash |-> 4]]
PinBeforeBad == [b \in {6} |-> [height |-> 2, hash |-> 5]]
====
