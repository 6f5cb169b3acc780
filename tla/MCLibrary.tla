----------------------------- MODULE MCLibrary -----------------------------
(***************************************************************************)
(* Two full nodes and a player whose home is one of them.  The mesh never  *)
(* changes what the player sees, except by raising the home node's         *)
(* version, so the player's own races (publishOffline, retries, reruns)    *)
(* are explored while no node has connected or crashed.  The mesh is       *)
(* explored with two deltas on their way, a full one and an empty one:     *)
(* each may reach the home node at any moment.                             *)
(***************************************************************************)
EXTENDS Library

CONSTANTS n1, n2, s1, s2

\* A node has connected or crashed.
Meshing == up # {} \/ flaps > 0 \/ crashes > 0

TwoSent ==
    /\ pub.pc = "wait" /\ off.pc = "wait" /\ pub.a = 0 /\ off.a = 0
    /\ ~pub.rerun /\ lib = pub.set /\ digest = None /\ pub.v = 1

\* The mesh comes alive while both are on their way.
Enter == ~Meshing /\ Meshing' => TwoSent /\ Cardinality(net) = 2 /\ row[Home] = 0

Focus == Meshing => TwoSent /\ flaps + crashes <= 1

=============================================================================
