---------------------------- MODULE PlayPromise ----------------------------
(***************************************************************************)
(* What a serving node promises of the plays it attests: it publishes one  *)
(* proof per session at most, and the reward lanes of a proof name a relay *)
(* and a seeder that were witnessed for that song, in a delivery that was  *)
(* not opened by somebody else.                                            *)
(***************************************************************************)
EXTENDS Naturals

CONSTANTS Proofs, Witnesses, None

VARIABLES published, witnessed

Init == published = {} /\ witnessed = {}

Observe(ws) ==
    /\ ws \subseteq Witnesses
    /\ witnessed' = witnessed \cup ws
    /\ UNCHANGED published

Backs(w, p) ==
    /\ w.did = p.did /\ w.song = p.song /\ w.mini = p.mini
    /\ w.listener \in {p.player, None}
    /\ p.seeder \in {w.seeder, None} \ {p.player}

Publish(p) ==
    /\ \A q \in published : q.sid # p.sid
    /\ p.mini # None => \E w \in witnessed : Backs(w, p)
    /\ p.mini = None => p.seeder = None
    /\ published' = published \cup {p}
    /\ UNCHANGED witnessed

Next == (\E ws \in SUBSET Witnesses : Observe(ws)) \/ (\E p \in Proofs : Publish(p))

Spec == Init /\ [][Next]_<<published, witnessed>>

=============================================================================
