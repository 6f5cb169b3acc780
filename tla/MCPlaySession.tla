---------------------------- MODULE MCPlaySession ----------------------------
(* Small instances of PlaySession for TLC.                                  *)
EXTENDS PlaySession, TLC

CONSTANTS a, b, d1, x, one, two, pa, pb

\* One song, published by both wallets.
Published == [s \in Songs |-> Wallets]

\* Both are online at the start.
BothOnline == [z \in Peers |-> IF z = pa THEN a ELSE b]

\* Every proof a session of these requests can give.
ProofSet ==
    [sid : Sessions, player : Wallets, song : Songs, did : Deliveries \cup {None},
     seeder : Wallets \cup {None}, mini : Minis \cup {None}, build : 1..2]

Req(p, s, dev, did) == [player |-> p, song |-> s, dev |-> dev, did |-> did]

\* Sessions of one listener that present the same delivery.
SameStream == {Req(a, one, x, d1)}
NoStream == {Req(a, one, x, None)}
\* A device with a delivery, a wallet without one.
Mixed == {Req(a, one, x, d1), Req(b, one, None, None)}

\* Silence, restarts and settlements are explored without deliveries, silence in
\* the first epoch and restarts with batches; deliveries and presence with one
\* prompt session and call, and no mint mined.
Focus ==
    /\ restarts > 0 => batch
    /\ epoch > 1 => ~reaping /\ \A s \in Sessions : Known(s) => ~sessions[s].silent
    /\ minted \cup 1..changes # {} =>
        /\ minted # {} /\ ~batch /\ epoch = 1 /\ ~reaping
        /\ pool = {Mint(z) : z \in published}
        /\ \A s \in Sessions : Known(s) => ~sessions[s].silent
        /\ Cardinality(started) <= 1
        /\ Cardinality({w \in Workers : calls[w] # None}) <= 1

\* Sessions are alike, and so are workers.
Alike == Permutations(Sessions) \cup Permutations(Workers)

=============================================================================
