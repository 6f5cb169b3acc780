---------------------------- MODULE MCGovernance ----------------------------
(***************************************************************************)
(* Values of the constants of Ratings, and so of Governance, for TLC:      *)
(* three wallets, of which w is an artist with money in escrow.  The chain *)
(* starts fresh, with the founder's seat free, or with a founder, an OP    *)
(* and w, who is signed to a label, as no moderator or as a second OP, or  *)
(* with the founder alone.                                                 *)
(***************************************************************************)
EXTENDS Ratings, TLC

CONSTANTS f, o, w, l1

\* The default policy takes two ratings, the other one.
Strict == [min |-> 2, bps |-> 2]
Loose  == [min |-> 1, bps |-> 1]
MCPolicy == {Loose}

Thirds == <<[wallet |-> f, bp |-> 1], [wallet |-> w, bp |-> 2]>>
MCSplits == {Thirds}

Hide    == [kind |-> "HIDE_CONTENT", target |-> 1]
Release == [kind |-> "RELEASE_ESCROW", target |-> w, amount |-> 4]
Retune  == [kind |-> "SET_RATING_THRESHOLD", target |-> Loose]
Op      == [kind |-> "GRANT_MODERATOR", target |-> w, amount |-> OP]
MCMotions == {Hide, Release, Retune, Op}

Fresh == [level |-> f :> NONE @@ o :> NONE @@ w :> NONE, founder |-> NoAddr,
          labels |-> l1 :> <<>>,
          signed |-> f :> NoLabel @@ o :> NoLabel @@ w :> NoLabel]
Staffed == [level |-> f :> FOUNDER @@ o :> OP @@ w :> NONE, founder |-> f,
            labels |-> l1 :> Thirds,
            signed |-> f :> NoLabel @@ o :> NoLabel @@ w :> l1]
Crowded == [Staffed EXCEPT !.level[w] = OP]
Solo == [Staffed EXCEPT !.level[o] = NONE, !.signed[o] = l1, !.signed[w] = NoLabel]
MCGenesis == {Fresh, Staffed, Crowded, Solo}

(***************************************************************************)
(* Songs are rated on the chain whose only moderator is the founder, three *)
(* blocks long: o and w listen, f files hides and policies, which execute  *)
(* at once.  The other chains get two blocks of Governance's transactions. *)
(***************************************************************************)
Rated == db.level = Solo.level /\ db.signed = Solo.signed

Focus ==
    IF Rated
    THEN /\ st'.level = db.level /\ st'.labels = db.labels
         /\ st'.signed = db.signed /\ st'.bal = db.bal
         /\ f \notin {x[2] : x \in stRt'.pp}
         /\ \A p, q \in st'.props : p.by = f /\ (p.motion = q.motion => p = q)
    ELSE UNCHANGED ratingVars /\ (height = 2 => ~applying')

\* Instances of claims that the code does not keep.
ThreeOps == {Crowded}
WithVoices == {[Staffed EXCEPT !.level[o] = VOICE, !.level[w] = VOICE]}

MCEscrow == f :> 0 @@ o :> 0 @@ w :> 5
=============================================================================
