------------------------------ MODULE Ratings ------------------------------
(***************************************************************************)
(* Listener ratings and the display mask they may set: the RATING branch   *)
(* of Chain::apply_transactions in one block with the transactions of      *)
(* Governance, whose proposals set the policy and the mask too, and beside *)
(* the third writer of the mask, moderation envelopes.                     *)
(*                                                                         *)
(* A block is applied under Chain::mu_; RatsApi applies a moderation       *)
(* envelope on a network thread with a batch of its own and takes no lock, *)
(* so it may fall between two transactions of a block.                     *)
(*                                                                         *)
(* Fields of rt (committed) and stRt (once the open batch commits):        *)
(*   pp     pp: rows <<song, wallet>>    rating rv: rows (0: none)         *)
(*   up, down  rc: rows                                                    *)
(*   rh     rh: rows, NotHidden or the counts and policy in force          *)
(* mask is the d: table, with who set the row; autoHides the d: rows that  *)
(* ratings set in the open batch; exempt the rx: table.                    *)
(***************************************************************************)
EXTENDS Governance

CONSTANTS
    DefaultPolicy,
    RATIO_ONE      \* 10000 basis points

UP == 1
DOWN == 2

RatingPolicy == [min : Nat, bps : Nat]

ASSUME RatingsAssumption ==
    /\ Policy \subseteq RatingPolicy
    /\ DefaultPolicy \in RatingPolicy
    /\ RATIO_ONE \in Nat \ {0}

VARIABLES rt, stRt,
          played,    \* plays_in_block_
          mask, autoHides, exempt

ratingVars == <<rt, stRt, played, mask, autoHides, exempt>>
allVars == <<vars, ratingVars>>

NotHidden == [up |-> 0, down |-> 0, policy |-> DefaultPolicy]
RatingHide == [up : Nat, down : Nat, policy : RatingPolicy]

Masks == {"none", "ratings", "moderators"}

RatingRows == [pp : SUBSET (Content \X Address),
               rating : [Content \X Address -> 0..2],
               up : [Content -> Nat], down : [Content -> Nat],
               rh : [Content -> RatingHide]]

RatingsTypeOK ==
    /\ TypeOK
    /\ rt \in RatingRows /\ stRt \in RatingRows
    /\ played \in SUBSET (Content \X Address)
    /\ mask \in [Content -> Masks] /\ autoHides \in SUBSET Content
    /\ exempt \in SUBSET Content

RatingsInit ==
    /\ Init
    /\ rt = [pp |-> {}, rating |-> [x \in Content \X Address |-> 0],
             up |-> [s \in Content |-> 0], down |-> [s \in Content |-> 0],
             rh |-> [s \in Content |-> NotHidden]]
    /\ stRt = rt
    /\ played = {}
    /\ mask = [s \in Content |-> "none"]
    /\ autoHides = {}
    /\ exempt = {}

BeginBlock ==
    /\ Begin
    /\ stRt' = rt
    /\ played' = {}
    /\ autoHides' = {}
    /\ UNCHANGED <<rt, mask, exempt>>

CommitBlock ==
    /\ Commit
    /\ rt' = stRt
    /\ mask' = [s \in Content |-> CASE s \in autoHides -> "ratings"
                                    [] s \in st.hides \ autoHides -> "moderators"
                                    [] OTHER -> mask[s]]
    /\ UNCHANGED <<stRt, played, autoHides, exempt>>

DropBlock ==
    /\ Drop
    /\ stRt' = rt
    /\ autoHides' = {}
    /\ UNCHANGED <<rt, played, mask, exempt>>

WaitForBlock == Wait /\ UNCHANGED ratingVars

\* A transaction of Governance touches no rating row.
Moderate == GovernanceTx /\ UNCHANGED ratingVars

-----------------------------------------------------------------------------
\* What apply_mint and apply_settlement_mint do for ratings: the pp: row and
\* its block-scoped copy.
CreditPlay(s, a) ==
    /\ NoNonceUsed
    /\ stRt' = [stRt EXCEPT !.pp = @ \cup {<<s, a>>}]
    /\ played' = played \cup {<<s, a>>}
    /\ UNCHANGED <<govVars, rt, mask, autoHides, exempt>>

\* get_rating_policy: the committed row, or the default.
rating_policy == IF db.policy = NoAddr THEN DefaultPolicy ELSE db.policy

rating_hide_triggers(up, down, policy) ==
    /\ up + down > 0
    /\ up + down >= policy.min
    /\ down * RATIO_ONE >= (up + down) * policy.bps

\* Mutant: anybody's play of the song opens the gate.
has_play_credit_any(s, a) == \E b \in Address : <<s, b>> \in rt.pp \cup played

has_play_credit(s, a) == <<s, a>> \in rt.pp \cup played

\* Mutant: a verdict of the other kind is taken off unconditionally.
Leave_any(count, prior, column) == IF prior # 0 THEN count - 1 ELSE count

\* A rating leaves the column of the wallet's earlier verdict, if it had one.
Leave(count, prior, column) ==
    IF prior = column /\ count > 0 THEN count - 1 ELSE count

AutoHide(s, up, down) ==
    /\ rt.rh[s] = NotHidden
    /\ rating_hide_triggers(up, down, rating_policy)

(***************************************************************************)
(* apply_rating.  The wallet's earlier verdict, the counts, the latch, the *)
(* policy and the exemption are all read from committed rows.              *)
(***************************************************************************)
apply_rating(a, s, value, n) ==
    LET prior  == rt.rating[<<s, a>>]
        same   == prior = value
        up     == IF same THEN rt.up[s]
                  ELSE Leave(rt.up[s], prior, UP)
                         + (IF value = UP THEN 1 ELSE 0)
        down   == IF same THEN rt.down[s]
                  ELSE Leave(rt.down[s], prior, DOWN)
                         + (IF value = DOWN THEN 1 ELSE 0)
        hides  == AutoHide(s, up, down)
        record == [up |-> up, down |-> down, policy |-> rating_policy]
    IN  /\ UseNonce(a, n)
        /\ has_play_credit(s, a)
        /\ stRt' = [stRt EXCEPT !.rating[<<s, a>>] = value,
                            !.up[s] = IF same THEN @ ELSE up,
                            !.down[s] = IF same THEN @ ELSE down,
                            !.rh[s] = IF hides THEN record ELSE @]
        /\ autoHides' = IF hides /\ s \notin exempt
                        THEN autoHides \cup {s} ELSE autoHides
        /\ UNCHANGED <<govVars, rt, played, mask, exempt>>

-----------------------------------------------------------------------------
(***************************************************************************)
(* moderation::apply of a hide_hash or unhide_hash envelope and the write  *)
(* of its batch, at any time.                                              *)
(***************************************************************************)
Envelope(s, hide) ==
    /\ mask' = [mask EXCEPT ![s] = IF hide THEN "moderators" ELSE "none"]
    /\ exempt' = IF hide THEN exempt \ {s} ELSE exempt \cup {s}
    /\ UNCHANGED <<vars, rt, stRt, played, autoHides>>

-----------------------------------------------------------------------------
RatingsNext ==
    \/ BeginBlock
    \/ CommitBlock
    \/ DropBlock
    \/ WaitForBlock
    \/ Moderate
    \/ \E s \in Content :
          \/ \E hide \in BOOLEAN : Envelope(s, hide)
          \/ \E a \in Address : CreditPlay(s, a)
          \/ \E a \in Address, value \in {UP, DOWN}, n \in Nonces :
                apply_rating(a, s, value, n)

RatingsSpec == RatingsInit /\ [][RatingsNext]_allVars

-----------------------------------------------------------------------------
(***************************************************************************)
(* A verdict is on the chain only if a credited play of that song by that  *)
(* wallet is: the gate reads committed plays and the plays of the open     *)
(* block, and both rows commit or fall together (apply_rating).            *)
(***************************************************************************)
RatedOnlyIfPlayed ==
    \A s \in Content, a \in Address : rt.rating[<<s, a>>] # 0 => <<s, a>> \in rt.pp

(***************************************************************************)
(* The claims of comments that the code does not keep.                     *)
(***************************************************************************)

\* Both counts are "DISTINCT WALLETS": a wallet's verdict replaces its earlier
\* one and never stacks.
CountsAreWallets ==
    \A s \in Content :
       rt.up[s] + rt.down[s]
         <= Cardinality({a \in Address : rt.rating[<<s, a>>] # 0})

\* "Human review is final": ratings do not mask a song a moderator unhid.
HumanReviewFinal == \A s \in exempt : mask[s] # "ratings"
=============================================================================
