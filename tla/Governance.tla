----------------------------- MODULE Governance -----------------------------
(***************************************************************************)
(* Moderators, proposals and votes: the MODERATOR_OP and                   *)
(* MODERATOR_PROPOSAL branches of Chain::apply_transactions.               *)
(*                                                                         *)
(* As in BlockLedger, db is what db_.get sees and st what the open batch   *)
(* will commit.  Only the votes of the open block (proposal_votes_in_block_)*)
(* and the balances (the Ledger overlay) are read through staging; levels, *)
(* proposals, their status, committed votes and labels are read from db.   *)
(*                                                                         *)
(* Fields of db and st:                                                    *)
(*   level   mlvl: rows               founder  founder row                 *)
(*   props   prop: rows               executed propstatus: rows            *)
(*   votes   propvote: rows           hides    d: rows set by the block's  *)
(*   policy  rt:cur                            HIDE_CONTENT proposals      *)
(*   labels  label: rows                                                   *)
(*   signed  art_label: rows          bal      a: rows                     *)
(*   released history: escrow released per artist                          *)
(*   reran    history: proposals whose action ran a second time            *)
(*   lapsed   history: proposals that ran without a majority of votes from *)
(*            the moderators in office                                     *)
(*   elsewhere history: escrow paid to another wallet than the artist's    *)
(***************************************************************************)
EXTENDS BlockScope, FiniteSets, Functions, Sequences

CONSTANTS
    Content,        \* content hashes
    Policy,         \* packed rating policies within bounds
    Label, NoLabel,
    SplitList,      \* the split lists a label_define may carry
    BP,             \* 10000 basis points
    Motions,        \* what proposals ask for
    Pinned,         \* PINNED_FOUNDER_ADDRESS, NoAddr when unpinned
    Genesis,        \* the positions a prefix of the chain may have left
    GenesisEscrow   \* escrow balances at the start

NONE == 0
VOICE == 1
OP == 2
FOUNDER == 3

\* A ProposalTx other than VOTE_YES, without proposer and nonce.  The fields
\* a kind does not use must be zero, so they are left out.
Motion ==
    [kind : {"HIDE_CONTENT"}, target : Content]
      \cup [kind : {"RELEASE_ESCROW"}, target : Address, amount : Nat \ {0}]
      \cup [kind : {"SET_RATING_THRESHOLD"}, target : Policy]
      \cup [kind : {"GRANT_MODERATOR"}, target : Address, amount : {VOICE, OP}]

\* The tx hash that names a proposal covers proposer and nonce.
Proposal == [by : Address, nonce : Nonces, motion : Motions]

SplitEntry == [wallet : Address, bp : 1..BP]

\* An address is 20 bytes: there are finitely many.
ASSUME GovernanceAssumption ==
    /\ IsFiniteSet(Address)
    /\ BP \in Nat \ {0}
    /\ Motions \subseteq Motion
    /\ NoLabel \notin Label
    /\ SplitList \subseteq Seq(SplitEntry)
    /\ Pinned \in Maybe
    /\ Genesis \subseteq [level : [Address -> NONE..FOUNDER], founder : Maybe,
                           labels : [Label -> SplitList \cup {<<>>}],
                           signed : [Address -> Label \cup {NoLabel}]]
    /\ \A g \in Genesis : g.founder # NoAddr => g.level[g.founder] = FOUNDER
    /\ GenesisEscrow \in [Address -> Nat]

VARIABLES db, st,
          cast      \* proposal_votes_in_block_, as <<proposal, voter>> pairs

govVars == <<db, st, cast>>
vars == <<scopeVars, govVars>>

Rows == [level : [Address -> NONE..FOUNDER], founder : Maybe,
         props : SUBSET Proposal, executed : SUBSET Proposal,
         votes : SUBSET (Proposal \X Address), hides : SUBSET Content,
         policy : Policy \cup {NoAddr},
         labels : [Label -> SplitList \cup {<<>>}],
         signed : [Address -> Label \cup {NoLabel}],
         bal : [Account -> Nat], released : [Address -> Nat],
         reran : SUBSET Proposal, lapsed : SUBSET Proposal, elsewhere : Nat]

TypeOK ==
    /\ ScopeTypeOK
    /\ db \in Rows
    /\ st \in Rows
    /\ cast \in SUBSET (Proposal \X Address)

\* The chain as a prefix left it; NoAddr stands for the default policy and the
\* empty split list for a label that is not defined.
Init ==
    /\ ScopeInit
    /\ \E g \in Genesis :
          db = [level |-> g.level, founder |-> g.founder,
                props |-> {}, executed |-> {}, votes |-> {}, hides |-> {},
                policy |-> NoAddr, labels |-> g.labels, signed |-> g.signed,
                bal |-> [x \in Account |->
                           IF x[1] = "escrow" /\ x[2] # NoAddr
                           THEN GenesisEscrow[x[2]] ELSE 0],
                released |-> [a \in Address |-> 0],
                reran |-> {}, lapsed |-> {}, elsewhere |-> 0]
    /\ st = db
    /\ cast = {}

Begin ==
    /\ OpenScope
    /\ st' = [db EXCEPT !.hides = {}]
    /\ cast' = {}
    /\ UNCHANGED db

Commit ==
    /\ CommitScope
    /\ db' = st
    /\ UNCHANGED <<st, cast>>

Drop ==
    /\ DropScope
    /\ st' = db
    /\ UNCHANGED <<db, cast>>

Wait == Idle /\ UNCHANGED govVars

-----------------------------------------------------------------------------
(***************************************************************************)
(* apply_moderator_op.  The bootstrap self-grant is the only GRANT left;   *)
(* REVOKE and the two label edits take the founder's level.                *)
(***************************************************************************)
BootstrapGrant_any(a, n) ==   \* mutant: a seat that is taken can be claimed
    /\ UseNonce(a, n)
    /\ Pinned \in {NoAddr, a}
    /\ st' = [st EXCEPT !.level[a] = FOUNDER, !.founder = a]
    /\ UNCHANGED <<db, cast>>

BootstrapGrant(a, n) ==
    /\ UseNonce(a, n)
    /\ db.founder = NoAddr
    /\ Pinned \in {NoAddr, a}
    /\ st' = [st EXCEPT !.level[a] = FOUNDER, !.founder = a]
    /\ UNCHANGED <<db, cast>>

FounderOp(a, n) ==
    /\ UseNonce(a, n)
    /\ db.founder # NoAddr
    /\ db.level[a] = FOUNDER
    /\ UNCHANGED <<db, cast>>

Revoke(a, subject, n) ==
    /\ FounderOp(a, n)
    /\ subject # db.founder
    /\ db.level[subject] # NONE
    /\ st' = [st EXCEPT !.level[subject] = NONE]

LabelDefine(a, label, splits, n) ==
    /\ FounderOp(a, n)
    /\ splits # <<>>
    /\ SumFunction([i \in DOMAIN splits |-> splits[i].bp]) = BP
    /\ st' = [st EXCEPT !.labels[label] = splits]

LabelAssign(a, artist, label, n) ==
    /\ FounderOp(a, n)
    /\ label # NoLabel => db.labels[label] # <<>>
    /\ st' = [st EXCEPT !.signed[artist] = label]

-----------------------------------------------------------------------------
Active == {m \in Address : db.level[m] # NONE}

\* Moderators whose vote apply_proposal accepts.
Eligible == {m \in Address : db.level[m] >= OP}

\* Mutant: half of the moderators suffice.
needed_half == (Cardinality(Active) + 1) \div 2

needed == (Cardinality(Active) \div 2) + 1

effective_vote_count(p, inBlock) ==
    LET committed == {m \in Address : <<p, m>> \in db.votes}
        staged    == {m \in Address : <<p, m>> \in inBlock}
    IN  Cardinality(committed) + Cardinality(staged \ committed)

\* Mutant: counts votes, a requester's implicit YES among them.
grant_is_unanimous_by_count(p, inBlock) ==
    /\ effective_vote_count(p, inBlock) >= Cardinality(Eligible)
    /\ Eligible # {}

grant_is_unanimous(p, inBlock) ==
    /\ \A m \in Eligible : <<p, m>> \in db.votes \cup inBlock
    /\ Eligible # {}

Approved(p, inBlock) ==
    IF p.motion.kind = "GRANT_MODERATOR"
    THEN grant_is_unanimous(p, inBlock)
    ELSE effective_vote_count(p, inBlock) >= needed

-----------------------------------------------------------------------------
(***************************************************************************)
(* execute_proposal.  A release pays min(balance, amount) out of the       *)
(* artist's escrow: to the artist, or along the splits of the label the    *)
(* artist is signed to, the last split taking what rounding left.          *)
(***************************************************************************)
SplitsFor(artist) ==
    LET label == db.signed[artist]
    IN  IF label = NoLabel \/ db.labels[label] = <<>>
        THEN <<[wallet |-> artist, bp |-> BP]>>
        ELSE db.labels[label]

\* Mutant: the last split is paid its basis points, the dust goes nowhere.
Portion_dust(splits, i, amount) == (amount * splits[i].bp) \div BP

Portion(splits, i, amount) ==
    IF i < Len(splits)
    THEN (amount * splits[i].bp) \div BP
    ELSE amount - SumFunction([j \in 1..(Len(splits) - 1) |->
                                 (amount * splits[j].bp) \div BP])

\* Mutant: the amount is not capped at the escrow's balance.
release_escrow_uncapped(rows, artist, amount) ==
    [rows EXCEPT !.bal[escrow_address_for(artist)] = @ - amount,
                 !.bal[Wallet(artist)] = @ + amount,
                 !.released[artist] = @ + amount]

release_escrow(rows, artist, amount) ==
    LET escrow  == escrow_address_for(artist)
        to_send == IF rows.bal[escrow] < amount THEN rows.bal[escrow]
                                                ELSE amount
        splits  == SplitsFor(artist)
        portion == [i \in DOMAIN splits |-> Portion(splits, i, to_send)]
        gets    == [a \in Address |->
                      SumFunctionOnSet(portion, {i \in DOMAIN splits :
                                                   splits[i].wallet = a})]
    IN  [rows EXCEPT
           !.bal = [x \in Account |->
                      IF x = escrow THEN @[x] - SumFunction(portion)
                      ELSE IF x[1] = "wallet" /\ x[2] # NoAddr
                           THEN @[x] + gets[x[2]] ELSE @[x]],
           !.released[artist] = @ + to_send,
           !.elsewhere = @ + to_send - gets[artist]]

grant_moderator(rows, subject, lv) ==
    IF subject = db.founder THEN rows ELSE [rows EXCEPT !.level[subject] = lv]

execute_proposal(rows, p) ==
    LET m    == p.motion
        done == [rows EXCEPT
                   !.executed = @ \cup {p},
                   !.reran = IF p \in rows.executed THEN @ \cup {p} ELSE @,
                   !.lapsed =
                      IF Cardinality({v \in Eligible : <<p, v>> \in rows.votes})
                            < needed
                      THEN @ \cup {p} ELSE @]
    IN  CASE m.kind = "HIDE_CONTENT" ->
                [done EXCEPT !.hides = @ \cup {m.target}]
          [] m.kind = "RELEASE_ESCROW" ->
                release_escrow(done, m.target, m.amount)
          [] m.kind = "SET_RATING_THRESHOLD" ->
                [done EXCEPT !.policy = m.target]
          [] m.kind = "GRANT_MODERATOR" ->
                grant_moderator(done, m.target, m.amount)

\* The vote of a, in the batch and in proposal_votes_in_block_, then the
\* approval test and the execution it may trigger.
CountVote(rows, p, a) ==
    LET voted == [rows EXCEPT !.votes = @ \cup {<<p, a>>}]
    IN  /\ cast' = cast \cup {<<p, a>>}
        /\ st' = IF Approved(p, cast \cup {<<p, a>>})
                 THEN execute_proposal(voted, p) ELSE voted

(***************************************************************************)
(* apply_proposal: filing, which casts the proposer's own vote, and voting.*)
(***************************************************************************)
Propose(a, motion, n) ==
    LET p == [by |-> a, nonce |-> n, motion |-> motion]
    IN  /\ UseNonce(a, n)
        /\ motion.kind # "GRANT_MODERATOR" => db.level[a] >= OP
        /\ motion.kind = "GRANT_MODERATOR" =>
              /\ db.founder # NoAddr
              /\ db.level[motion.target] < motion.amount
        /\ p \notin db.props
        /\ CountVote([st EXCEPT !.props = @ \cup {p}], p, a)
        /\ UNCHANGED db

VoteYes(a, p, n) ==
    /\ UseNonce(a, n)
    /\ db.level[a] >= OP
    /\ p \in db.props
    /\ p \notin db.executed
    /\ <<p, a>> \notin db.votes
    /\ <<p, a>> \notin cast
    /\ CountVote(st, p, a)
    /\ UNCHANGED db

-----------------------------------------------------------------------------
\* The next transaction of the open block is a MODERATOR_OP or a
\* MODERATOR_PROPOSAL.
GovernanceTx ==
    \E a \in Address, n \in Nonces :
       \/ BootstrapGrant(a, n)
       \/ \E s \in Address : Revoke(a, s, n)
       \/ \E l \in Label, splits \in SplitList : LabelDefine(a, l, splits, n)
       \/ \E artist \in Address, l \in Label \cup {NoLabel} :
             LabelAssign(a, artist, l, n)
       \/ \E motion \in Motions : Propose(a, motion, n)
       \/ \E p \in db.props : VoteYes(a, p, n)

Next == Begin \/ Commit \/ Drop \/ Wait \/ GovernanceTx

Spec == Init /\ [][Next]_vars

-----------------------------------------------------------------------------
(***************************************************************************)
(* The founder's seat is claimed once: from the block that commits it on,  *)
(* neither a bootstrap grant, a REVOKE nor a GRANT_MODERATOR proposal that *)
(* was filed earlier moves the seat or the level of its holder             *)
(* (apply_moderator_op, execute_proposal).                                 *)
(***************************************************************************)
FounderSeated ==
    [][db.founder # NoAddr =>
          /\ db'.founder = db.founder
          /\ db'.level[db.founder] = FOUNDER]_db

(***************************************************************************)
(* A block raises an address only through a GRANT_MODERATOR proposal for   *)
(* that level on which every OP and founder in office when the block began *)
(* has voted, in earlier blocks or in this one: a requester's own vote, a  *)
(* majority or votes of a VOICE are not enough (grant_is_unanimous).       *)
(***************************************************************************)
GrantsUnanimous ==
    [][\A a \in Address :
          db.founder # NoAddr /\ db'.level[a] > db.level[a] =>
             \E p \in db'.executed \ db.executed :
                /\ p.motion.kind = "GRANT_MODERATOR"
                /\ p.motion.target = a /\ p.motion.amount = db'.level[a]
                /\ \A m \in Eligible : <<p, m>> \in db'.votes]_db

(***************************************************************************)
(* A hide, a release or a policy change takes effect only with votes of    *)
(* more than half as many wallets as there were moderators when the block  *)
(* began, each counted once although some votes are committed and some     *)
(* staged in the same block (effective_vote_count).                        *)
(***************************************************************************)
MajorityExecutes ==
    [][\A p \in db'.executed \ db.executed :
          p.motion.kind # "GRANT_MODERATOR" =>
             2 * Cardinality({m \in Address : <<p, m>> \in db'.votes})
                > Cardinality(Active)]_db

(***************************************************************************)
(* Escrow is accounted for to the last unit: what left an artist's escrow  *)
(* is what the executed releases sent, with no dust stuck by a label's     *)
(* splits, several releases of one escrow in one block included            *)
(* (execute_proposal over the Ledger overlay), and nothing is created.     *)
(***************************************************************************)
EscrowAccounted ==
    /\ \A a \in Address :
          db.bal[escrow_address_for(a)] + db.released[a] = GenesisEscrow[a]
    /\ SumFunction(db.bal) = SumFunction(GenesisEscrow)

(***************************************************************************)
(* The claims of comments and documents that the code does not keep.       *)
(***************************************************************************)

\* "re-execution is blocked by this flag" (propstatus, database.h).
ReexecutionBlocked == db.reran = {}

\* "exactly one founder ever": one wallet holds the founder's level.
OneFounder == Cardinality({a \in Address : db.level[a] = FOUNDER}) <= 1

\* A release "can only pay out to the artist the escrow was created for".
EscrowPaysArtist == db.elsewhere = 0

\* A proposal takes "a strict majority of currently active moderators": votes
\* of moderators who have been revoked do not count.
ActiveMajority ==
    \A p \in db.lapsed : p.motion.kind = "GRANT_MODERATOR"

\* Hides and releases execute on OP majority: none stays open once more than
\* half of the moderators who can vote have voted for it.
OpMajorityDecides ==
    \A p \in db.props \ db.executed :
       p.motion.kind # "GRANT_MODERATOR" =>
          2 * Cardinality({m \in Eligible : <<p, m>> \in db.votes})
             <= Cardinality(Eligible)
=============================================================================
