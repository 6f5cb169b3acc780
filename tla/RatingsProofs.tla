--------------------------- MODULE RatingsProofs ---------------------------
(***************************************************************************)
(* Who may sit, grant, decide and rate, for every set of wallets, every    *)
(* chain a prefix may have left and every order of transactions in blocks. *)
(*                                                                         *)
(* The properties speak of the step that commits a block; what makes them  *)
(* hold is what every transaction of the open block keeps true of the      *)
(* batch.  GovInv says it part by part: each part is one property with the *)
(* batch in the place of the next committed state, and the parts before it *)
(* are what it needs.  Balances have an invariant of their own, EscrowInv. *)
(***************************************************************************)
EXTENDS Ratings, BlockFacts

\* A row store: the columns the properties are about.
IsRows(r) ==
    /\ {"level", "founder", "props", "executed", "votes"} \subseteq DOMAIN r
    /\ r.level \in [Address -> NONE..FOUNDER]
    /\ r.founder \in Maybe
    /\ r.props \subseteq Proposal
    /\ r.executed \subseteq r.props

\* The batch only adds to proposals and votes; the votes of the open block are in it.
Staged ==
    /\ IsRows(db) /\ IsRows(st)
    /\ db.props \subseteq st.props /\ db.votes \subseteq st.votes
    /\ applying => cast \subseteq st.votes

IsGrant(p) == p.motion.kind = "GRANT_MODERATOR"

\* A seat that is taken is kept by its holder, in the batch too; a grant was
\* only ever filed after the seat was taken.
SeatKept ==
    /\ db.founder # NoAddr => /\ db.level[db.founder] = FOUNDER
                              /\ st.founder = db.founder
    /\ st.founder # NoAddr => st.level[st.founder] = FOUNDER
    /\ \A p \in st.props : IsGrant(p) => db.founder # NoAddr

\* Whoever the batch raises, it raises by a proposal everyone eligible voted for.
Granted(a) ==
    \E p \in st.executed \ db.executed :
       /\ IsGrant(p)
       /\ p.motion.target = a /\ p.motion.amount = st.level[a]
       /\ \A m \in Eligible : <<p, m>> \in st.votes

RaisedByAll ==
    \A a \in Address : db.founder # NoAddr /\ st.level[a] > db.level[a] => Granted(a)

Voters(p, votes) == {m \in Address : <<p, m>> \in votes}

\* What the batch executes has a majority's worth of votes.
ByMajority ==
    \A p \in st.executed \ db.executed :
       ~IsGrant(p) => 2 * Cardinality(Voters(p, st.votes)) > Cardinality(Active)

GovInv == Staged /\ SeatKept /\ RaisedByAll /\ ByMajority

-----------------------------------------------------------------------------
\* A proposal asks for one of four things; a grant names an address and a level.
LEMMA ProposalKinds ==
    ASSUME NEW p \in Proposal
    PROVE  /\ p.motion.kind \in {"HIDE_CONTENT", "RELEASE_ESCROW", "SET_RATING_THRESHOLD",
                                 "GRANT_MODERATOR"}
           /\ IsGrant(p) => p.motion.target \in Address /\ p.motion.amount \in {VOICE, OP}
<1>1. p.motion \in Motion
  BY GovernanceAssumption DEF Proposal
<1> QED BY <1>1 DEF Motion, IsGrant

\* More votes are never fewer voters.
LEMMA VotersGrow ==
    ASSUME NEW p, NEW V, NEW W, V \subseteq W
    PROVE  /\ Cardinality(Voters(p, V)) \in Nat /\ Cardinality(Voters(p, W)) \in Nat
           /\ Cardinality(Voters(p, V)) <= Cardinality(Voters(p, W))
<1>1. IsFiniteSet(Voters(p, W)) /\ IsFiniteSet(Voters(p, V)) /\ Voters(p, V) \subseteq Voters(p, W)
  BY GovernanceAssumption, FS_Subset DEF Voters
<1> QED BY <1>1, FS_Subset, FS_CardinalityType

\* The two-part count of effective_vote_count counts each voter once.
LEMMA CountedOnce ==
    ASSUME NEW p, NEW V
    PROVE  effective_vote_count(p, V) = Cardinality(Voters(p, db.votes \cup V))
<1> DEFINE C == {m \in Address : <<p, m>> \in db.votes}
           S == {m \in Address : <<p, m>> \in V}
<1>1. IsFiniteSet(C) /\ IsFiniteSet(S \ C)
  BY GovernanceAssumption, FS_Subset
<1>2. Cardinality(C \cup (S \ C)) = Cardinality(C) + Cardinality(S \ C) - Cardinality(C \cap (S \ C))
  BY <1>1, FS_Union
<1>3. C \cap (S \ C) = {} /\ C \cup (S \ C) = Voters(p, db.votes \cup V)
  BY DEF Voters
<1>4. Cardinality(C \cap (S \ C)) = 0
  BY <1>3, FS_EmptySet
<1>5. Cardinality(C) \in Nat /\ Cardinality(S \ C) \in Nat
  BY <1>1, FS_CardinalityType
<1>6. effective_vote_count(p, V) = Cardinality(C) + Cardinality(S \ C)
  BY DEF effective_vote_count
<1> HIDE DEF C, S
<1>7. Cardinality(Voters(p, db.votes \cup V)) = Cardinality(C) + Cardinality(S \ C) - 0
  BY <1>2, <1>3, <1>4, Zenon
<1> QED BY <1>5, <1>6, <1>7

\* A proposal other than a grant that is approved has a majority's worth of votes.
LEMMA ApprovedByMajority ==
    ASSUME NEW p, NEW V, ~IsGrant(p), Approved(p, V)
    PROVE  2 * Cardinality(Voters(p, db.votes \cup V)) > Cardinality(Active)
<1>1. IsFiniteSet(Active)
  BY GovernanceAssumption, FS_Subset DEF Active
<1>2. Cardinality(Active) \in Nat
  BY <1>1, FS_CardinalityType
<1>3. Cardinality(Voters(p, db.votes \cup V)) >= (Cardinality(Active) \div 2) + 1
  BY CountedOnce DEF Approved, IsGrant, needed
<1>4. Cardinality(Voters(p, db.votes \cup V)) \in Nat
  BY VotersGrow
<1> QED BY <1>2, <1>3, <1>4

\* A release moves balances and history only.
LEMMA ReleaseRows ==
    ASSUME NEW r, IsRows(r), NEW artist, NEW amount
    PROVE  LET e == release_escrow(r, artist, amount)
           IN  /\ IsRows(e) /\ e.level = r.level /\ e.founder = r.founder
               /\ e.props = r.props /\ e.executed = r.executed /\ e.votes = r.votes
<1> DEFINE escrow  == escrow_address_for(artist)
           to_send == IF r.bal[escrow] < amount THEN r.bal[escrow] ELSE amount
           splits  == SplitsFor(artist)
           portion == [i \in DOMAIN splits |-> Portion(splits, i, to_send)]
           gets    == [a \in Address |->
                         SumFunctionOnSet(portion, {i \in DOMAIN splits : splits[i].wallet = a})]
           bal     == [x \in Account |->
                         IF x = escrow THEN r.bal[x] - SumFunction(portion)
                         ELSE IF x[1] = "wallet" /\ x[2] # NoAddr
                              THEN r.bal[x] + gets[x[2]] ELSE r.bal[x]]
           rel     == [r.released EXCEPT ![artist] = @ + to_send]
           els     == r.elsewhere + to_send - gets[artist]
<1>1. release_escrow(r, artist, amount) = [r EXCEPT !.bal = bal, !.released = rel, !.elsewhere = els]
  BY Zenon DEF release_escrow
<1> HIDE DEF bal, rel, els
<1> QED BY <1>1 DEF IsRows

\* What execute_proposal does to the columns: it marks the proposal, and only a
\* grant to somebody else than the founder moves a level.
LEMMA ExecuteRows ==
    ASSUME NEW r, IsRows(r), NEW p \in r.props
    PROVE  LET e == execute_proposal(r, p)
           IN  /\ IsRows(e)
               /\ e.founder = r.founder /\ e.props = r.props /\ e.votes = r.votes
               /\ e.executed = r.executed \cup {p}
               /\ e.level = IF IsGrant(p) /\ p.motion.target # db.founder
                            THEN [r.level EXCEPT ![p.motion.target] = p.motion.amount]
                            ELSE r.level
<1> DEFINE ran  == r.executed \cup {p}
           rer  == IF p \in r.executed THEN r.reran \cup {p} ELSE r.reran
           lap  == IF Cardinality({v \in Eligible : <<p, v>> \in r.votes}) < needed
                   THEN r.lapsed \cup {p} ELSE r.lapsed
           done == [r EXCEPT !.executed = ran, !.reran = rer, !.lapsed = lap]
<1>0. ran \subseteq r.props
  BY DEF IsRows
<1>1. /\ IsRows(done) /\ done.executed = r.executed \cup {p}
      /\ done.founder = r.founder /\ done.props = r.props /\ done.votes = r.votes
      /\ done.level = r.level
  <2> HIDE DEF rer, lap
  <2> QED BY <1>0 DEF IsRows
<1>2. p \in Proposal
  BY DEF IsRows
<1>3. CASE p.motion.kind = "HIDE_CONTENT"
  <2>1. execute_proposal(r, p) = [done EXCEPT !.hides = @ \cup {p.motion.target}]
    BY <1>3 DEF execute_proposal
  <2> HIDE DEF done
  <2> QED BY <1>1, <1>3, <2>1 DEF IsRows, IsGrant
<1>4. CASE p.motion.kind = "RELEASE_ESCROW"
  <2>1. execute_proposal(r, p) = release_escrow(done, p.motion.target, p.motion.amount)
    BY <1>4 DEF execute_proposal
  <2> HIDE DEF done
  <2> QED BY <1>1, <1>4, <2>1, ReleaseRows DEF IsGrant
<1>5. CASE p.motion.kind = "SET_RATING_THRESHOLD"
  <2>1. execute_proposal(r, p) = [done EXCEPT !.policy = p.motion.target]
    BY <1>5 DEF execute_proposal
  <2> HIDE DEF done
  <2> QED BY <1>1, <1>5, <2>1 DEF IsRows, IsGrant
<1>6. CASE p.motion.kind = "GRANT_MODERATOR"
  <2>1. execute_proposal(r, p) = grant_moderator(done, p.motion.target, p.motion.amount)
    BY <1>6 DEF execute_proposal
  <2> HIDE DEF done
  <2>2. IsGrant(p) /\ p.motion.target \in Address /\ p.motion.amount \in NONE..FOUNDER
    BY <1>2, <1>6, ProposalKinds DEF IsGrant, VOICE, OP, NONE, FOUNDER
  <2> QED BY <1>1, <2>1, <2>2 DEF IsRows, grant_moderator
<1> QED BY <1>2, <1>3, <1>4, <1>5, <1>6, ProposalKinds
-----------------------------------------------------------------------------
(* One lemma per kind of transaction: what it does to the batch. *)

\* The columns the invariant reads, before and after.
SameColumns(r, q) ==
    /\ q.level = r.level /\ q.founder = r.founder /\ q.props = r.props
    /\ q.executed = r.executed /\ q.votes = r.votes

\* A nonce-bearing transaction runs inside the open block.
LEMMA InBlock ==
    ASSUME NEW a, NEW n, UseNonce(a, n)
    PROVE  applying /\ applying' = applying
BY Zenon DEF UseNonce, NextTx

\* Label edits, and steps that leave governance alone.
LEMMA LabelStep ==
    ASSUME GovInv, db' = db, cast' = cast, applying' = applying,
           IsRows(st'), SameColumns(st, st')
    PROVE  GovInv'
<1> USE DEF GovInv, SameColumns
<1>1. Staged' /\ SeatKept'
  BY DEF Staged, SeatKept
<1>2. Eligible' = Eligible /\ Active' = Active
  BY DEF Eligible, Active
<1>3. RaisedByAll'
  BY <1>2 DEF RaisedByAll, Granted
<1>4. ByMajority'
  BY <1>2 DEF ByMajority
<1> QED BY <1>1, <1>3, <1>4

\* The bootstrap grant: only while the seat is free, so nobody is raised after.
LEMMA BootstrapStep ==
    ASSUME GovInv, NEW a \in Address, NEW n, BootstrapGrant(a, n)
    PROVE  GovInv'
<1> USE DEF GovInv
<1>1. applying /\ applying' = applying
  BY InBlock DEF BootstrapGrant
<1>2. db' = db /\ cast' = cast /\ db.founder = NoAddr
  BY DEF BootstrapGrant
<1>3. st' = [st EXCEPT !.level[a] = FOUNDER, !.founder = a]
  BY DEF BootstrapGrant
<1>4. /\ IsRows(st')
      /\ st'.founder = a /\ st'.level[a] = FOUNDER
      /\ st'.props = st.props /\ st'.executed = st.executed /\ st'.votes = st.votes
  BY <1>3 DEF Staged, IsRows, NONE, FOUNDER, Maybe
<1>5. Staged'
  BY <1>1, <1>2, <1>4 DEF Staged
<1>6. SeatKept'
  BY <1>2, <1>4 DEF SeatKept
<1>7. RaisedByAll'
  BY <1>2 DEF RaisedByAll
<1>8. ByMajority'
  BY <1>2, <1>4 DEF ByMajority, Active
<1> QED BY <1>5, <1>6, <1>7, <1>8

\* A REVOKE lowers somebody who is not the founder.
LEMMA RevokeStep ==
    ASSUME GovInv, NEW a \in Address, NEW s \in Address, NEW n, Revoke(a, s, n)
    PROVE  GovInv'
<1> USE DEF GovInv
<1>1. applying /\ applying' = applying
  BY InBlock DEF Revoke, FounderOp
<1>2. db' = db /\ cast' = cast /\ db.founder # NoAddr /\ s # db.founder
  BY DEF Revoke, FounderOp
<1>3. st' = [st EXCEPT !.level[s] = NONE]
  BY DEF Revoke
<1>4. /\ IsRows(st') /\ st'.level = [st.level EXCEPT ![s] = NONE]
      /\ st'.founder = st.founder
      /\ st'.props = st.props /\ st'.executed = st.executed /\ st'.votes = st.votes
  BY <1>3 DEF Staged, IsRows, NONE, FOUNDER
<1>5. Staged'
  BY <1>1, <1>2, <1>4 DEF Staged
<1>6. SeatKept'
  BY <1>2, <1>4 DEF SeatKept, Staged, IsRows, Maybe
<1>7. RaisedByAll'
  <2> SUFFICES ASSUME NEW b \in Address, st'.level[b] > db.level[b]
               PROVE  Granted(b)'
    BY <1>2 DEF RaisedByAll
  <2>1. b # s
    BY <1>4 DEF Staged, IsRows, NONE, FOUNDER
  <2>2. st'.level[b] = st.level[b]
    BY <1>4, <2>1 DEF Staged, IsRows
  <2>3. Granted(b)
    BY <1>2, <2>2 DEF RaisedByAll
  <2> QED BY <1>2, <1>4, <2>2, <2>3 DEF Granted, Eligible
<1>8. ByMajority'
  BY <1>2, <1>4 DEF ByMajority, Active
<1> QED BY <1>5, <1>6, <1>7, <1>8

\* The heart of it: a vote is counted on a proposal that is open, and may run it.
LEMMA CountVoteStep ==
    ASSUME GovInv, applying, applying' = applying, db' = db,
           NEW a \in Address, NEW p \in Proposal, p \notin db.executed,
           IsGrant(p) => db.founder # NoAddr,
           NEW r, IsRows(r), p \in r.props, st.props \subseteq r.props,
           r.level = st.level, r.founder = st.founder, r.executed = st.executed,
           r.votes = st.votes, \A q \in r.props : q \in st.props \/ q = p,
           CountVote(r, p, a)
    PROVE  GovInv'
<1> USE DEF GovInv
<1> DEFINE voted == [r EXCEPT !.votes = @ \cup {<<p, a>>}]
           inBlock == cast \cup {<<p, a>>}
<1>1. /\ IsRows(voted) /\ voted.level = st.level /\ voted.founder = st.founder
      /\ voted.props = r.props /\ voted.executed = st.executed
      /\ voted.votes = st.votes \cup {<<p, a>>}
  BY DEF IsRows
<1>2. cast' = inBlock /\ st' = IF Approved(p, inBlock) THEN execute_proposal(voted, p) ELSE voted
  BY Zenon DEF CountVote
<1>3. Eligible' = Eligible /\ Active' = Active
  BY DEF Eligible, Active
<1> HIDE DEF voted
<1>4. /\ IsRows(st') /\ st'.founder = st.founder /\ st'.props = r.props
      /\ st'.votes = st.votes \cup {<<p, a>>}
      /\ st'.executed = IF Approved(p, inBlock) THEN st.executed \cup {p} ELSE st.executed
      /\ st'.level = IF Approved(p, inBlock) /\ IsGrant(p) /\ p.motion.target # db.founder
                     THEN [st.level EXCEPT ![p.motion.target] = p.motion.amount]
                     ELSE st.level
  <2>1. CASE Approved(p, inBlock)
    <3>1. st' = execute_proposal(voted, p) /\ p \in voted.props
      BY <1>1, <1>2, <2>1
    <3>2. /\ IsRows(st') /\ st'.founder = voted.founder /\ st'.props = voted.props
          /\ st'.votes = voted.votes /\ st'.executed = voted.executed \cup {p}
          /\ st'.level = IF IsGrant(p) /\ p.motion.target # db.founder
                         THEN [voted.level EXCEPT ![p.motion.target] = p.motion.amount]
                         ELSE voted.level
      BY <1>1, <3>1, ExecuteRows, Zenon
    <3> QED BY <1>1, <2>1, <3>2
  <2>2. CASE ~Approved(p, inBlock)
    BY <1>1, <1>2, <2>2
  <2> QED BY <2>1, <2>2
<1>5. Staged'
  BY <1>2, <1>4 DEF Staged
<1>6. IsGrant(p) => p.motion.target \in Address /\ p.motion.amount \in {VOICE, OP}
  BY ProposalKinds
<1>7. SeatKept'
  <2>1. st'.founder # NoAddr => st'.level[st'.founder] = FOUNDER
    BY <1>4, <1>6 DEF SeatKept, Staged, IsRows, Maybe
  <2>2. \A q \in st'.props : IsGrant(q) => db.founder # NoAddr
    BY <1>4 DEF SeatKept
  <2> QED BY <1>4, <2>1, <2>2 DEF SeatKept
<1>8. db.votes \cup inBlock \subseteq st'.votes
  BY <1>4 DEF Staged
<1>9. RaisedByAll'
  <2> SUFFICES ASSUME NEW b \in Address, db.founder # NoAddr, st'.level[b] > db.level[b]
               PROVE  Granted(b)'
    BY DEF RaisedByAll
  <2>1. CASE Approved(p, inBlock) /\ IsGrant(p) /\ p.motion.target # db.founder /\ b = p.motion.target
    <3>1. st'.level[b] = p.motion.amount
      BY <1>4, <2>1 DEF Staged, IsRows
    <3>2. p \in st'.executed \ db'.executed
      BY <1>4, <2>1
    <3>3. \A m \in Eligible : <<p, m>> \in db.votes \cup inBlock
      BY <2>1 DEF Approved, grant_is_unanimous, IsGrant
    <3> QED BY <1>3, <1>8, <2>1, <3>1, <3>2, <3>3 DEF Granted
  <2>2. CASE ~(Approved(p, inBlock) /\ IsGrant(p) /\ p.motion.target # db.founder
               /\ b = p.motion.target)
    <3>1. st'.level[b] = st.level[b]
      BY <1>4, <2>2 DEF Staged, IsRows
    <3>2. Granted(b)
      BY <3>1 DEF RaisedByAll
    <3> QED BY <1>3, <1>4, <3>1, <3>2 DEF Granted
  <2> QED BY <2>1, <2>2
<1>10. ByMajority'
  <2> SUFFICES ASSUME NEW q \in st'.executed \ db.executed, ~IsGrant(q)
               PROVE  2 * Cardinality(Voters(q, st'.votes)) > Cardinality(Active)
    BY <1>3 DEF ByMajority
  <2>0. /\ Cardinality(Active) \in Nat
        /\ Cardinality(Voters(q, st'.votes)) \in Nat
    <3>1. IsFiniteSet(Active)
      BY GovernanceAssumption, FS_Subset DEF Active
    <3> QED BY <3>1, FS_CardinalityType, VotersGrow
  <2>1. CASE q \in st.executed
    <3>1. 2 * Cardinality(Voters(q, st.votes)) > Cardinality(Active)
      BY <2>1 DEF ByMajority
    <3>2. /\ Cardinality(Voters(q, st.votes)) <= Cardinality(Voters(q, st'.votes))
          /\ Cardinality(Voters(q, st.votes)) \in Nat
      BY <1>4, VotersGrow
    <3> QED BY <2>0, <3>1, <3>2
  <2>2. CASE q \notin st.executed
    <3>1. q = p /\ Approved(p, inBlock)
      BY <1>4, <2>2
    <3>2. 2 * Cardinality(Voters(q, db.votes \cup inBlock)) > Cardinality(Active)
      BY <3>1, ApprovedByMajority
    <3>3. /\ Cardinality(Voters(q, db.votes \cup inBlock)) <= Cardinality(Voters(q, st'.votes))
          /\ Cardinality(Voters(q, db.votes \cup inBlock)) \in Nat
      BY <1>8, VotersGrow
    <3> QED BY <2>0, <3>2, <3>3
  <2> QED BY <2>1, <2>2
<1> QED BY <1>5, <1>7, <1>9, <1>10
\* Filing, which casts the proposer's vote at once.
LEMMA ProposeStep ==
    ASSUME GovInv, NEW a \in Address, NEW motion \in Motions, NEW n \in Nonces,
           Propose(a, motion, n)
    PROVE  GovInv'
<1> DEFINE p == [by |-> a, nonce |-> n, motion |-> motion]
           r == [st EXCEPT !.props = @ \cup {p}]
<1>1. applying /\ applying' = applying
  BY InBlock DEF Propose
<1>2. /\ db' = db /\ p \notin db.props /\ CountVote(r, p, a)
      /\ motion.kind = "GRANT_MODERATOR" => db.founder # NoAddr
  BY DEF Propose
<1>3. p \in Proposal /\ p.motion = motion
  BY DEF Proposal
<1> HIDE DEF p
<1>4. p \notin db.executed /\ (IsGrant(p) => db.founder # NoAddr)
  BY <1>2, <1>3 DEF GovInv, Staged, IsRows, IsGrant
<1>5. /\ IsRows(r) /\ r.props = st.props \cup {p} /\ r.level = st.level
      /\ r.founder = st.founder /\ r.executed = st.executed /\ r.votes = st.votes
  BY <1>3 DEF GovInv, Staged, IsRows
<1> HIDE DEF r
<1>6. p \in r.props /\ st.props \subseteq r.props /\ \A q \in r.props : q \in st.props \/ q = p
  BY <1>5
<1> QED BY <1>1, <1>2, <1>3, <1>4, <1>5, <1>6, CountVoteStep

\* A later vote, on a proposal that was committed and has not run.
LEMMA VoteStep ==
    ASSUME GovInv, NEW a \in Address, NEW p \in db.props, NEW n, VoteYes(a, p, n)
    PROVE  GovInv'
<1>1. applying /\ applying' = applying
  BY InBlock DEF VoteYes
<1>2. db' = db /\ p \notin db.executed /\ CountVote(st, p, a)
  BY DEF VoteYes
<1>3. p \in Proposal /\ p \in st.props /\ IsRows(st) /\ (IsGrant(p) => db.founder # NoAddr)
  BY DEF GovInv, Staged, IsRows, SeatKept
<1> QED BY <1>1, <1>2, <1>3, CountVoteStep

\* A transaction of governance, whichever it is.
LEMMA TxStep ==
    ASSUME GovInv, GovernanceTx
    PROVE  GovInv'
<1>1. ASSUME NEW a \in Address, NEW n \in Nonces, BootstrapGrant(a, n) PROVE GovInv'
  BY <1>1, BootstrapStep
<1>2. ASSUME NEW a \in Address, NEW n \in Nonces, NEW s \in Address, Revoke(a, s, n) PROVE GovInv'
  BY <1>2, RevokeStep
<1>3. ASSUME NEW a \in Address, NEW n \in Nonces, NEW l \in Label, NEW splits \in SplitList,
             LabelDefine(a, l, splits, n)
      PROVE  GovInv'
  <2>1. UseNonce(a, n) /\ db' = db /\ cast' = cast /\ st' = [st EXCEPT !.labels[l] = splits]
    BY <1>3 DEF LabelDefine, FounderOp
  <2>2. IsRows(st') /\ SameColumns(st, st')
    BY <2>1 DEF GovInv, Staged, IsRows, SameColumns
  <2> QED BY <2>1, <2>2, InBlock, LabelStep
<1>4. ASSUME NEW a \in Address, NEW n \in Nonces, NEW artist \in Address,
             NEW l \in Label \cup {NoLabel}, LabelAssign(a, artist, l, n)
      PROVE  GovInv'
  <2>1. UseNonce(a, n) /\ db' = db /\ cast' = cast /\ st' = [st EXCEPT !.signed[artist] = l]
    BY <1>4 DEF LabelAssign, FounderOp
  <2>2. IsRows(st') /\ SameColumns(st, st')
    BY <2>1 DEF GovInv, Staged, IsRows, SameColumns
  <2> QED BY <2>1, <2>2, InBlock, LabelStep
<1>5. ASSUME NEW a \in Address, NEW n \in Nonces, NEW motion \in Motions, Propose(a, motion, n)
      PROVE  GovInv'
  BY <1>5, ProposeStep
<1>6. ASSUME NEW a \in Address, NEW n \in Nonces, NEW p \in db.props, VoteYes(a, p, n) PROVE GovInv'
  BY <1>6, VoteStep
<1> QED BY <1>1, <1>2, <1>3, <1>4, <1>5, <1>6 DEF GovernanceTx

\* A batch that is the committed state satisfies every part by itself.
LEMMA FreshBatch ==
    ASSUME IsRows(db'), IsRows(st'), SameColumns(db', st'),
           db'.founder # NoAddr => db'.level[db'.founder] = FOUNDER,
           \A p \in db'.props : IsGrant(p) => db'.founder # NoAddr,
           applying' => cast' \subseteq st'.votes
    PROVE  GovInv'
<1>1. Staged' /\ SeatKept'
  BY DEF Staged, SeatKept, SameColumns
<1>2. RaisedByAll'
  BY DEF RaisedByAll, SameColumns, IsRows, NONE, FOUNDER
<1>3. ByMajority'
  BY DEF ByMajority, SameColumns
<1> QED BY <1>1, <1>2, <1>3 DEF GovInv

\* A block begins with no votes of its own, commits its batch, or drops it.
LEMMA BlockStep ==
    ASSUME GovInv, Begin \/ Commit \/ Drop
    PROVE  GovInv'
<1> USE DEF GovInv, Staged, SeatKept
<1>1. CASE Begin
  <2>1. db' = db /\ st' = [db EXCEPT !.hides = {}] /\ cast' = {}
    BY <1>1 DEF Begin
  <2>2. IsRows(st') /\ SameColumns(db, st')
    BY <2>1 DEF IsRows, SameColumns
  <2>3. IsRows(db') /\ SameColumns(db', st') /\ cast' \subseteq st'.votes
    BY <2>1, <2>2
  <2>4. /\ db'.founder # NoAddr => db'.level[db'.founder] = FOUNDER
        /\ \A p \in db'.props : IsGrant(p) => db'.founder # NoAddr
    BY <2>1
  <2> HIDE DEF GovInv
  <2> QED BY <2>2, <2>3, <2>4, FreshBatch
<1>2. CASE Commit
  <2>1. db' = st /\ st' = st /\ cast' = cast /\ ~applying'
    BY <1>2 DEF Commit, CommitScope
  <2>2. IsRows(db') /\ IsRows(st') /\ SameColumns(db', st')
    BY <2>1 DEF SameColumns
  <2>3. /\ db'.founder # NoAddr => db'.level[db'.founder] = FOUNDER
        /\ \A p \in db'.props : IsGrant(p) => db'.founder # NoAddr
    BY <2>1
  <2> HIDE DEF GovInv
  <2> QED BY <2>1, <2>2, <2>3, FreshBatch
<1>3. CASE Drop
  <2>1. db' = db /\ st' = db /\ ~applying'
    BY <1>3 DEF Drop, DropScope
  <2>2. IsRows(db') /\ IsRows(st') /\ SameColumns(db', st')
    BY <2>1 DEF SameColumns
  <2>3. /\ db'.founder # NoAddr => db'.level[db'.founder] = FOUNDER
        /\ \A p \in db'.props : IsGrant(p) => db'.founder # NoAddr
    BY <2>1
  <2> HIDE DEF GovInv
  <2> QED BY <2>1, <2>2, <2>3, FreshBatch
<1> QED BY <1>1, <1>2, <1>3

\* The chain as a prefix left it.
LEMMA GovInvInit == Init => GovInv
<1> SUFFICES ASSUME Init PROVE GovInv
  OBVIOUS
<1>1. PICK g \in Genesis :
         db = [level |-> g.level, founder |-> g.founder,
               props |-> {}, executed |-> {}, votes |-> {}, hides |-> {},
               policy |-> NoAddr, labels |-> g.labels, signed |-> g.signed,
               bal |-> [x \in Account |->
                          IF x[1] = "escrow" /\ x[2] # NoAddr
                          THEN GenesisEscrow[x[2]] ELSE 0],
               released |-> [a \in Address |-> 0],
               reran |-> {}, lapsed |-> {}, elsewhere |-> 0]
  BY DEF Init
<1>2. /\ g.level \in [Address -> NONE..FOUNDER] /\ g.founder \in Maybe
      /\ g.founder # NoAddr => g.level[g.founder] = FOUNDER
  BY GovernanceAssumption
<1>3. /\ IsRows(db) /\ db.founder = g.founder /\ db.level = g.level /\ db.props = {}
  BY <1>1, <1>2 DEF IsRows
<1>4. st = db /\ ~applying
  BY DEF Init, ScopeInit
<1>5. Staged /\ SeatKept
  BY <1>2, <1>3, <1>4 DEF Staged, SeatKept
<1>6. RaisedByAll /\ ByMajority
  BY <1>3, <1>4 DEF RaisedByAll, ByMajority, IsRows, NONE, FOUNDER
<1> QED BY <1>5, <1>6 DEF GovInv
-----------------------------------------------------------------------------
(* Governance beside ratings. *)

\* What a step of Ratings does to the state of Governance.
LEMMA GovInvStep == GovInv /\ [RatingsNext]_allVars => GovInv'
<1> SUFFICES ASSUME GovInv, [RatingsNext]_allVars PROVE GovInv'
  OBVIOUS
<1>1. CASE BeginBlock \/ CommitBlock \/ DropBlock
  BY <1>1, BlockStep DEF BeginBlock, CommitBlock, DropBlock
<1>2. CASE Moderate
  BY <1>2, TxStep DEF Moderate
<1>3. ASSUME UNCHANGED govVars, applying' = applying PROVE GovInv'
  <2>1. db' = db /\ st' = st /\ cast' = cast
    BY <1>3 DEF govVars
  <2>2. IsRows(st') /\ SameColumns(st, st')
    BY <2>1 DEF GovInv, Staged, SameColumns
  <2> QED BY <1>3, <2>1, <2>2, LabelStep
<1>4. CASE WaitForBlock
  BY <1>3, <1>4, Zenon DEF WaitForBlock, Wait, Idle, scopeVars
<1>5. ASSUME NEW s \in Content, NEW hide \in BOOLEAN, Envelope(s, hide) PROVE GovInv'
  BY <1>3, <1>5, Zenon DEF Envelope, vars, scopeVars
<1>6. ASSUME NEW s \in Content, NEW a \in Address, CreditPlay(s, a) PROVE GovInv'
  BY <1>3, <1>6, Zenon DEF CreditPlay, NoNonceUsed, NextTx
<1>7. ASSUME NEW s \in Content, NEW a \in Address, NEW value \in {UP, DOWN}, NEW n \in Nonces,
             apply_rating(a, s, value, n)
      PROVE  GovInv'
  <2>1. UseNonce(a, n) /\ UNCHANGED govVars
    BY <1>7 DEF apply_rating
  <2> QED BY <1>3, <2>1, InBlock
<1>8. CASE UNCHANGED allVars
  BY <1>3, <1>8, Zenon DEF allVars, vars, scopeVars
<1> QED BY <1>1, <1>2, <1>4, <1>5, <1>6, <1>7, <1>8 DEF RatingsNext

\* Plays, ratings and envelopes leave the governance rows alone.
LEMMA ApartFromGovernance ==
    ASSUME NEW s \in Content, \/ \E hide \in BOOLEAN : Envelope(s, hide)
                              \/ \E a \in Address : CreditPlay(s, a)
                              \/ \E a \in Address, value \in {UP, DOWN}, n \in Nonces :
                                    apply_rating(a, s, value, n)
    PROVE  UNCHANGED govVars
<1>1. ASSUME NEW hide \in BOOLEAN, Envelope(s, hide) PROVE UNCHANGED govVars
  BY <1>1, Zenon DEF Envelope, vars
<1>2. ASSUME NEW a \in Address, CreditPlay(s, a) PROVE UNCHANGED govVars
  BY <1>2, Zenon DEF CreditPlay
<1>3. ASSUME NEW a \in Address, NEW value \in {UP, DOWN}, NEW n \in Nonces,
             apply_rating(a, s, value, n)
      PROVE  UNCHANGED govVars
  BY <1>3, Zenon DEF apply_rating
<1> QED BY <1>1, <1>2, <1>3, Zenon

\* Only the commit of a block moves the committed rows, and to the batch.
LEMMA OnlyCommitMoves ==
    ASSUME [RatingsNext]_allVars
    PROVE  db' = db \/ db' = st
<1>1. CASE CommitBlock
  BY <1>1 DEF CommitBlock, Commit
<1>2. CASE BeginBlock \/ DropBlock
  BY <1>2 DEF BeginBlock, DropBlock, Begin, Drop
<1>3. CASE Moderate
  BY <1>3, ZenonT(60) DEF Moderate, GovernanceTx, BootstrapGrant, Revoke, FounderOp, LabelDefine, LabelAssign,
              Propose, VoteYes
<1>4. CASE WaitForBlock
  BY <1>4 DEF WaitForBlock, Wait, govVars
<1>5. ASSUME NEW s \in Content, \/ \E hide \in BOOLEAN : Envelope(s, hide)
                                \/ \E a \in Address : CreditPlay(s, a)
                                \/ \E a \in Address, value \in {UP, DOWN}, n \in Nonces :
                                      apply_rating(a, s, value, n)
      PROVE  db' = db
  BY <1>5, ApartFromGovernance, Zenon DEF govVars
<1>6. CASE UNCHANGED allVars
  BY <1>6 DEF allVars, vars, govVars
<1> QED BY <1>1, <1>2, <1>3, <1>4, <1>5, <1>6 DEF RatingsNext

\* Governance's invariant holds with ratings and envelopes around it.
LEMMA GovInvariant == RatingsSpec => []GovInv
<1>1. RatingsInit => GovInv
  BY GovInvInit DEF RatingsInit
<1> QED BY <1>1, GovInvStep, PTL DEF RatingsSpec

(***************************************************************************)
(* The founder's seat and level survive every block, whoever files, votes  *)
(* or revokes and in whatever order (apply_moderator_op, execute_proposal).*)
(***************************************************************************)
THEOREM FounderStaysSeated == RatingsSpec => FounderSeated
<1>1. ASSUME GovInv, [RatingsNext]_allVars
      PROVE  [db.founder # NoAddr => /\ db'.founder = db.founder
                                     /\ db'.level[db.founder] = FOUNDER]_db
  <2>1. db' = db \/ db' = st
    BY <1>1, OnlyCommitMoves
  <2> QED BY <1>1, <2>1 DEF GovInv, SeatKept
<1> QED BY <1>1, GovInvariant, PTL DEF RatingsSpec, FounderSeated

(***************************************************************************)
(* Whoever a block raises was granted that level by a proposal that every  *)
(* OP and the founder had voted for, votes of earlier blocks and of this   *)
(* one taken together (grant_is_unanimous).                                *)
(***************************************************************************)
THEOREM GrantsStayUnanimous == RatingsSpec => GrantsUnanimous
<1>1. ASSUME GovInv, [RatingsNext]_allVars
      PROVE  [\A a \in Address :
                 db.founder # NoAddr /\ db'.level[a] > db.level[a] =>
                    \E p \in db'.executed \ db.executed :
                       /\ p.motion.kind = "GRANT_MODERATOR"
                       /\ p.motion.target = a /\ p.motion.amount = db'.level[a]
                       /\ \A m \in Eligible : <<p, m>> \in db'.votes]_db
  <2>1. db' = db \/ db' = st
    BY <1>1, OnlyCommitMoves
  <2>2. CASE db' = st
    BY <1>1, <2>2 DEF GovInv, RaisedByAll, Granted, IsGrant
  <2> QED BY <2>1, <2>2
<1> QED BY <1>1, GovInvariant, PTL DEF RatingsSpec, GrantsUnanimous

(***************************************************************************)
(* A hide, a release or a policy takes effect only with the votes of more  *)
(* than half as many wallets as moderators were in office, none counted    *)
(* twice although the count is taken in two parts (effective_vote_count).  *)
(***************************************************************************)
THEOREM MajorityAlwaysExecutes == RatingsSpec => MajorityExecutes
<1>1. ASSUME GovInv, [RatingsNext]_allVars
      PROVE  [\A p \in db'.executed \ db.executed :
                 p.motion.kind # "GRANT_MODERATOR" =>
                    2 * Cardinality({m \in Address : <<p, m>> \in db'.votes})
                       > Cardinality(Active)]_db
  <2>1. db' = db \/ db' = st
    BY <1>1, OnlyCommitMoves
  <2>2. CASE db' = st
    BY <1>1, <2>2 DEF GovInv, ByMajority, Voters, IsGrant
  <2> QED BY <2>1, <2>2
<1> QED BY <1>1, GovInvariant, PTL DEF RatingsSpec, MajorityExecutes

-----------------------------------------------------------------------------
(* Ratings. *)

\* The rating rows: the two columns the gate is about.
IsRatingRows(r) ==
    /\ {"pp", "rating"} \subseteq DOMAIN r
    /\ r.rating \in [Content \X Address -> 0..2]

Gated(r) == \A s \in Content, a \in Address : r.rating[<<s, a>>] # 0 => <<s, a>> \in r.pp

\* Plays of the open block are in the batch, and what the gate reads commits
\* no later than the verdict it lets through.
RatingsInv ==
    /\ IsRatingRows(rt) /\ IsRatingRows(stRt)
    /\ Gated(rt) /\ Gated(stRt)
    /\ rt.pp \subseteq stRt.pp
    /\ applying => played \subseteq stRt.pp

\* Every step keeps the gate's reading and the batch together.
LEMMA RatingsInvStep == RatingsInv /\ [RatingsNext]_allVars => RatingsInv'
<1> SUFFICES ASSUME RatingsInv, [RatingsNext]_allVars PROVE RatingsInv'
  OBVIOUS
<1> USE DEF RatingsInv
<1>1. CASE BeginBlock
  BY <1>1 DEF BeginBlock
<1>2. CASE CommitBlock
  <2>1. rt' = stRt /\ stRt' = stRt /\ ~applying'
    BY <1>2 DEF CommitBlock, Commit, CommitScope
  <2> QED BY <2>1
<1>3. CASE DropBlock
  <2>1. rt' = rt /\ stRt' = rt /\ ~applying'
    BY <1>3 DEF DropBlock, Drop, DropScope
  <2> QED BY <2>1
<1>4. ASSUME rt' = rt, stRt' = stRt, played' = played, applying' = applying PROVE RatingsInv'
  BY <1>4
<1>5. CASE WaitForBlock
  BY <1>4, <1>5, Zenon DEF WaitForBlock, Wait, Idle, scopeVars, ratingVars
<1>6. CASE Moderate
  <2>1. \E a, n : UseNonce(a, n)
    BY <1>6, ZenonT(60) DEF Moderate, GovernanceTx, BootstrapGrant, Revoke, FounderOp, LabelDefine,
                LabelAssign, Propose, VoteYes
  <2>2. applying' = applying
    BY <2>1, InBlock
  <2> QED BY <1>4, <1>6, <2>2 DEF Moderate, ratingVars
<1>7. ASSUME NEW s \in Content, NEW hide \in BOOLEAN, Envelope(s, hide) PROVE RatingsInv'
  BY <1>4, <1>7, Zenon DEF Envelope, vars, scopeVars
<1>8. ASSUME NEW s \in Content, NEW a \in Address, CreditPlay(s, a) PROVE RatingsInv'
  <2>1. applying /\ rt' = rt /\ played' = played \cup {<<s, a>>}
        /\ stRt' = [stRt EXCEPT !.pp = @ \cup {<<s, a>>}]
    BY <1>8 DEF CreditPlay, NoNonceUsed, NextTx
  <2>2. IsRatingRows(stRt') /\ stRt'.pp = stRt.pp \cup {<<s, a>>} /\ stRt'.rating = stRt.rating
    BY <2>1 DEF IsRatingRows
  <2> QED BY <2>1, <2>2 DEF Gated
<1>9. ASSUME NEW s \in Content, NEW a \in Address, NEW value \in {UP, DOWN}, NEW n \in Nonces,
             apply_rating(a, s, value, n)
      PROVE  RatingsInv'
  <2>1. applying /\ rt' = rt /\ played' = played /\ <<s, a>> \in rt.pp \cup played
    BY <1>9, InBlock DEF apply_rating, has_play_credit
  <2>2. /\ IsRatingRows(stRt') /\ stRt'.pp = stRt.pp
        /\ stRt'.rating = [stRt.rating EXCEPT ![<<s, a>>] = value]
    BY <1>9 DEF apply_rating, IsRatingRows, UP, DOWN
  <2>3. <<s, a>> \in stRt'.pp
    BY <2>1, <2>2
  <2>4. Gated(stRt')
    BY <2>2, <2>3 DEF Gated, IsRatingRows
  <2> QED BY <2>1, <2>2, <2>4
<1>10. CASE UNCHANGED allVars
  BY <1>4, <1>10, Zenon DEF allVars, vars, scopeVars, ratingVars
<1> QED BY <1>1, <1>2, <1>3, <1>5, <1>6, <1>7, <1>8, <1>9, <1>10 DEF RatingsNext

(***************************************************************************)
(* No verdict is on the chain without a credited play of that song by that *)
(* wallet on it, although the gate also takes plays that are only in the   *)
(* open block (apply_rating, apply_mint, apply_settlement_mint).           *)
(***************************************************************************)
THEOREM RatedAlwaysPlayed == RatingsSpec => []RatedOnlyIfPlayed
<1>1. RatingsInit => RatingsInv
  BY DEF RatingsInit, RatingsInv, IsRatingRows, Gated
<1>2. RatingsInv => RatedOnlyIfPlayed
  BY DEF RatingsInv, Gated, RatedOnlyIfPlayed
<1> QED BY <1>1, <1>2, RatingsInvStep, PTL DEF RatingsSpec

-----------------------------------------------------------------------------
(***************************************************************************)
(* Escrow.  The invariant is the property of the committed rows and of the *)
(* batch: a release reads and writes the batch, so two releases of one     *)
(* block see each other.                                                   *)
(***************************************************************************)
IsBooks(r) ==
    /\ {"bal", "released", "labels", "signed"} \subseteq DOMAIN r
    /\ r.bal \in [Account -> Int] /\ r.released \in [Address -> Int]
    /\ r.labels \in [Label -> SplitList \cup {<<>>}]
    /\ r.signed \in [Address -> Label \cup {NoLabel}]

Accounted(r) ==
    /\ \A a \in Address :
          r.bal[escrow_address_for(a)] + r.released[a] = GenesisEscrow[a]
    /\ SumFunction(r.bal) = SumFunction(GenesisEscrow)

\* There are finitely many accounts.
LEMMA AccountFinite == IsFiniteSet(Account)
BY FiniteAccounts, GovernanceAssumption

\* The share of one split is an integer.
LEMMA ShareInt ==
    ASSUME NEW x \in Int, NEW y \in Int, NEW z \in Nat \ {0}
    PROVE  (x * y) \div z \in Int
<1>1. x * y \in Int
  OBVIOUS
<1> DEFINE k == x * y
<1> HIDE DEF k
<1>2. k \in Int => k \div z \in Int
  OBVIOUS
<1> QED BY <1>1, <1>2 DEF k

\* A split pays an address, and a share of integer size.
LEMMA SplitsTyped ==
    ASSUME NEW splits \in Seq(SplitEntry)
    PROVE  \A i \in DOMAIN splits : splits[i].wallet \in Address /\ splits[i].bp \in Int
<1>1. \A i \in DOMAIN splits : splits[i] \in SplitEntry
  OBVIOUS
<1>2. \A e \in SplitEntry : e.wallet \in Address /\ e.bp \in Int
  BY DEF SplitEntry
<1> QED BY <1>1, <1>2

\* The portions of a release add up to what it sends: the last split takes
\* what rounding left.
LEMMA PortionSum ==
    ASSUME NEW splits \in Seq(SplitEntry), splits # <<>>, NEW amount \in Int,
           NEW portion,
           portion = [i \in DOMAIN splits |-> Portion(splits, i, amount)]
    PROVE  /\ portion \in [DOMAIN splits -> Int] /\ IsFiniteSet(DOMAIN splits)
           /\ SumFunction(portion) = amount
<1> DEFINE n == Len(splits)
           floor == [j \in 1..(n - 1) |-> (amount * splits[j].bp) \div BP]
           lower == SumFunction(floor)
<1>1. n \in Nat \ {0} /\ DOMAIN splits = 1..n
  OBVIOUS
<1>2. \A i \in 1..n : splits[i].bp \in Int
  BY <1>1, SplitsTyped
<1>3. \A j \in 1..(n - 1) : floor[j] \in Int
  <2> SUFFICES ASSUME NEW j \in 1..(n - 1)
               PROVE  (amount * splits[j].bp) \div BP \in Int
    OBVIOUS
  <2>1. splits[j].bp \in Int
    BY <1>1, <1>2
  <2> QED BY <2>1, ShareInt, GovernanceAssumption
<1>4. IsFiniteSet(1..n) /\ IsFiniteSet(1..(n - 1)) /\ DOMAIN floor = 1..(n - 1)
  BY <1>1, FS_Interval
<1>5. \A i \in 1..n : portion[i] = IF i < n THEN floor[i] ELSE amount - lower
  BY <1>1 DEF Portion
<1> HIDE DEF floor
<1>6. lower = SumOver(floor, 1..(n - 1)) /\ lower \in Int
  BY <1>3, <1>4, SumIsTotal, SumOverInt
<1> HIDE DEF lower, n
<1>7. \A i \in 1..n : portion[i] \in Int
  BY <1>1, <1>3, <1>5, <1>6
<1>8. SumOver(portion, 1..n) = portion[n] + SumOver(portion, (1..n) \ {n})
  <2> DEFINE D == 1..n
  <2>1. D \in SUBSET D /\ IsFiniteSet(D) /\ n \in D /\ \A i \in D : portion[i] \in Int
    BY <1>1, <1>4, <1>7
  <2> HIDE DEF D
  <2>2. SumOver(portion, D) = portion[n] + SumOver(portion, D \ {n})
    BY <2>1, SumOverRemove
  <2> QED BY <2>2 DEF D
<1>9. (1..n) \ {n} = 1..(n - 1) /\ 1..(n - 1) \in SUBSET (1..n)
  BY <1>1
<1>10. \A j \in 1..(n - 1) : portion[j] = floor[j]
  BY <1>1, <1>5
<1>11. SumOver(portion, 1..(n - 1)) = SumOver(floor, 1..(n - 1))
  <2> DEFINE E == 1..(n - 1)
             paid == portion
  <2>1. E \in SUBSET E /\ IsFiniteSet(E) /\ \A j \in E : paid[j] = floor[j]
    BY <1>4, <1>10
  <2> HIDE DEF E, paid
  <2>2. SumOver(paid, E) = SumOver(floor, E)
    BY <2>1, SumOverAgree
  <2> QED BY <2>2 DEF E, paid
<1>12. portion[n] = amount - lower
  BY <1>1, <1>5
<1>13. SumOver(portion, 1..n) = (amount - lower) + lower
  BY <1>6, <1>8, <1>9, <1>11, <1>12
<1>14. SumOver(portion, 1..n) = amount
  BY <1>6, <1>13
<1>15. DOMAIN portion = 1..n
  BY <1>1
<1>16. SumFunction(portion) = amount
  BY <1>14, <1>15, SumIsTotal
<1>17. portion \in [1..n -> Int]
  <2>1. portion = [i \in 1..n |-> portion[i]]
    BY <1>1
  <2> QED BY <1>7, <2>1
<1> QED BY <1>1, <1>4, <1>16, <1>17

\* A release always finds a list of splits, the artist's own if need be.
LEMMA SplitsExist ==
    ASSUME IsBooks(db), NEW artist \in Address
    PROVE  /\ SplitsFor(artist) \in Seq(SplitEntry)
           /\ SplitsFor(artist) # <<>>
<1> DEFINE label == db.signed[artist]
           own == <<[wallet |-> artist, bp |-> BP]>>
<1>1. own \in Seq(SplitEntry) /\ own # <<>>
  BY GovernanceAssumption DEF SplitEntry
<1>2. label \in Label \cup {NoLabel}
  BY DEF IsBooks
<1>3. CASE label = NoLabel \/ db.labels[label] = <<>>
  BY <1>1, <1>3 DEF SplitsFor
<1>4. CASE ~(label = NoLabel \/ db.labels[label] = <<>>)
  <2>1. SplitsFor(artist) = db.labels[label]
    BY <1>4 DEF SplitsFor
  <2>2. db.labels[label] \in SplitList
    BY <1>2, <1>4 DEF IsBooks
  <2> QED BY <1>4, <2>1, <2>2, GovernanceAssumption
<1> QED BY <1>3, <1>4

\* Accounts are wallets, escrows and what belongs to the zero address.
LEMMA Accounts ==
    /\ \A a \in Address : Wallet(a) \in Account /\ Wallet(a)[1] = "wallet"
                          /\ Wallet(a)[2] = a /\ a # NoAddr
    /\ \A x \in Account : x[1] = "wallet" /\ x[2] # NoAddr =>
                            x[2] \in Address /\ x = Wallet(x[2])
<1>1. \A a \in Address : Wallet(a) \in Account /\ Wallet(a)[1] = "wallet"
                         /\ Wallet(a)[2] = a /\ a # NoAddr
  BY NoAddrAssumption DEF Wallet, Account, Maybe
<1>2. ASSUME NEW x \in Account, x[1] = "wallet", x[2] # NoAddr
      PROVE  x[2] \in Address /\ x = Wallet(x[2])
  <2>1. PICK b \in {"wallet", "escrow"}, c \in Maybe : x = <<b, c>>
    BY DEF Account
  <2>2. x[1] = b /\ x[2] = c
    BY <2>1
  <2> QED BY <1>2, <2>1, <2>2 DEF Wallet, Maybe
<1> QED BY <1>1, <1>2

\* What each wallet gets is an integer, and together they get the portions.
LEMMA ReceivedSum ==
    ASSUME NEW D, IsFiniteSet(D), NEW paid, \A i \in D : paid[i] \in Int,
           NEW payee, \A i \in D : payee[i] \in Address,
           NEW own, \A a \in Address : own[a] \in SUBSET D,
           \A a \in Address : \A i \in D : i \in own[a] <=> payee[i] = a,
           NEW gets, \A a \in Address : gets[a] = SumOver(paid, own[a]),
           NEW k, \A x \in Account : k[x] = IF x[1] = "wallet" /\ x[2] # NoAddr
                                            THEN gets[x[2]] ELSE 0
    PROVE  /\ \A a \in Address : gets[a] \in Int
           /\ SumOver(k, Account) = SumOver(paid, D)
<1> DEFINE w == [i \in D |-> Wallet(payee[i])]
           of == [x \in Account |-> {i \in D : w[i] = x}]
<1>1. \A i \in D : w[i] = Wallet(payee[i]) /\ w[i] \in Account
  BY Accounts
<1>2. \A x \in Account : of[x] \in SUBSET D /\ \A i \in D : i \in of[x] <=> w[i] = x
  OBVIOUS
<1>3. ASSUME NEW a \in Address PROVE gets[a] = SumOver(paid, of[Wallet(a)])
  <2>1. gets[a] = SumOver(paid, own[a])
    OBVIOUS
  <2>2. of[Wallet(a)] \in SUBSET D /\ \A i \in D : i \in of[Wallet(a)] <=> w[i] = Wallet(a)
    BY <1>2, Accounts
  <2>3. \A i \in D : w[i] = Wallet(a) <=> payee[i] = a
    BY <1>1 DEF Wallet
  <2> HIDE DEF of, w
  <2>4. \A i \in D : i \in of[Wallet(a)] <=> i \in own[a]
    BY <2>2, <2>3
  <2>5. of[Wallet(a)] = own[a]
    BY <2>2, <2>4
  <2> QED BY <2>1, <2>5
<1> HIDE DEF w, of
<1>4. SumOver(paid, {}) = 0
  BY SumOverStep, FS_EmptySet
<1>5. ASSUME NEW x \in Account PROVE k[x] = SumOver(paid, of[x])
  <2>1. CASE x[1] = "wallet" /\ x[2] # NoAddr
    <3>1. x[2] \in Address /\ x = Wallet(x[2])
      BY <2>1, Accounts
    <3>2. k[x] = gets[x[2]]
      BY <2>1
    <3> QED BY <1>3, <3>1, <3>2
  <2>2. CASE ~(x[1] = "wallet" /\ x[2] # NoAddr)
    <3>1. ASSUME NEW i \in D, w[i] = x PROVE FALSE
      <4>1. x = Wallet(payee[i]) /\ payee[i] \in Address
        BY <1>1, <3>1
      <4> QED BY <2>2, <4>1, Accounts
    <3>2. of[x] \in SUBSET D /\ \A i \in D : i \notin of[x]
      BY <1>2, <3>1
    <3>3. of[x] = {}
      BY <3>2
    <3>4. k[x] = 0
      BY <2>2
    <3> QED BY <1>4, <3>3, <3>4
  <2> QED BY <2>1, <2>2
<1>6. SumOver(k, Account) = SumOver(paid, D)
  <2>1. \A i \in D : w[i] \in Account
    BY <1>1
  <2>2. /\ \A x \in Account : of[x] \in SUBSET D
        /\ \A x \in Account : \A i \in D : i \in of[x] <=> w[i] = x
        /\ \A x \in Account : k[x] = SumOver(paid, of[x])
    BY <1>2, <1>5
  <2>3. IsFiniteSet(Account)
    BY AccountFinite
  <2> QED BY <2>1, <2>2, <2>3, SumByGroups, SMTT(30)
<1>7. \A x \in Account : SumOver(paid, of[x]) \in Int
  <2>1. \A x \in Account : of[x] \in SUBSET D /\ \A i \in of[x] : paid[i] \in Int
    BY <1>2
  <2> QED BY <2>1, SumOverInt
<1>8. ASSUME NEW a \in Address PROVE gets[a] \in Int
  <2>1. Wallet(a) \in Account
    BY Accounts
  <2> QED BY <1>3, <1>7, <2>1
<1> QED BY <1>6, <1>8

\* Taking n from one account and giving out n leaves the total.
LEMMA Moved ==
    ASSUME NEW bal \in [Account -> Int], NEW k, \A x \in Account : k[x] \in Int,
           NEW e \in Account, k[e] = 0, NEW n \in Int, SumOver(k, Account) = n,
           NEW after \in [Account -> Int],
           \A x \in Account : after[x] = IF x = e THEN bal[x] - n ELSE bal[x] + k[x]
    PROVE  SumFunction(after) = SumFunction(bal)
<1> DEFINE mid == [x \in Account |-> bal[x] + k[x]]
<1>1. \A x \in Account : bal[x] \in Int /\ after[x] \in Int /\ mid[x] \in Int
                         /\ mid[x] = bal[x] + k[x]
  OBVIOUS
<1> HIDE DEF mid
<1>2. SumOver(mid, Account) = SumOver(bal, Account) + SumOver(k, Account)
  BY <1>1, AccountFinite, SumOverAdd
<1>3. \A x \in Account \ {e} : after[x] = mid[x]
  BY <1>1
<1>4. SumOver(after, Account) + mid[e] = SumOver(mid, Account) + after[e]
  BY <1>1, <1>3, AccountFinite, SumOverExcept
<1>5. SumOver(bal, Account) \in Int /\ SumOver(after, Account) \in Int
  BY <1>1, AccountFinite, SumOverInt
<1>6. mid[e] = bal[e] /\ after[e] = bal[e] - n /\ bal[e] \in Int
  BY <1>1
<1> DEFINE x == SumOver(after, Account)
           y == SumOver(bal, Account)
           z == bal[e]
<1>7. x + z = (y + n) + (z - n) /\ x \in Int /\ y \in Int /\ z \in Int
  BY <1>2, <1>4, <1>5, <1>6
<1> HIDE DEF x, y, z
<1>8. x = y
  BY <1>7
<1> QED BY <1>8, SumIsTotal DEF x, y

\* What a release does to balances: the escrow pays what the wallets get.
LEMMA ReleaseMoves ==
    ASSUME IsBooks(db), NEW r, IsBooks(r), NEW artist \in Address, NEW amount \in Int
    PROVE  LET e      == release_escrow(r, artist, amount)
               escrow == escrow_address_for(artist)
           IN  \E n \in Int :
                  /\ e.released = [r.released EXCEPT ![artist] = @ + n]
                  /\ e.bal \in [Account -> Int]
                  /\ e.bal[escrow] = r.bal[escrow] - n
                  /\ \A a \in Address \ {artist} :
                        e.bal[escrow_address_for(a)] = r.bal[escrow_address_for(a)]
                  /\ SumFunction(e.bal) = SumFunction(r.bal)
                  /\ {"bal", "released", "labels", "signed"} \subseteq DOMAIN e
                  /\ e.labels = r.labels /\ e.signed = r.signed
<1> DEFINE escrow  == escrow_address_for(artist)
           to_send == IF r.bal[escrow] < amount THEN r.bal[escrow] ELSE amount
           splits  == SplitsFor(artist)
           D       == DOMAIN splits
           portion == [i \in D |-> Portion(splits, i, to_send)]
           payee   == [i \in D |-> splits[i].wallet]
           own     == [a \in Address |-> {i \in D : payee[i] = a}]
           gets    == [a \in Address |->
                         SumFunctionOnSet(portion, {i \in D : splits[i].wallet = a})]
           k       == [x \in Account |-> IF x[1] = "wallet" /\ x[2] # NoAddr
                                         THEN gets[x[2]] ELSE 0]
           bal     == [x \in Account |->
                         IF x = escrow THEN r.bal[x] - SumFunction(portion)
                         ELSE IF x[1] = "wallet" /\ x[2] # NoAddr
                              THEN r.bal[x] + gets[x[2]] ELSE r.bal[x]]
           rel     == [r.released EXCEPT ![artist] = @ + to_send]
           els     == r.elsewhere + to_send - gets[artist]
<1>1. release_escrow(r, artist, amount) = [r EXCEPT !.bal = bal, !.released = rel, !.elsewhere = els]
  BY Zenon DEF release_escrow
<1>2. /\ \A a \in Address : escrow_address_for(a) \in Account
      /\ escrow[1] = "escrow" /\ escrow[2] = artist
      /\ \A a \in Address : escrow_address_for(a)[1] = "escrow"
      /\ \A a \in Address \ {artist} : escrow_address_for(a) # escrow
  BY DEF escrow_address_for, Account, Maybe
<1>3. to_send \in Int
  BY <1>2 DEF IsBooks
<1>4. splits \in Seq(SplitEntry) /\ splits # <<>>
  BY SplitsExist
<1> HIDE DEF to_send, splits
<1>5. portion \in [D -> Int] /\ IsFiniteSet(D) /\ SumFunction(portion) = to_send
  BY <1>3, <1>4, PortionSum
<1>6. \A i \in D : payee[i] \in Address /\ payee[i] = splits[i].wallet
  BY <1>4, SplitsTyped
<1>7. \A a \in Address : gets[a] = SumOver(portion, own[a])
  <2> SUFFICES ASSUME NEW a \in Address PROVE gets[a] = SumOver(portion, own[a])
    OBVIOUS
  <2> DEFINE E == {i \in D : splits[i].wallet = a}
  <2>1. E = own[a]
    BY <1>6
  <2>2. gets[a] = SumFunctionOnSet(portion, E)
    OBVIOUS
  <2> HIDE DEF E
  <2> QED BY <2>1, <2>2, SumOnSetIsTotal
<1>8. SumOver(portion, D) = to_send /\ \A i \in D : portion[i] \in Int
  BY <1>5, SumIsTotal
<1>9. /\ \A a \in Address : own[a] \in SUBSET D
      /\ \A a \in Address : \A i \in D : i \in own[a] <=> payee[i] = a
  OBVIOUS
<1> HIDE DEF portion, payee, gets, own, D
<1>10. \A x \in Account : k[x] = IF x[1] = "wallet" /\ x[2] # NoAddr
                                 THEN gets[x[2]] ELSE 0
  OBVIOUS
<1>11. bal = [x \in Account |-> IF x = escrow THEN r.bal[x] - to_send ELSE r.bal[x] + k[x]]
  <2>1. \A x \in Account : r.bal[x] \in Int
    BY DEF IsBooks
  <2> QED BY <1>5, <2>1
<1> HIDE DEF k, bal, rel, els
<1>12. /\ \A a \in Address : gets[a] \in Int
       /\ SumOver(k, Account) = to_send
  BY <1>5, <1>6, <1>7, <1>8, <1>9, <1>10, ReceivedSum
<1>13. \A x \in Account : k[x] \in Int
  BY <1>10, <1>12, Accounts
<1>14. r.bal \in [Account -> Int] /\ \A x \in Account : r.bal[x] \in Int
  BY DEF IsBooks
<1>15. /\ bal \in [Account -> Int]
       /\ \A x \in Account : bal[x] = IF x = escrow THEN r.bal[x] - to_send ELSE r.bal[x] + k[x]
  BY <1>3, <1>11, <1>13, <1>14
<1>16. \A a \in Address : k[escrow_address_for(a)] = 0
  BY <1>2, <1>10
<1>17. SumFunction(bal) = SumFunction(r.bal)
  <2> DEFINE before == r.bal
  <2>1. /\ before \in [Account -> Int] /\ escrow \in Account /\ k[escrow] = 0
        /\ \A x \in Account : bal[x] = IF x = escrow THEN before[x] - to_send
                                                     ELSE before[x] + k[x]
    BY <1>2, <1>14, <1>15, <1>16
  <2> HIDE DEF before, escrow
  <2>2. SumFunction(bal) = SumFunction(before)
    BY <1>3, <1>12, <1>13, <1>15, <2>1, Moved
  <2> QED BY <2>2 DEF before
<1>18. /\ bal[escrow] = r.bal[escrow] - to_send
       /\ \A a \in Address \ {artist} : bal[escrow_address_for(a)] = r.bal[escrow_address_for(a)]
  BY <1>2, <1>14, <1>15, <1>16
<1> DEFINE e == [r EXCEPT !.bal = bal, !.released = rel, !.elsewhere = els]
<1>19. /\ e.bal = bal /\ e.released = rel /\ e.labels = r.labels /\ e.signed = r.signed
       /\ {"bal", "released", "labels", "signed"} \subseteq DOMAIN e
  BY DEF IsBooks
<1>20. rel = [r.released EXCEPT ![artist] = @ + to_send]
  BY DEF rel
<1> HIDE DEF e, escrow
<1>21. release_escrow(r, artist, amount) = e
  BY <1>1 DEF e
<1> QED BY <1>3, <1>15, <1>17, <1>18, <1>19, <1>20, <1>21 DEF escrow

\* The columns of the books, before and after.
SameBooks(r, q) ==
    /\ {"bal", "released", "labels", "signed"} \subseteq DOMAIN q
    /\ q.bal = r.bal /\ q.released = r.released
    /\ q.labels = r.labels /\ q.signed = r.signed

Booked(r) == IsBooks(r) /\ Accounted(r)

\* A row store with the same books is as well accounted for.
LEMMA SameBooked ==
    ASSUME NEW r, NEW q, Booked(r), SameBooks(r, q)
    PROVE  Booked(q)
BY DEF Booked, IsBooks, Accounted, SameBooks

\* A release leaves the books accounted for.
LEMMA ReleaseBooked ==
    ASSUME Booked(db), NEW r, Booked(r), NEW artist \in Address, NEW amount \in Int
    PROVE  Booked(release_escrow(r, artist, amount))
<1> DEFINE e == release_escrow(r, artist, amount)
<1>1. IsBooks(db) /\ IsBooks(r) /\ Accounted(r)
  BY DEF Booked
<1>2. PICK n \in Int :
         /\ e.released = [r.released EXCEPT ![artist] = @ + n]
         /\ e.bal \in [Account -> Int]
         /\ e.bal[escrow_address_for(artist)] = r.bal[escrow_address_for(artist)] - n
         /\ \A a \in Address \ {artist} :
               e.bal[escrow_address_for(a)] = r.bal[escrow_address_for(a)]
         /\ SumFunction(e.bal) = SumFunction(r.bal)
         /\ {"bal", "released", "labels", "signed"} \subseteq DOMAIN e
         /\ e.labels = r.labels /\ e.signed = r.signed
  BY <1>1, ReleaseMoves
<1> HIDE DEF e
<1>3. r.released \in [Address -> Int]
  BY <1>1 DEF IsBooks
<1>4. /\ e.released \in [Address -> Int]
      /\ e.released[artist] = r.released[artist] + n /\ r.released[artist] \in Int
      /\ \A a \in Address \ {artist} : e.released[a] = r.released[a]
  BY <1>2, <1>3
<1>5. IsBooks(e)
  BY <1>1, <1>2, <1>4 DEF IsBooks
<1>6. \A a \in Address :
         r.bal[escrow_address_for(a)] + r.released[a] = GenesisEscrow[a]
  BY <1>1 DEF Accounted
<1>7. r.bal[escrow_address_for(artist)] \in Int
  BY <1>1 DEF IsBooks, Account, Maybe, escrow_address_for
<1>8. \A a \in Address :
         e.bal[escrow_address_for(a)] + e.released[a] = GenesisEscrow[a]
  <2>1. e.bal[escrow_address_for(artist)] + e.released[artist]
           = r.bal[escrow_address_for(artist)] + r.released[artist]
    <3> DEFINE x == r.bal[escrow_address_for(artist)]
               y == r.released[artist]
    <3>1. x \in Int /\ y \in Int
      BY <1>4, <1>7
    <3>2. e.bal[escrow_address_for(artist)] = x - n /\ e.released[artist] = y + n
      BY <1>2, <1>4
    <3> HIDE DEF x, y
    <3>3. (x - n) + (y + n) = x + y
      BY <3>1
    <3> QED BY <3>2, <3>3 DEF x, y
  <2>2. \A a \in Address \ {artist} :
           /\ e.bal[escrow_address_for(a)] = r.bal[escrow_address_for(a)]
           /\ e.released[a] = r.released[a]
    BY <1>2, <1>4
  <2>3. \A a \in Address \ {artist} :
           e.bal[escrow_address_for(a)] + e.released[a] = GenesisEscrow[a]
    BY <1>6, <2>2, Zenon
  <2>4. e.bal[escrow_address_for(artist)] + e.released[artist] = GenesisEscrow[artist]
    BY <1>6, <2>1, Zenon
  <2> QED BY <2>3, <2>4, Zenon
<1>9. SumFunction(e.bal) = SumFunction(GenesisEscrow)
  BY <1>1, <1>2 DEF Accounted
<1>10. Accounted(e)
  BY <1>8, <1>9 DEF Accounted
<1> QED BY <1>5, <1>10 DEF Booked, e

\* Of the four things a proposal may ask for, only a release touches the books.
LEMMA ExecuteBooked ==
    ASSUME Booked(db), NEW r, Booked(r), NEW p \in Proposal
    PROVE  Booked(execute_proposal(r, p))
<1> DEFINE ran  == r.executed \cup {p}
           rer  == IF p \in r.executed THEN r.reran \cup {p} ELSE r.reran
           lap  == IF Cardinality({v \in Eligible : <<p, v>> \in r.votes}) < needed
                   THEN r.lapsed \cup {p} ELSE r.lapsed
           done == [r EXCEPT !.executed = ran, !.reran = rer, !.lapsed = lap]
<1>1. Booked(done)
  <2> HIDE DEF ran, rer, lap
  <2>1. SameBooks(r, done)
    BY DEF SameBooks, Booked, IsBooks
  <2> HIDE DEF done
  <2> QED BY <2>1, SameBooked
<1>2. p.motion \in Motion
  BY GovernanceAssumption DEF Proposal
<1>3. CASE p.motion.kind = "HIDE_CONTENT"
  <2>1. execute_proposal(r, p) = [done EXCEPT !.hides = @ \cup {p.motion.target}]
    BY <1>3 DEF execute_proposal
  <2> HIDE DEF done
  <2>2. SameBooks(done, execute_proposal(r, p))
    BY <1>1, <2>1 DEF SameBooks, Booked, IsBooks
  <2> QED BY <1>1, <2>2, SameBooked
<1>4. CASE p.motion.kind = "RELEASE_ESCROW"
  <2>1. execute_proposal(r, p) = release_escrow(done, p.motion.target, p.motion.amount)
    BY <1>4 DEF execute_proposal
  <2>2. p.motion.target \in Address /\ p.motion.amount \in Int
    BY <1>2, <1>4 DEF Motion
  <2> HIDE DEF done
  <2> QED BY <1>1, <2>1, <2>2, ReleaseBooked
<1>5. CASE p.motion.kind = "SET_RATING_THRESHOLD"
  <2>1. execute_proposal(r, p) = [done EXCEPT !.policy = p.motion.target]
    BY <1>5 DEF execute_proposal
  <2> HIDE DEF done
  <2>2. SameBooks(done, execute_proposal(r, p))
    BY <1>1, <2>1 DEF SameBooks, Booked, IsBooks
  <2> QED BY <1>1, <2>2, SameBooked
<1>6. CASE p.motion.kind = "GRANT_MODERATOR"
  <2>1. execute_proposal(r, p) = grant_moderator(done, p.motion.target, p.motion.amount)
    BY <1>6 DEF execute_proposal
  <2> HIDE DEF done
  <2>2. SameBooks(done, execute_proposal(r, p))
    BY <1>1, <2>1 DEF SameBooks, Booked, IsBooks, grant_moderator
  <2> QED BY <1>1, <2>2, SameBooked
<1> QED BY <1>2, <1>3, <1>4, <1>5, <1>6 DEF Motion

\* A vote, and what it may set off.
LEMMA CountVoteBooked ==
    ASSUME Booked(db), NEW r, Booked(r), NEW p \in Proposal, NEW a, CountVote(r, p, a)
    PROVE  Booked(st')
<1> DEFINE voted == [r EXCEPT !.votes = @ \cup {<<p, a>>}]
<1>1. st' = IF Approved(p, cast \cup {<<p, a>>}) THEN execute_proposal(voted, p) ELSE voted
  BY Zenon DEF CountVote
<1>2. SameBooks(r, voted)
  BY DEF SameBooks, Booked, IsBooks
<1> HIDE DEF voted
<1>3. Booked(voted)
  BY <1>2, SameBooked
<1> QED BY <1>1, <1>3, ExecuteBooked

-----------------------------------------------------------------------------
EscrowInv == Booked(db) /\ Booked(st)

\* The chain as a prefix left it holds nothing but escrows.
LEMMA GenesisSum ==
    ASSUME NEW bal, bal = [x \in Account |-> IF x[1] = "escrow" /\ x[2] # NoAddr
                                             THEN GenesisEscrow[x[2]] ELSE 0]
    PROVE  /\ bal \in [Account -> Int]
           /\ \A a \in Address : bal[escrow_address_for(a)] = GenesisEscrow[a]
           /\ SumFunction(bal) = SumFunction(GenesisEscrow)
<1> DEFINE f == GenesisEscrow
           w == [a \in Address |-> escrow_address_for(a)]
           part == [x \in Account |-> {a \in Address : w[a] = x}]
           g == bal
<1>1. /\ f \in [Address -> Int] /\ DOMAIN f = Address /\ \A a \in Address : f[a] \in Int
  BY GovernanceAssumption
<1>2. \A a \in Address : w[a] = escrow_address_for(a) /\ w[a] \in Account
                         /\ w[a][1] = "escrow" /\ w[a][2] = a /\ a # NoAddr
  BY NoAddrAssumption DEF escrow_address_for, Account, Maybe
<1>3. ASSUME NEW x \in Account, x[1] = "escrow", x[2] # NoAddr
      PROVE  x[2] \in Address /\ x = w[x[2]]
  <2>1. PICK b \in {"wallet", "escrow"}, c \in Maybe : x = <<b, c>>
    BY DEF Account
  <2>2. x[1] = b /\ x[2] = c
    BY <2>1
  <2> QED BY <1>3, <2>1, <2>2 DEF escrow_address_for, Maybe
<1>4. /\ \A x \in Account : part[x] \in SUBSET Address
      /\ \A x \in Account : \A a \in Address : a \in part[x] <=> w[a] = x
  OBVIOUS
<1>5. \A x \in Account : g[x] = IF x[1] = "escrow" /\ x[2] # NoAddr
                                THEN f[x[2]] ELSE 0
  OBVIOUS
<1>6. DOMAIN g = Account /\ g = [x \in Account |-> g[x]]
  OBVIOUS
<1> HIDE DEF f, w, part, g
<1>7. IsFiniteSet(Address)
  BY GovernanceAssumption
<1>8. SumOver(f, {}) = 0
  BY SumOverStep, FS_EmptySet
<1>9. ASSUME NEW x \in Account PROVE g[x] = SumOver(f, part[x]) /\ g[x] \in Int
  <2>1. CASE x[1] = "escrow" /\ x[2] # NoAddr
    <3> DEFINE a == x[2]
    <3>1. a \in Address /\ x = w[a] /\ g[x] = f[a]
      BY <1>3, <1>5, <2>1
    <3> HIDE DEF a
    <3>2. \A b \in Address : w[b] = x <=> b = a
      BY <1>2, <3>1
    <3>3. part[x] = {a}
      BY <1>4, <3>1, <3>2
    <3> DEFINE one == {a}
    <3>4. one \in SUBSET Address /\ a \in one /\ \A b \in one : f[b] \in Int
      BY <1>1, <3>1
    <3>5. one \ {a} = {} /\ f[a] \in Int /\ part[x] = one
      BY <1>1, <3>1, <3>3
    <3> HIDE DEF one
    <3>6. SumOver(f, one) = f[a] + SumOver(f, one \ {a})
      BY <1>7, <3>4, SumOverRemove
    <3>7. SumOver(f, one) = f[a] + 0
      BY <1>8, <3>5, <3>6
    <3> QED BY <3>1, <3>5, <3>7
  <2>2. CASE ~(x[1] = "escrow" /\ x[2] # NoAddr)
    <3>1. \A a \in Address : w[a] # x
      BY <1>2, <2>2
    <3>2. part[x] = {}
      BY <1>4, <3>1
    <3> QED BY <1>5, <1>8, <2>2, <3>2
  <2> QED BY <2>1, <2>2
<1>10. SumOver(g, Account) = SumOver(f, Address)
  <2>1. /\ \A a \in Address : f[a] \in Int
        /\ \A a \in Address : w[a] \in Account
        /\ \A x \in Account : g[x] = SumOver(f, part[x])
    BY <1>1, <1>2, <1>9
  <2> QED BY <1>4, <1>7, <2>1, AccountFinite, SumByGroups
<1>11. SumFunction(g) = SumFunction(f)
  BY <1>1, <1>6, <1>10, SumIsTotal
<1>12. g \in [Account -> Int]
  BY <1>6, <1>9
<1>13. ASSUME NEW a \in Address PROVE g[escrow_address_for(a)] = f[a]
  <2>1. w[a] \in Account /\ w[a][1] = "escrow" /\ w[a][2] = a /\ a # NoAddr
    BY <1>2
  <2>2. g[w[a]] = f[a]
    BY <1>5, <2>1
  <2> QED BY <1>2, <2>2
<1> QED BY <1>11, <1>12, <1>13 DEF f, g

LEMMA EscrowInvInit == Init => EscrowInv
<1> SUFFICES ASSUME Init PROVE EscrowInv
  OBVIOUS
<1> DEFINE bal == [x \in Account |-> IF x[1] = "escrow" /\ x[2] # NoAddr
                                     THEN GenesisEscrow[x[2]] ELSE 0]
           rel == [a \in Address |-> 0]
<1>1. PICK g \in Genesis :
         db = [level |-> g.level, founder |-> g.founder,
               props |-> {}, executed |-> {}, votes |-> {}, hides |-> {},
               policy |-> NoAddr, labels |-> g.labels, signed |-> g.signed,
               bal |-> bal, released |-> rel,
               reran |-> {}, lapsed |-> {}, elsewhere |-> 0]
  BY DEF Init
<1>2. /\ g.labels \in [Label -> SplitList \cup {<<>>}]
      /\ g.signed \in [Address -> Label \cup {NoLabel}]
  BY GovernanceAssumption
<1>3. /\ bal \in [Account -> Int]
      /\ \A a \in Address : bal[escrow_address_for(a)] = GenesisEscrow[a]
      /\ SumFunction(bal) = SumFunction(GenesisEscrow)
  BY GenesisSum
<1>4. /\ rel \in [Address -> Int]
      /\ \A a \in Address : rel[a] = 0
      /\ \A a \in Address : GenesisEscrow[a] \in Int
  BY GovernanceAssumption
<1> HIDE DEF bal, rel
<1>5. /\ {"bal", "released", "labels", "signed"} \subseteq DOMAIN db
      /\ db.bal = bal /\ db.released = rel /\ db.labels = g.labels /\ db.signed = g.signed
  BY <1>1
<1>6. IsBooks(db)
  BY <1>2, <1>3, <1>4, <1>5 DEF IsBooks
<1>7. Accounted(db)
  BY <1>3, <1>4, <1>5 DEF Accounted
<1>8. st = db
  BY DEF Init
<1> QED BY <1>6, <1>7, <1>8 DEF EscrowInv, Booked

\* Governance transactions: filing and voting are the ones that may release.
LEMMA TxBooked ==
    ASSUME EscrowInv, GovInv, GovernanceTx
    PROVE  EscrowInv'
<1> USE DEF EscrowInv
<1>1. ASSUME db' = db, SameBooks(st, st') PROVE EscrowInv'
  BY <1>1, SameBooked
<1>2. ASSUME db' = db, Booked(st') PROVE EscrowInv'
  BY <1>2
<1>3. {"bal", "released", "labels", "signed"} \subseteq DOMAIN st
  BY DEF Booked, IsBooks
<1>4. ASSUME NEW a \in Address, NEW n \in Nonces, BootstrapGrant(a, n) PROVE EscrowInv'
  <2>1. db' = db /\ st' = [st EXCEPT !.level[a] = FOUNDER, !.founder = a]
    BY <1>4 DEF BootstrapGrant
  <2> QED BY <1>1, <1>3, <2>1 DEF SameBooks
<1>5. ASSUME NEW a \in Address, NEW n \in Nonces, NEW s \in Address, Revoke(a, s, n)
      PROVE  EscrowInv'
  <2>1. db' = db /\ st' = [st EXCEPT !.level[s] = NONE]
    BY <1>5 DEF Revoke, FounderOp
  <2> QED BY <1>1, <1>3, <2>1 DEF SameBooks
<1>6. ASSUME NEW a \in Address, NEW n \in Nonces, NEW l \in Label, NEW splits \in SplitList,
             LabelDefine(a, l, splits, n)
      PROVE  EscrowInv'
  <2>1. db' = db /\ st' = [st EXCEPT !.labels[l] = splits]
    BY <1>6 DEF LabelDefine, FounderOp
  <2>2. IsBooks(st) /\ Accounted(st)
    BY DEF Booked
  <2>3. /\ {"bal", "released", "labels", "signed"} \subseteq DOMAIN st'
        /\ st'.bal = st.bal /\ st'.released = st.released /\ st'.signed = st.signed
        /\ st'.labels = [st.labels EXCEPT ![l] = splits]
    BY <1>3, <2>1
  <2>4. IsBooks(st') /\ Accounted(st')
    BY <2>2, <2>3 DEF IsBooks, Accounted
  <2> QED BY <1>2, <2>1, <2>4 DEF Booked
<1>7. ASSUME NEW a \in Address, NEW n \in Nonces, NEW artist \in Address,
             NEW l \in Label \cup {NoLabel}, LabelAssign(a, artist, l, n)
      PROVE  EscrowInv'
  <2>1. db' = db /\ st' = [st EXCEPT !.signed[artist] = l]
    BY <1>7 DEF LabelAssign, FounderOp
  <2>2. IsBooks(st) /\ Accounted(st)
    BY DEF Booked
  <2>3. /\ {"bal", "released", "labels", "signed"} \subseteq DOMAIN st'
        /\ st'.bal = st.bal /\ st'.released = st.released /\ st'.labels = st.labels
        /\ st'.signed = [st.signed EXCEPT ![artist] = l]
    BY <1>3, <2>1
  <2>4. IsBooks(st') /\ Accounted(st')
    BY <2>2, <2>3 DEF IsBooks, Accounted
  <2> QED BY <1>2, <2>1, <2>4 DEF Booked
<1>8. ASSUME NEW a \in Address, NEW n \in Nonces, NEW motion \in Motions, Propose(a, motion, n)
      PROVE  EscrowInv'
  <2> DEFINE p == [by |-> a, nonce |-> n, motion |-> motion]
             r == [st EXCEPT !.props = @ \cup {p}]
  <2>1. db' = db /\ CountVote(r, p, a)
    BY <1>8 DEF Propose
  <2>2. p \in Proposal
    BY DEF Proposal
  <2> HIDE DEF p
  <2>3. SameBooks(st, r)
    BY <1>3 DEF SameBooks
  <2> HIDE DEF r
  <2>4. Booked(r)
    BY <2>3, SameBooked
  <2> QED BY <1>2, <2>1, <2>2, <2>4, CountVoteBooked
<1>9. ASSUME NEW a \in Address, NEW n \in Nonces, NEW p \in db.props, VoteYes(a, p, n)
      PROVE  EscrowInv'
  <2>1. db' = db /\ CountVote(st, p, a)
    BY <1>9 DEF VoteYes
  <2>2. p \in Proposal
    BY DEF GovInv, Staged, IsRows
  <2> QED BY <1>2, <2>1, <2>2, CountVoteBooked
<1> QED BY <1>4, <1>5, <1>6, <1>7, <1>8, <1>9 DEF GovernanceTx

\* Every step keeps both row stores accounted for.
LEMMA EscrowInvStep == EscrowInv /\ GovInv /\ [RatingsNext]_allVars => EscrowInv'
<1> SUFFICES ASSUME EscrowInv, GovInv, [RatingsNext]_allVars PROVE EscrowInv'
  OBVIOUS
<1>1. CASE BeginBlock
  <2>1. db' = db /\ st' = [db EXCEPT !.hides = {}]
    BY <1>1 DEF BeginBlock, Begin
  <2>2. SameBooks(db, st')
    BY <2>1 DEF SameBooks, EscrowInv, Booked, IsBooks
  <2> QED BY <2>1, <2>2, SameBooked DEF EscrowInv
<1>2. CASE CommitBlock \/ DropBlock
  BY <1>2 DEF CommitBlock, DropBlock, Commit, Drop, EscrowInv
<1>3. CASE Moderate
  BY <1>3, TxBooked DEF Moderate
<1>4. ASSUME UNCHANGED govVars PROVE EscrowInv'
  BY <1>4 DEF govVars, EscrowInv
<1>5. CASE WaitForBlock
  BY <1>4, <1>5, Zenon DEF WaitForBlock, Wait
<1>6. ASSUME NEW s \in Content, \/ \E hide \in BOOLEAN : Envelope(s, hide)
                                \/ \E a \in Address : CreditPlay(s, a)
                                \/ \E a \in Address, value \in {UP, DOWN}, n \in Nonces :
                                      apply_rating(a, s, value, n)
      PROVE  EscrowInv'
  BY <1>4, <1>6, ApartFromGovernance, Zenon
<1>7. CASE UNCHANGED allVars
  BY <1>4, <1>7, Zenon DEF allVars, vars
<1> QED BY <1>1, <1>2, <1>3, <1>5, <1>6, <1>7 DEF RatingsNext

(***************************************************************************)
(* Whatever releases execute, in whatever blocks, along whatever splits:   *)
(* what left an artist's escrow is what the releases sent, to the last     *)
(* unit, and the ledger's total does not move (execute_proposal).          *)
(***************************************************************************)
THEOREM EscrowStaysAccounted == RatingsSpec => []EscrowAccounted
<1>1. RatingsInit => EscrowInv
  BY EscrowInvInit DEF RatingsInit
<1>2. EscrowInv => EscrowAccounted
  BY DEF EscrowInv, Booked, Accounted, EscrowAccounted
<1> QED BY <1>1, <1>2, GovInvariant, EscrowInvStep, PTL DEF RatingsSpec

=============================================================================
