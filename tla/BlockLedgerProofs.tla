------------------------- MODULE BlockLedgerProofs -------------------------
(***************************************************************************)
(* Theorems about BlockLedger for every set of wallets, songs, sessions,   *)
(* proofs and epochs, every reward size, cap and threshold, and every      *)
(* length of block and chain.                                              *)
(***************************************************************************)
EXTENDS BlockLedger, BlockFacts

-----------------------------------------------------------------------------
(***************************************************************************)
(* Facts about the reward schedule.                                        *)
(***************************************************************************)

\* Integer division of naturals yields a natural.
LEMMA DivNat ==
    ASSUME NEW x \in Nat, NEW y \in Nat \ {0}
    PROVE  x \div y \in Nat
BY SMT

\* The product of naturals is a natural.
LEMMA MulNat ==
    ASSUME NEW x \in Nat, NEW y \in Nat
    PROVE  x * y \in Nat
BY SMT

\* Every lane of compute_mint_outputs names an account and a natural amount.
LEMMA OutputsType ==
    ASSUME NEW p \in PlayProof, NEW song \in SongSection, NEW pc \in Nat,
           NEW w \in Maybe
    PROVE  compute_mint_outputs(p, song, pc, w) \in Outputs
<1> USE ScheduleAssumption, NoAddrAssumption
<1>1. NoOutput \in MintOutput
  BY DEF NoOutput, MintOutput, escrow_address_for, Account, Maybe
<1>2. ASSUME NEW a \in Maybe, NEW x \in Nat
      PROVE  /\ Output(Wallet(a), x) \in MintOutput
             /\ Output(escrow_address_for(a), x) \in MintOutput
  BY <1>2 DEF Output, Wallet, escrow_address_for, Account, MintOutput
<1>3. ASSUME NEW a \in Maybe, NEW early \in BOOLEAN, NEW x \in Nat
      PROVE  Output(ArtistAccount(a, early), x) \in MintOutput
  BY <1>2, <1>3 DEF ArtistAccount
<1>4. ASSUME NEW a \in Maybe, NEW early \in BOOLEAN, NEW bp \in Nat
      PROVE  SplitOutput(a, bp, early) \in MintOutput
  <2>1. (UNIT * bp) \div BP \in Nat
    BY MulNat, DivNat
  <2> QED BY <1>1, <1>3, <2>1 DEF SplitOutput
<1>5. NoAddr \in Maybe
  BY DEF Maybe
<1> DEFINE early == pc < FULL_REWARD_THRESHOLD
           bps   == song.bp1 + song.bp2
           valid == song.hasSplits /\ bps <= BP
           cut   == (UNIT * (BP - bps)) \div BP
<1>6. /\ early \in BOOLEAN
      /\ song.artist \in Maybe /\ song.to1 \in Maybe /\ song.to2 \in Maybe
      /\ song.bp1 \in Nat /\ song.bp2 \in Nat /\ bps \in Nat
      /\ p.player \in Maybe /\ p.seeder \in Maybe /\ p.mini \in Maybe
      /\ UNIT \in Nat
  BY DEF SongSection, PlayProof
<1>7. valid => cut \in Nat
  <2>1. valid => BP - bps \in Nat
    BY <1>6
  <2> HIDE DEF bps, valid
  <2>2. ASSUME valid PROVE UNIT * (BP - bps) \in Nat
    BY <1>6, <2>1, <2>2, MulNat
  <2> QED BY <2>2, DivNat
<1> HIDE DEF early, bps, valid, cut
<1>8. compute_mint_outputs(p, song, pc, w) =
        [split1   |-> IF valid THEN SplitOutput(song.to1, song.bp1, early)
                               ELSE NoOutput,
         split2   |-> IF valid THEN SplitOutput(song.to2, song.bp2, early)
                               ELSE NoOutput,
         rest     |-> IF valid
                      THEN Output(escrow_address_for(NoAddr), cut)
                      ELSE Output(ArtistAccount(song.artist, early), UNIT),
         node     |-> Output(Wallet(w), UNIT),
         listener |-> IF early /\ p.player # NoAddr
                      THEN Output(Wallet(p.player), UNIT) ELSE NoOutput,
         seeder   |-> IF p.seeder \notin {NoAddr, p.player}
                      THEN Output(Wallet(p.seeder), UNIT) ELSE NoOutput,
         mini     |-> IF p.mini # NoAddr
                      THEN Output(Wallet(p.mini), UNIT) ELSE NoOutput]
  BY DEF compute_mint_outputs, early, bps, valid, cut
<1>9. /\ (IF valid THEN SplitOutput(song.to1, song.bp1, early)
                   ELSE NoOutput) \in MintOutput
      /\ (IF valid THEN SplitOutput(song.to2, song.bp2, early)
                   ELSE NoOutput) \in MintOutput
  BY <1>1, <1>4, <1>6
<1>10. (IF valid THEN Output(escrow_address_for(NoAddr), cut)
        ELSE Output(ArtistAccount(song.artist, early), UNIT)) \in MintOutput
  BY <1>2, <1>3, <1>5, <1>6, <1>7
<1>11. /\ Output(Wallet(w), UNIT) \in MintOutput
       /\ Output(Wallet(p.player), UNIT) \in MintOutput
       /\ Output(Wallet(p.seeder), UNIT) \in MintOutput
       /\ Output(Wallet(p.mini), UNIT) \in MintOutput
  BY <1>2, <1>6
<1> QED
  BY <1>1, <1>8, <1>9, <1>10, <1>11 DEF Outputs

\* The sum of an output list, and each recipient's part of it, are naturals.
LEMMA OutSumNat ==
    ASSUME NEW o \in Outputs
    PROVE  /\ OutSum(o) \in Nat
           /\ \A a \in Account : Collects(o, a) \in Nat
<1>1. /\ o.split1.amount \in Nat /\ o.split2.amount \in Nat
      /\ o.rest.amount \in Nat /\ o.node.amount \in Nat
      /\ o.listener.amount \in Nat /\ o.seeder.amount \in Nat
      /\ o.mini.amount \in Nat
  BY DEF Outputs, MintOutput
<1>2. OutSum(o) \in Nat
  BY <1>1 DEF OutSum
<1>3. ASSUME NEW a \in Account PROVE Collects(o, a) \in Nat
  <2>1. ASSUME NEW x, x.amount \in Nat PROVE PartOf(x, a) \in Nat
    BY <2>1 DEF PartOf
  <2>2. /\ PartOf(o.split1, a) \in Nat /\ PartOf(o.split2, a) \in Nat
        /\ PartOf(o.rest, a) \in Nat /\ PartOf(o.node, a) \in Nat
        /\ PartOf(o.listener, a) \in Nat /\ PartOf(o.seeder, a) \in Nat
        /\ PartOf(o.mini, a) \in Nat
    BY <1>1, <2>1
  <2> QED BY <2>2 DEF Collects
<1> QED BY <1>2, <1>3

\* compute_burn_rate yields a natural at every supply.
LEMMA BurnNat ==
    ASSUME NEW s \in Nat
    PROVE  compute_burn_rate(s) \in Nat
<1> USE ScheduleAssumption
<1>1. CASE s < SUPPLY_FLOOR
  BY <1>1 DEF compute_burn_rate
<1>2. CASE s >= SUPPLY_FLOOR /\ s >= SUPPLY_CAP
  BY <1>2 DEF compute_burn_rate
<1>3. CASE s >= SUPPLY_FLOOR /\ s < SUPPLY_CAP
  <2> DEFINE num == s - SUPPLY_FLOOR
             den == SUPPLY_CAP - SUPPLY_FLOOR
             m1  == (num * num) \div den
             m2  == (m1 * num) \div den
  <2>1. num \in Nat /\ den \in Nat \ {0}
    BY <1>3
  <2> HIDE DEF num, den
  <2>2. m1 \in Nat
    BY <2>1, MulNat, DivNat
  <2> HIDE DEF m1
  <2>3. m2 \in Nat
    BY <2>1, <2>2, MulNat, DivNat
  <2> HIDE DEF m2
  <2>4. (m2 * BURN_AT_CAP) \div den \in Nat
    BY <2>1, <2>3, MulNat, DivNat
  <2>5. compute_burn_rate(s) = (m2 * BURN_AT_CAP) \div den
    BY <1>3 DEF compute_burn_rate, num, den, m1, m2
  <2> QED BY <2>4, <2>5
<1> QED BY <1>1, <1>2, <1>3

-----------------------------------------------------------------------------
(***************************************************************************)
(* Facts about the operators on rows.                                      *)
(***************************************************************************)

\* Whom update_song_state leaves in the discoverer seat.
Seat(p, before) == IF before = 0 THEN p.player ELSE db.disc[p.song]

\* Nobody sits there but an address.
LEMMA SeatType ==
    ASSUME db \in Rows, NEW p \in Proof, NEW before
    PROVE  Seat(p, before) \in Maybe
<1>1. p.song \in Song /\ p.player \in Maybe
  BY LedgerAssumption DEF PlayProof
<1>2. db.disc \in [Song -> Maybe]
  BY DEF Rows
<1> QED BY <1>1, <1>2 DEF Seat

\* update_song_state touches the markers of its own proof and song only.
LEMMA UpdateRows ==
    ASSUME NEW rows \in Rows, NEW p \in Proof, NEW before \in Nat,
           Seat(p, before) \in Maybe, NEW r, r = update_song_state(rows, p, before)
    PROVE  /\ r \in Rows
           /\ r.supply = rows.supply
           /\ r.used = rows.used \cup {p.session}
           /\ r.plays = [rows.plays EXCEPT ![p.song] = before + 1]
           /\ r.disc = [rows.disc EXCEPT ![p.song] = Seat(p, before)]
           /\ r.paid = [rows.paid EXCEPT ![p] = @ + 1]
           /\ r.bal = rows.bal
<1>1. /\ p.session \in Session /\ p.song \in Song /\ p.player \in Maybe
  BY LedgerAssumption DEF PlayProof
<1> DEFINE used  == rows.used \cup {p.session}
           plays == [rows.plays EXCEPT ![p.song] = before + 1]
           disc  == [rows.disc EXCEPT ![p.song] = Seat(p, before)]
           pp    == rows.pp \cup {<<p.song, p.player>>}
           paid  == [rows.paid EXCEPT ![p] = @ + 1]
<1>2. r = [rows EXCEPT !.used = used, !.plays = plays, !.disc = disc,
                       !.pp = pp, !.paid = paid]
  BY DEF update_song_state, Seat, Rows
<1>3. /\ used \in SUBSET Session /\ plays \in [Song -> Nat]
      /\ disc \in [Song -> Maybe] /\ pp \in SUBSET (Song \X Maybe)
      /\ paid \in [Proof -> Nat]
  BY <1>1 DEF Rows
<1> HIDE DEF used, plays, disc, pp, paid
<1>4. r \in Rows
  BY <1>2, <1>3 DEF Rows
<1>5. /\ r.supply = rows.supply /\ r.used = used /\ r.plays = plays
      /\ r.disc = disc /\ r.paid = paid /\ r.bal = rows.bal
  BY <1>2 DEF Rows
<1> QED BY <1>4, <1>5 DEF used, plays, disc, paid

\* credit_many raises balances and supply and nothing else.
LEMMA CreditRows ==
    ASSUME NEW rows \in Rows, NEW credits \in [Account -> Nat],
           NEW total \in Nat, NEW r, r = credit_many(rows, credits, total)
    PROVE  /\ r \in Rows
           /\ r.supply = rows.supply + total
           /\ r.used = rows.used /\ r.plays = rows.plays
           /\ r.disc = rows.disc /\ r.paid = rows.paid
<1> DEFINE bal == [a \in Account |-> rows.bal[a] + credits[a]]
<1>1. r = [rows EXCEPT !.bal = bal, !.supply = rows.supply + total]
  BY DEF credit_many, Rows
<1>2. bal \in [Account -> Nat] /\ rows.supply + total \in Nat
  BY DEF Rows
<1> HIDE DEF bal
<1>3. r \in Rows
  BY <1>1, <1>2 DEF Rows
<1> QED BY <1>1, <1>3 DEF Rows

\* A transfer the sender can pay moves balances and nothing else.
LEMMA TransferRows ==
    ASSUME NEW rows \in Rows, NEW from \in Account, NEW to \in Account,
           NEW amount \in Nat,
           amount = 0 \/ from = to \/ rows.bal[from] >= amount,
           NEW r, r = transfer(rows, from, to, amount)
    PROVE  /\ r \in Rows
           /\ r.supply = rows.supply
           /\ r.used = rows.used /\ r.plays = rows.plays
           /\ r.disc = rows.disc /\ r.paid = rows.paid
<1>1. CASE amount = 0 \/ from = to
  BY <1>1 DEF transfer
<1>2. CASE amount # 0 /\ from # to
  <2> DEFINE bal == [rows.bal EXCEPT ![from] = @ - amount, ![to] = @ + amount]
  <2>1. r = [rows EXCEPT !.bal = bal]
    BY <1>2 DEF transfer, Rows
  <2>2. bal \in [Account -> Nat]
    BY <1>2 DEF Rows
  <2> HIDE DEF bal
  <2>3. r \in Rows
    BY <2>1, <2>2 DEF Rows
  <2> QED BY <2>1, <2>3 DEF Rows
<1> QED BY <1>1, <1>2

\* A burn the listener can pay lowers one balance and the supply.
LEMMA BurnRows ==
    ASSUME NEW rows \in Rows, NEW a \in Account, NEW amount \in Nat,
           rows.bal[a] >= amount,
           NEW r, r = burn_from(rows, a, amount)
    PROVE  /\ r \in Rows
           /\ r.supply <= rows.supply
           /\ r.used = rows.used /\ r.plays = rows.plays
           /\ r.disc = rows.disc /\ r.paid = rows.paid
<1> DEFINE bal == [rows.bal EXCEPT ![a] = @ - amount]
           sup == IF rows.supply >= amount THEN rows.supply - amount ELSE 0
<1>1. r = [rows EXCEPT !.bal = bal, !.supply = sup]
  BY DEF burn_from, Rows
<1>2. bal \in [Account -> Nat] /\ sup \in Nat /\ sup <= rows.supply
  BY DEF Rows
<1> HIDE DEF bal, sup
<1>3. r \in Rows
  BY <1>1, <1>2 DEF Rows
<1> QED BY <1>1, <1>2, <1>3 DEF Rows

(***************************************************************************)
(* Crediting a proof whose session has no u: row yet keeps PaidOnce.       *)
(***************************************************************************)
LEMMA PaidOnceStep ==
    ASSUME NEW rows \in Rows, NEW r \in Rows, NEW p \in Proof,
           PaidOnce(rows), p.session \notin rows.used,
           r.used = rows.used \cup {p.session},
           r.paid = [rows.paid EXCEPT ![p] = @ + 1]
    PROVE  PaidOnce(r)
<1>1. rows.paid \in [Proof -> Nat]
  BY DEF Rows
<1>2. ASSUME NEW q \in Proof, q.session = p.session PROVE rows.paid[q] = 0
  BY <1>1, <1>2 DEF PaidOnce
<1>3. r.paid[p] = 1 /\ \A q \in Proof : q # p => r.paid[q] = rows.paid[q]
  BY <1>1, <1>2
<1>4. \A q \in Proof : r.paid[q] <= 1
  BY <1>3 DEF PaidOnce
<1>5. \A q1, q2 \in Proof :
         r.paid[q1] > 0 /\ r.paid[q2] > 0 /\ q1.session = q2.session
           => q1 = q2
  BY <1>2, <1>3 DEF PaidOnce
<1>6. \A q \in Proof : r.paid[q] > 0 => q.session \in r.used
  BY <1>3 DEF PaidOnce
<1>7. \A s \in r.used : \E q \in Proof : q.session = s /\ r.paid[q] > 0
  <2> SUFFICES ASSUME NEW s \in r.used
               PROVE  \E q \in Proof : q.session = s /\ r.paid[q] > 0
    OBVIOUS
  <2>1. CASE s = p.session
    BY <1>3, <2>1
  <2>2. CASE s \in rows.used /\ s # p.session
    BY <1>3, <2>2 DEF PaidOnce
  <2> QED BY <2>1, <2>2
<1> QED BY <1>4, <1>5, <1>6, <1>7 DEF PaidOnce

-----------------------------------------------------------------------------
(***************************************************************************)
(* Balances.                                                               *)
(***************************************************************************)

\* There are finitely many accounts.
LEMMA AccountFinite == IsFiniteSet(Account)
BY FiniteAccounts, LedgerAssumption

\* A lane pays its recipient its amount and nobody else anything.
LEMMA PartSum ==
    ASSUME NEW x \in MintOutput
    PROVE  /\ [a \in Account |-> PartOf(x, a)] \in [Account -> Nat]
           /\ SumFunction([a \in Account |-> PartOf(x, a)]) = x.amount
<1> DEFINE zero == [a \in Account |-> 0]
           part == [a \in Account |-> PartOf(x, a)]
<1>1. x.to \in Account /\ x.amount \in Nat
  BY DEF MintOutput
<1>2. zero \in [Account -> Nat] /\ \A a \in Account : zero[a] = 0
  OBVIOUS
<1>3. /\ part \in [Account -> Nat] /\ part[x.to] = x.amount
      /\ \A a \in Account \ {x.to} : part[a] = zero[a]
  BY <1>1 DEF PartOf
<1> HIDE DEF zero, part
<1>4. SumFunction(zero) = 0
  BY <1>2, AccountFinite, SumZero
<1>5. SumFunction(part) + zero[x.to] = SumFunction(zero) + part[x.to]
  BY <1>1, <1>2, <1>3, AccountFinite, SumExcept
<1>6. SumFunction(part) \in Nat
  BY <1>3, AccountFinite, SumNat
<1>7. SumFunction(part) = x.amount
  BY <1>1, <1>2, <1>3, <1>4, <1>5, <1>6
<1> QED BY <1>3, <1>7 DEF part

(***************************************************************************)
(* What the recipients collect from an output list is what the list adds   *)
(* to the supply, whichever lanes name one account.                        *)
(***************************************************************************)
LEMMA CollectsSum ==
    ASSUME NEW o \in Outputs
    PROVE  SumFunction([a \in Account |-> Collects(o, a)]) = OutSum(o)
<1> DEFINE part(x) == [a \in Account |-> PartOf(x, a)]
           plus(f, h) == [a \in Account |-> f[a] + h[a]]
<1>1. /\ o.split1 \in MintOutput /\ o.split2 \in MintOutput
      /\ o.rest \in MintOutput /\ o.node \in MintOutput
      /\ o.listener \in MintOutput /\ o.seeder \in MintOutput
      /\ o.mini \in MintOutput
  BY DEF Outputs
<1>2. [a \in Account |-> Collects(o, a)]
        = plus(plus(plus(plus(plus(plus(part(o.split1), part(o.split2)),
                 part(o.rest)), part(o.node)), part(o.listener)),
                 part(o.seeder)), part(o.mini))
  BY DEF Collects
<1>3. \A x \in MintOutput : /\ part(x) \in [Account -> Nat]
                            /\ SumFunction(part(x)) = x.amount
  BY PartSum
<1>4. ASSUME NEW f \in [Account -> Nat], NEW h \in [Account -> Nat]
      PROVE  /\ plus(f, h) \in [Account -> Nat]
             /\ SumFunction(plus(f, h)) = SumFunction(f) + SumFunction(h)
  <2> DEFINE k == plus(f, h)
  <2>1. k \in [Account -> Nat] /\ \A a \in Account : k[a] = f[a] + h[a]
    OBVIOUS
  <2> HIDE DEF k
  <2>2. SumFunction(k) = SumFunction(f) + SumFunction(h)
    BY <2>1, AccountFinite, SumAdd
  <2> QED BY <2>1, <2>2 DEF k
<1> HIDE DEF part, plus
<1> DEFINE s2 == plus(part(o.split1), part(o.split2))
           s3 == plus(s2, part(o.rest))
           s4 == plus(s3, part(o.node))
           s5 == plus(s4, part(o.listener))
           s6 == plus(s5, part(o.seeder))
           s7 == plus(s6, part(o.mini))
<1>5. /\ s2 \in [Account -> Nat]
      /\ SumFunction(s2) = o.split1.amount + o.split2.amount
  BY <1>1, <1>3, <1>4
<1> HIDE DEF s2
<1>6. s3 \in [Account -> Nat] /\ SumFunction(s3) = SumFunction(s2) + o.rest.amount
  BY <1>1, <1>3, <1>4, <1>5
<1> HIDE DEF s3
<1>7. s4 \in [Account -> Nat] /\ SumFunction(s4) = SumFunction(s3) + o.node.amount
  BY <1>1, <1>3, <1>4, <1>6
<1> HIDE DEF s4
<1>8. /\ s5 \in [Account -> Nat]
      /\ SumFunction(s5) = SumFunction(s4) + o.listener.amount
  BY <1>1, <1>3, <1>4, <1>7
<1> HIDE DEF s5
<1>9. s6 \in [Account -> Nat] /\ SumFunction(s6) = SumFunction(s5) + o.seeder.amount
  BY <1>1, <1>3, <1>4, <1>8
<1> HIDE DEF s6
<1>10. SumFunction(s7) = SumFunction(s6) + o.mini.amount
  BY <1>1, <1>3, <1>4, <1>9
<1>11. [a \in Account |-> Collects(o, a)] = s7
  BY <1>2 DEF s2, s3, s4, s5, s6
<1> HIDE DEF s7
<1> QED BY <1>5, <1>6, <1>7, <1>8, <1>9, <1>10, <1>11 DEF OutSum

\* credit_many keeps the sheet balanced when total is what it credits.
LEMMA CreditBalanced ==
    ASSUME NEW rows \in Rows, Balanced(rows), NEW credits \in [Account -> Nat],
           NEW total \in Nat, total = SumFunction(credits),
           NEW r, r = credit_many(rows, credits, total)
    PROVE  Balanced(r)
<1> DEFINE b0 == rows.bal
           b1 == [a \in Account |-> b0[a] + credits[a]]
<1>1. b0 \in [Account -> Nat] /\ rows.supply = SumFunction(b0)
  BY DEF Rows, Balanced
<1>2. r.bal = b1 /\ r.supply = rows.supply + total
  BY DEF credit_many, Rows
<1> HIDE DEF b0
<1>3. b1 \in [Account -> Nat] /\ \A a \in Account : b1[a] = b0[a] + credits[a]
  BY <1>1
<1> HIDE DEF b1
<1>4. SumFunction(b1) = SumFunction(b0) + SumFunction(credits)
  BY <1>1, <1>3, AccountFinite, SumAdd
<1> QED BY <1>1, <1>2, <1>4 DEF Balanced

\* A transfer the sender can pay keeps the sheet balanced.
LEMMA TransferBalanced ==
    ASSUME NEW rows \in Rows, Balanced(rows), NEW from \in Account,
           NEW to \in Account, NEW amount \in Nat,
           amount = 0 \/ from = to \/ rows.bal[from] >= amount,
           NEW r, r = transfer(rows, from, to, amount)
    PROVE  Balanced(r)
<1>1. CASE amount = 0 \/ from = to
  BY <1>1 DEF transfer
<1>2. CASE amount # 0 /\ from # to
  <2> DEFINE b0 == rows.bal
             b1 == [b0 EXCEPT ![from] = b0[from] - amount]
             b2 == [b1 EXCEPT ![to] = b1[to] + amount]
  <2>1. /\ b0 \in [Account -> Nat] /\ b0[from] - amount \in Nat
        /\ rows.supply = SumFunction(b0)
    BY <1>2 DEF Rows, Balanced
  <2>2. r.bal = b2 /\ r.supply = rows.supply
    BY <1>2, <2>1 DEF transfer, Rows
  <2> HIDE DEF b0
  <2>3. /\ b1 \in [Account -> Nat] /\ b1[from] = b0[from] - amount
        /\ \A a \in Account \ {from} : b1[a] = b0[a]
    BY <2>1
  <2> HIDE DEF b1
  <2>4. /\ b2 \in [Account -> Nat] /\ b2[to] = b1[to] + amount
        /\ \A a \in Account \ {to} : b2[a] = b1[a]
    BY <2>3
  <2> HIDE DEF b2
  <2>5. SumFunction(b1) + b0[from] = SumFunction(b0) + b1[from]
    BY <2>1, <2>3, AccountFinite, SumExcept
  <2>6. SumFunction(b2) + b1[to] = SumFunction(b1) + b2[to]
    BY <2>3, <2>4, AccountFinite, SumExcept
  <2>7. /\ SumFunction(b0) \in Nat /\ SumFunction(b1) \in Nat
        /\ SumFunction(b2) \in Nat /\ b0[from] \in Nat /\ b1[to] \in Nat
    BY <2>1, <2>3, <2>4, AccountFinite, SumNat
  <2>8. SumFunction(b2) = SumFunction(b0)
    BY <2>3, <2>4, <2>5, <2>6, <2>7
  <2> QED BY <2>1, <2>2, <2>8 DEF Balanced
<1> QED BY <1>1, <1>2

(***************************************************************************)
(* A burn the listener can pay keeps the sheet balanced: the account holds *)
(* no more than the supply, so decrement_supply never saturates.           *)
(***************************************************************************)
LEMMA BurnBalanced ==
    ASSUME NEW rows \in Rows, Balanced(rows), NEW a \in Account,
           NEW amount \in Nat, rows.bal[a] >= amount,
           NEW r, r = burn_from(rows, a, amount)
    PROVE  Balanced(r)
<1> DEFINE b0 == rows.bal
           b1 == [b0 EXCEPT ![a] = b0[a] - amount]
<1>1. /\ b0 \in [Account -> Nat] /\ b0[a] - amount \in Nat
      /\ b0[a] >= amount /\ rows.supply = SumFunction(b0)
  BY DEF Rows, Balanced
<1>2. /\ r.bal = b1
      /\ r.supply = IF rows.supply >= amount THEN rows.supply - amount ELSE 0
  BY DEF burn_from, Rows
<1> HIDE DEF b0
<1>3. /\ b1 \in [Account -> Nat] /\ b1[a] = b0[a] - amount
      /\ \A c \in Account \ {a} : b1[c] = b0[c]
  BY <1>1
<1> HIDE DEF b1
<1>4. SumFunction(b1) + b0[a] = SumFunction(b0) + b1[a]
  BY <1>1, <1>3, AccountFinite, SumExcept
<1>5. /\ SumFunction(b0) \in Nat /\ SumFunction(b1) \in Nat
      /\ b0[a] \in Nat /\ b0[a] <= SumFunction(b0)
  BY <1>1, <1>3, AccountFinite, SumNat, SumBound
<1>6. SumFunction(b1) = SumFunction(b0) - amount /\ SumFunction(b0) >= amount
  BY <1>1, <1>3, <1>4, <1>5
<1> QED BY <1>1, <1>2, <1>6 DEF Balanced

\* A relay reward adds the same to one account and to the supply.
LEMMA RewardBalanced ==
    ASSUME NEW rows \in Rows, Balanced(rows), NEW a \in Account,
           NEW amount \in Nat, NEW r,
           r.bal = [rows.bal EXCEPT ![a] = @ + amount],
           r.supply = rows.supply + amount
    PROVE  Balanced(r)
<1> DEFINE b0 == rows.bal
           b1 == [b0 EXCEPT ![a] = b0[a] + amount]
<1>1. b0 \in [Account -> Nat] /\ rows.supply = SumFunction(b0) /\ r.bal = b1
  BY DEF Rows, Balanced
<1> HIDE DEF b0
<1>2. /\ b1 \in [Account -> Nat] /\ b1[a] = b0[a] + amount
      /\ \A c \in Account \ {a} : b1[c] = b0[c]
  BY <1>1
<1> HIDE DEF b1
<1>3. SumFunction(b1) + b0[a] = SumFunction(b0) + b1[a]
  BY <1>1, <1>2, AccountFinite, SumExcept
<1>4. SumFunction(b0) \in Nat /\ SumFunction(b1) \in Nat /\ b0[a] \in Nat
  BY <1>1, <1>2, AccountFinite, SumNat
<1>5. SumFunction(b1) = SumFunction(b0) + amount
  BY <1>2, <1>3, <1>4
<1> QED BY <1>1, <1>5 DEF Balanced

-----------------------------------------------------------------------------
(***************************************************************************)
(* The inductive invariant.                                                *)
(***************************************************************************)

\* The genesis rows satisfy the invariant.
LEMMA LedgerInvInit == Init => LedgerInv
<1> SUFFICES ASSUME Init PROVE LedgerInv
  OBVIOUS
<1>1. ScopeInv /\ ~applying
  BY ScopeInvInit DEF Init, ScopeInit
<1>2. GenesisRows \in Rows
  BY LedgerAssumption DEF GenesisRows, Rows, Maybe
<1>3. NoWalk \in Walk
  BY DEF NoWalk, Walk, Maybe
<1>4. TypeOK
  BY <1>1, <1>2, <1>3 DEF TypeOK, Init, ScopeInv
<1>5. PaidOnce(db)
  BY DEF Init, GenesisRows, PaidOnce
<1>6. SupplyCapped
  BY ScheduleAssumption DEF Init, GenesisRows, SupplyCapped
<1>7. ~walk.open /\ \A s \in Song : walk.ord[s] # 0
  BY DEF Init, NoWalk, NoCount
<1>8. LedgerBalanced
  <2> DEFINE zero == [a \in Account |-> 0]
  <2>1. zero \in [Account -> Nat] /\ \A a \in Account : zero[a] = 0
    OBVIOUS
  <2>2. db.bal = zero /\ db.supply = 0
    BY DEF Init, GenesisRows
  <2> HIDE DEF zero
  <2> QED BY <2>1, <2>2, AccountFinite, SumZero DEF LedgerBalanced, Balanced
<1>9. PlayCountBounded
  <2>1. \A s \in Song : db.plays[s] = 0 /\ PaidFor(db, s) = {}
    BY DEF Init, GenesisRows, PaidFor
  <2> QED BY <2>1, FS_EmptySet DEF PlayCountBounded, CountsBounded
<1>10. BooksInv
  BY <1>1, <1>7, <1>8, <1>9 DEF BooksInv, BalanceInv, CountInv
<1> QED
  BY <1>1, <1>4, <1>5, <1>6, <1>7, <1>10
  DEF StagedInv, SupplyInv, SessionInv, SessionPaidOnce, DiscInv, WalkInv,
      LedgerInv

\* The operands of a credited play have their types.
LEMMA PlayTypes ==
    ASSUME TypeOK, NEW p \in Proof
    PROVE  /\ p \in PlayProof /\ p.song \in Song /\ p.session \in Session
           /\ p.node \in Maybe /\ p.player \in Maybe
           /\ Wallet(p.player) \in Account
           /\ SongInfo[p.song] \in SongSection
           /\ db.plays[p.song] \in Nat /\ db.supply \in Nat
           /\ st.supply \in Nat
<1>1. p \in PlayProof
  BY LedgerAssumption
<1>2. /\ p.song \in Song /\ p.session \in Session /\ p.node \in Maybe
      /\ p.player \in Maybe
  BY <1>1 DEF PlayProof, Maybe
<1>3. SongInfo[p.song] \in SongSection
  BY <1>2, ScheduleAssumption
<1>4. db.plays[p.song] \in Nat /\ db.supply \in Nat /\ st.supply \in Nat
  BY <1>2 DEF TypeOK, Rows
<1>5. Wallet(p.player) \in Account
  BY <1>2 DEF Wallet, Account
<1> QED BY <1>1, <1>2, <1>3, <1>4, <1>5

(***************************************************************************)
(* A transaction that leaves the rows of sessions, plays and discoverers   *)
(* alone, and the supply at most at the cap, keeps the invariant.          *)
(***************************************************************************)
LEMMA QuietTx ==
    ASSUME StagedInv, BooksInv, applying, applying', ~walk.open, ScopeInv',
           UNCHANGED <<db, inBlock, walk>>,
           st' \in Rows, st'.supply <= SUPPLY_CAP,
           st'.used = st.used, st'.plays = st.plays, st'.disc = st.disc,
           st'.paid = st.paid, Balanced(st')
    PROVE  LedgerInv'
<1>1. TypeOK'
  BY DEF StagedInv, TypeOK, ScopeInv
<1>2. SupplyInv'
  BY DEF StagedInv, SupplyInv, SupplyCapped
<1>3. SessionInv'
  BY DEF StagedInv, SessionInv, SessionPaidOnce, PaidOnce
<1>4. DiscInv'
  BY DEF StagedInv, DiscInv
<1>5. WalkInv'
  BY DEF StagedInv, WalkInv
<1>6. BooksInv'
  BY DEF BooksInv, BalanceInv, LedgerBalanced, Balanced, CountInv,
         PlayCountBounded, CountsBounded, PaidFor
<1> QED BY <1>1, <1>2, <1>3, <1>4, <1>5, <1>6 DEF StagedInv, LedgerInv

(***************************************************************************)
(* What crediting one play does to the session and discoverer parts of the *)
(* invariant, common to apply_mint and to a settlement leaf.               *)
(***************************************************************************)
LEMMA PlayCredited ==
    ASSUME StagedInv, applying, NEW p \in Proof, NEW before \in Nat,
           before = 0 => db.plays[p.song] = 0,
           p.session \notin db.used, p.session \notin inBlock,
           db' = db, applying', inBlock' = inBlock \cup {p.session},
           st' \in Rows,
           st'.used = st.used \cup {p.session},
           st'.plays = [st.plays EXCEPT ![p.song] = before + 1],
           st'.disc = [st.disc EXCEPT ![p.song] = Seat(p, before)],
           st'.paid = [st.paid EXCEPT ![p] = @ + 1]
    PROVE  SessionInv' /\ DiscInv'
<1>1. /\ st \in Rows /\ PaidOnce(db) /\ PaidOnce(st)
      /\ st.used = db.used \cup inBlock
  BY DEF StagedInv, TypeOK, SessionInv, SessionPaidOnce
<1>2. PaidOnce(st')
  BY <1>1, PaidOnceStep
<1>3. SessionInv'
  <2>1. PaidOnce(db)' /\ PaidOnce(st)'
    BY <1>1, <1>2 DEF PaidOnce
  <2>2. (st.used = db.used \cup inBlock)'
    BY <1>1
  <2> QED BY <2>1, <2>2 DEF SessionInv, SessionPaidOnce
<1>4. DiscInv'
  <2>1. p.song \in Song /\ st.plays \in [Song -> Nat] /\ st.disc \in [Song -> Maybe]
    BY PlayTypes, <1>1 DEF Rows, StagedInv
  <2>2. ASSUME NEW s \in Song, db.plays[s] > 0
        PROVE  st'.disc[s] = db.disc[s] /\ st'.plays[s] > 0
    <3>1. st.disc[s] = db.disc[s] /\ st.plays[s] > 0
      BY <2>2 DEF StagedInv, DiscInv
    <3>2. CASE s = p.song
      <4>1. before > 0
        BY <2>2, <3>2
      <4> QED BY <2>1, <3>1, <3>2, <4>1 DEF Seat
    <3>3. CASE s # p.song
      BY <2>1, <3>1, <3>3
    <3> QED BY <3>2, <3>3
  <2> QED BY <2>2 DEF DiscInv
<1> QED BY <1>3, <1>4

(***************************************************************************)
(* What crediting one play does to the counts: the song has one play paid  *)
(* more, every other song as many as before.                               *)
(***************************************************************************)
LEMMA PlayCounted ==
    ASSUME StagedInv, BooksInv, applying, NEW p \in Proof, NEW before \in Nat,
           before <= Cardinality(PaidFor(st, p.song)),
           p.session \notin db.used, p.session \notin inBlock,
           db' = db, st' \in Rows,
           st'.plays = [st.plays EXCEPT ![p.song] = before + 1],
           st'.paid = [st.paid EXCEPT ![p] = @ + 1]
    PROVE  /\ PlayCountBounded' /\ CountsBounded(st')
           /\ \A q \in Proof : db'.paid[q] > 0 => st'.paid[q] > 0
           /\ \A s \in Song : Cardinality(PaidFor(st, s))
                                <= Cardinality(PaidFor(st', s))
           /\ before + 1 <= Cardinality(PaidFor(st', p.song))
<1>1. /\ st \in Rows /\ st.paid \in [Proof -> Nat] /\ st.plays \in [Song -> Nat]
      /\ PaidOnce(st) /\ st.used = db.used \cup inBlock
      /\ CountsBounded(st) /\ CountsBounded(db)
      /\ \A q \in Proof : db.paid[q] > 0 => st.paid[q] > 0
      /\ p.song \in Song
  BY PlayTypes DEF StagedInv, TypeOK, SessionInv, Rows, BooksInv, CountInv,
                   PlayCountBounded
<1>2. st.paid[p] = 0
  BY <1>1 DEF PaidOnce
<1>3. st'.paid[p] = 1 /\ \A q \in Proof : q # p => st'.paid[q] = st.paid[q]
  BY <1>1, <1>2
<1>4. /\ PaidFor(st', p.song) = PaidFor(st, p.song) \cup {p}
      /\ p \notin PaidFor(st, p.song)
  BY <1>2, <1>3 DEF PaidFor
<1>5. ASSUME NEW s \in Song, s # p.song PROVE PaidFor(st', s) = PaidFor(st, s)
  BY <1>3, <1>5 DEF PaidFor
<1>6. \A s : IsFiniteSet(PaidFor(st, s)) /\ Cardinality(PaidFor(st, s)) \in Nat
  <2>1. \A s : PaidFor(st, s) \subseteq Proof
    BY DEF PaidFor
  <2> QED BY <2>1, LedgerAssumption, FS_Subset, FS_CardinalityType
<1>7. Cardinality(PaidFor(st', p.song)) = Cardinality(PaidFor(st, p.song)) + 1
  BY <1>4, <1>6, FS_AddElement
<1>8. CountsBounded(st')
  <2> SUFFICES ASSUME NEW s \in Song
               PROVE  /\ st'.plays[s] <= Cardinality(PaidFor(st', s))
                      /\ PaidFor(st', s) # {} => st'.plays[s] > 0
    BY DEF CountsBounded
  <2>1. CASE s = p.song
    BY <1>1, <1>6, <1>7, <2>1
  <2>2. CASE s # p.song
    <3>1. st'.plays[s] = st.plays[s]
      BY <1>1, <2>2
    <3> QED BY <1>1, <1>5, <2>2, <3>1 DEF CountsBounded
  <2> QED BY <2>1, <2>2
<1>9. \A q \in Proof : db'.paid[q] > 0 => st'.paid[q] > 0
  BY <1>1, <1>3
<1>10. \A s \in Song : Cardinality(PaidFor(st, s)) <= Cardinality(PaidFor(st', s))
  <2> SUFFICES ASSUME NEW s \in Song
               PROVE  Cardinality(PaidFor(st, s)) <= Cardinality(PaidFor(st', s))
    OBVIOUS
  <2>1. CASE s = p.song
    BY <1>6, <1>7, <2>1
  <2>2. CASE s # p.song
    BY <1>5, <1>6, <2>2
  <2> QED BY <2>1, <2>2
<1>11. PlayCountBounded'
  BY <1>1 DEF PlayCountBounded, CountsBounded, PaidFor
<1> QED BY <1>6, <1>7, <1>8, <1>9, <1>10, <1>11

\* The committed count of a song is at most the plays the open block sees paid.
LEMMA CommittedCount ==
    ASSUME StagedInv, BooksInv, applying, NEW s \in Song
    PROVE  db.plays[s] <= Cardinality(PaidFor(st, s))
<1>1. /\ CountsBounded(db)
      /\ \A q \in Proof : db.paid[q] > 0 => st.paid[q] > 0
      /\ db.plays[s] \in Nat
  BY DEF BooksInv, CountInv, PlayCountBounded, StagedInv, TypeOK, Rows
<1>2. PaidFor(db, s) \subseteq PaidFor(st, s) /\ PaidFor(st, s) \subseteq Proof
  BY <1>1 DEF PaidFor
<1>3. IsFiniteSet(PaidFor(st, s))
  BY <1>2, LedgerAssumption, FS_Subset
<1>4. /\ Cardinality(PaidFor(db, s)) <= Cardinality(PaidFor(st, s))
      /\ Cardinality(PaidFor(db, s)) \in Nat
      /\ Cardinality(PaidFor(st, s)) \in Nat
  BY <1>2, <1>3, FS_Subset, FS_CardinalityType
<1>5. db.plays[s] <= Cardinality(PaidFor(db, s))
  BY <1>1 DEF CountsBounded
<1> QED BY <1>1, <1>4, <1>5

\* The MINT branch keeps the invariant.
LEMMA MintStep ==
    ASSUME StagedInv, BooksInv, NEW p \in Proof, apply_mint(p), ScopeInv'
    PROVE  LedgerInv'
<1> DEFINE before == db.plays[p.song]
           outs   == compute_mint_outputs(p, SongInfo[p.song], before, p.node)
           burn   == BurnFor(before, db.supply)
           total  == OutSum(outs)
           rows   == IF burn > 0 THEN burn_from(st, Wallet(p.player), burn)
                                 ELSE st
           upd    == update_song_state(rows, p, before)
           cred   == [a \in Account |-> Collects(outs, a)]
           paidTo == credit_many(upd, cred, total)
<1>1. /\ applying /\ applying' /\ ~walk.open
      /\ p.session \notin db.used /\ p.session \notin inBlock
      /\ total > 0 => st.supply + total <= SUPPLY_CAP
      /\ burn > 0 => st.bal[Wallet(p.player)] >= burn
      /\ inBlock' = inBlock \cup {p.session}
      /\ st' = [paidTo EXCEPT !.weight = @ + 1, !.earner[p] = p.node]
      /\ db' = db /\ walk' = walk
  BY DEF apply_mint, check_play, NoNonceUsed, NextTx
<1>2. /\ TypeOK /\ db \in Rows /\ st \in Rows /\ st.supply <= SUPPLY_CAP
  BY <1>1 DEF StagedInv, TypeOK, SupplyInv
<1>3. /\ p \in PlayProof /\ p.node \in Maybe /\ Wallet(p.player) \in Account
      /\ SongInfo[p.song] \in SongSection /\ before \in Nat /\ p.song \in Song
      /\ db.supply \in Nat /\ st.supply \in Nat /\ p.session \in Session
  BY <1>2, PlayTypes
<1>4. outs \in Outputs
  BY <1>3, OutputsType
<1>5. total \in Nat /\ cred \in [Account -> Nat] /\ total = SumFunction(cred)
  <2>1. total = SumFunction(cred)
    BY <1>4, CollectsSum
  <2> QED BY <1>4, <2>1, OutSumNat
<1>6. burn \in Nat
  BY <1>3, BurnNat DEF BurnFor
<1> HIDE DEF outs, burn, total, cred, before
<1>7. /\ rows \in Rows /\ rows.supply <= st.supply
      /\ rows.used = st.used /\ rows.plays = st.plays
      /\ rows.disc = st.disc /\ rows.paid = st.paid
      /\ Balanced(rows)
  <2>0. Balanced(st)
    BY <1>1 DEF BooksInv, BalanceInv
  <2>1. CASE burn > 0
    BY <1>1, <1>2, <1>3, <1>6, <2>0, <2>1, BurnRows, BurnBalanced
  <2>2. CASE ~(burn > 0)
    BY <1>2, <1>3, <2>0, <2>2
  <2> QED BY <2>1, <2>2
<1> HIDE DEF rows
<1>8. /\ upd \in Rows /\ upd.supply = rows.supply /\ upd.bal = rows.bal
      /\ upd.used = rows.used \cup {p.session}
      /\ upd.plays = [rows.plays EXCEPT ![p.song] = before + 1]
      /\ upd.disc = [rows.disc EXCEPT ![p.song] = Seat(p, before)]
      /\ upd.paid = [rows.paid EXCEPT ![p] = @ + 1]
  <2>1. upd = update_song_state(rows, p, before)
    OBVIOUS
  <2>2. Seat(p, before) \in Maybe
    BY <1>2, SeatType
  <2> HIDE DEF upd
  <2> QED BY <1>3, <1>7, <2>1, <2>2, UpdateRows
<1> HIDE DEF upd
<1>9. /\ paidTo \in Rows /\ paidTo.supply = upd.supply + total
      /\ paidTo.used = upd.used /\ paidTo.plays = upd.plays
      /\ paidTo.disc = upd.disc /\ paidTo.paid = upd.paid
      /\ Balanced(paidTo)
  <2>1. upd \in Rows /\ Balanced(upd)
    BY <1>7, <1>8 DEF Balanced
  <2> HIDE DEF paidTo
  <2>2. paidTo = credit_many(upd, cred, total)
    BY DEF paidTo
  <2> QED BY <1>5, <2>1, <2>2, CreditRows, CreditBalanced
<1> HIDE DEF paidTo
<1>10. /\ st' \in Rows
       /\ st'.supply = paidTo.supply /\ st'.used = paidTo.used
       /\ st'.plays = paidTo.plays /\ st'.disc = paidTo.disc
       /\ st'.paid = paidTo.paid /\ st'.bal = paidTo.bal
  <2> DEFINE w == paidTo.weight + 1
             e == [paidTo.earner EXCEPT ![p] = p.node]
  <2>1. st' = [paidTo EXCEPT !.weight = w, !.earner = e]
    BY <1>1, <1>9 DEF Rows
  <2>2. w \in Nat /\ e \in [Proof -> Maybe]
    BY <1>3, <1>9 DEF Rows
  <2> HIDE DEF w, e
  <2>3. st' \in Rows
    BY <1>9, <2>1, <2>2 DEF Rows
  <2> QED BY <1>9, <2>1, <2>3 DEF Rows
<1>11. st'.supply <= SUPPLY_CAP
  <2>1. st'.supply = rows.supply + total /\ rows.supply \in Nat
    BY <1>7, <1>8, <1>9, <1>10 DEF Rows
  <2> QED BY <1>1, <1>2, <1>3, <1>5, <1>7, <2>1, ScheduleAssumption
<1>12. SessionInv' /\ DiscInv'
  <2>1. /\ st'.used = st.used \cup {p.session}
        /\ st'.plays = [st.plays EXCEPT ![p.song] = before + 1]
        /\ st'.disc = [st.disc EXCEPT ![p.song] = Seat(p, before)]
        /\ st'.paid = [st.paid EXCEPT ![p] = @ + 1]
    BY <1>7, <1>8, <1>9, <1>10
  <2>2. before = 0 => db.plays[p.song] = 0
    BY DEF before
  <2> QED BY <1>1, <1>3, <1>10, <2>1, <2>2, PlayCredited
<1>13. TypeOK'
  BY <1>1, <1>2, <1>3, <1>10 DEF TypeOK, ScopeInv
<1>14. SupplyInv'
  BY <1>1, <1>11 DEF StagedInv, SupplyInv, SupplyCapped
<1>15. WalkInv'
  BY <1>1 DEF StagedInv, WalkInv
<1>16. BooksInv'
  <2>1. /\ st'.plays = [st.plays EXCEPT ![p.song] = before + 1]
        /\ st'.paid = [st.paid EXCEPT ![p] = @ + 1]
    BY <1>7, <1>8, <1>9, <1>10
  <2>2. before <= Cardinality(PaidFor(st, p.song))
    BY <1>1, <1>3, CommittedCount DEF before
  <2>3. CountInv'
    <3>1. /\ PlayCountBounded' /\ CountsBounded(st')
          /\ \A q \in Proof : db'.paid[q] > 0 => st'.paid[q] > 0
      BY <1>1, <1>3, <1>10, <2>1, <2>2, PlayCounted
    <3> QED BY <1>1, <3>1 DEF CountInv, CountsBounded, PaidFor
  <2>4. BalanceInv'
    <3>1. Balanced(st')
      BY <1>9, <1>10 DEF Balanced
    <3> QED BY <1>1, <3>1 DEF BooksInv, BalanceInv, LedgerBalanced, Balanced
  <2> QED BY <2>3, <2>4 DEF BooksInv
<1> QED BY <1>12, <1>13, <1>14, <1>15, <1>16 DEF StagedInv, LedgerInv

\* An accepted settlement leaf keeps the invariant.
LEMMA LeafStep ==
    ASSUME StagedInv, BooksInv, NEW p \in Proof, AcceptLeaf(p), ScopeInv'
    PROVE  LedgerInv'
<1> DEFINE before == LeafCount(p)
           outs   == LeafOutputs(p)
           total  == OutSum(outs)
           upd    == update_song_state(st, p, before)
           coll   == [a \in Account |-> Collects(outs, a)]
           cred   == [a \in Account |-> walk.credits[a] + Collects(outs, a)]
<1>1. /\ applying /\ applying' /\ walk.open
      /\ p.session \notin db.used /\ p.session \notin inBlock
      /\ total > 0 => walk.running + total <= SUPPLY_CAP
      /\ inBlock' = inBlock \cup {p.session}
      /\ st' = [upd EXCEPT !.earner[p] = walk.node]
      /\ db' = db
  BY DEF AcceptLeaf, LeafAccepted, check_play, SameTx, scopeVars
<1>2. /\ TypeOK /\ db \in Rows /\ st \in Rows /\ walk \in Walk
      /\ walk.node \in Maybe /\ walk.ord \in [Song -> Nat \cup {NoCount}]
      /\ walk.running \in Nat /\ walk.credits \in [Account -> Nat]
      /\ \A s \in Song : walk.ord[s] # 0
      /\ walk.node \in Address /\ walk.epoch \in Epoch
      /\ walk.base = st.supply
      /\ walk.base <= walk.running /\ walk.running <= SUPPLY_CAP
  BY <1>1 DEF StagedInv, TypeOK, Walk, WalkInv
<1>3. /\ p \in PlayProof /\ p.song \in Song
      /\ SongInfo[p.song] \in SongSection /\ db.plays[p.song] \in Nat
      /\ p.session \in Session
  BY <1>2, PlayTypes
<1>4. before \in Nat /\ (before = 0 => db.plays[p.song] = 0)
  BY <1>2, <1>3 DEF LeafCount, NoCount
<1> HIDE DEF before
<1>5. outs \in Outputs
  BY <1>2, <1>3, <1>4, OutputsType DEF LeafOutputs, before
<1> HIDE DEF outs
<1>6. /\ total \in Nat /\ \A a \in Account : Collects(outs, a) \in Nat
      /\ SumFunction(coll) = total
  BY <1>5, OutSumNat, CollectsSum
<1> HIDE DEF total
<1>7. /\ cred \in [Account -> Nat]
      /\ SumFunction(cred) = SumFunction(walk.credits) + total
  <2>1. /\ cred \in [Account -> Nat] /\ coll \in [Account -> Nat]
        /\ \A a \in Account : cred[a] = walk.credits[a] + coll[a]
    BY <1>2, <1>6
  <2> HIDE DEF cred, coll
  <2> QED BY <1>2, <1>6, <2>1, AccountFinite, SumAdd
<1> HIDE DEF cred
<1>8. walk' = [walk EXCEPT !.todo = walk.todo \ {p}, !.credits = cred,
                 !.running = walk.running + total,
                 !.ord = [walk.ord EXCEPT ![p.song] = before + 1]]
  BY <1>2 DEF AcceptLeaf, Walk, outs, total, before, cred
<1>9. /\ walk' \in Walk
      /\ walk'.open = walk.open /\ walk'.node = walk.node
      /\ walk'.epoch = walk.epoch /\ walk'.base = walk.base
      /\ walk'.running = walk.running + total /\ walk'.credits = cred
      /\ walk'.ord = [walk.ord EXCEPT ![p.song] = before + 1]
  <2> DEFINE o == [walk.ord EXCEPT ![p.song] = before + 1]
  <2>1. /\ walk.todo \ {p} \in SUBSET Proof
        /\ walk.running + total \in Nat
        /\ o \in [Song -> Nat \cup {NoCount}]
    BY <1>2, <1>3, <1>4, <1>6 DEF Walk
  <2> HIDE DEF o
  <2>2. walk' = [walk EXCEPT !.todo = walk.todo \ {p}, !.credits = cred,
                 !.running = walk.running + total, !.ord = o]
    BY <1>8 DEF o
  <2>3. walk' \in Walk
    BY <1>2, <1>7, <2>1, <2>2 DEF Walk
  <2>4. /\ walk'.open = walk.open /\ walk'.node = walk.node
        /\ walk'.epoch = walk.epoch /\ walk'.base = walk.base
        /\ walk'.running = walk.running + total /\ walk'.ord = o
        /\ walk'.credits = cred
    BY <1>2, <2>2 DEF Walk
  <2> QED BY <2>3, <2>4 DEF o
<1>10. /\ upd \in Rows /\ upd.supply = st.supply /\ upd.bal = st.bal
       /\ upd.used = st.used \cup {p.session}
       /\ upd.plays = [st.plays EXCEPT ![p.song] = before + 1]
       /\ upd.disc = [st.disc EXCEPT ![p.song] = Seat(p, before)]
       /\ upd.paid = [st.paid EXCEPT ![p] = @ + 1]
  <2>1. upd = update_song_state(st, p, before)
    OBVIOUS
  <2>2. st \in Rows /\ Seat(p, before) \in Maybe
    BY <1>2, SeatType
  <2> HIDE DEF upd
  <2> QED BY <1>4, <2>1, <2>2, UpdateRows
<1> HIDE DEF upd
<1>11. /\ st' \in Rows
       /\ st'.supply = upd.supply /\ st'.used = upd.used
       /\ st'.plays = upd.plays /\ st'.disc = upd.disc
       /\ st'.paid = upd.paid /\ st'.bal = upd.bal
  <2> DEFINE e == [upd.earner EXCEPT ![p] = walk.node]
  <2>1. st' = [upd EXCEPT !.earner = e]
    BY <1>1, <1>10 DEF Rows
  <2>2. e \in [Proof -> Maybe]
    BY <1>2, <1>10 DEF Rows
  <2> HIDE DEF e
  <2>3. st' \in Rows
    BY <1>10, <2>1, <2>2 DEF Rows
  <2> QED BY <1>10, <2>1, <2>3 DEF Rows
<1>12. SessionInv' /\ DiscInv'
  <2>1. /\ st'.used = st.used \cup {p.session}
        /\ st'.plays = [st.plays EXCEPT ![p.song] = before + 1]
        /\ st'.disc = [st.disc EXCEPT ![p.song] = Seat(p, before)]
        /\ st'.paid = [st.paid EXCEPT ![p] = @ + 1]
    BY <1>10, <1>11
  <2> QED BY <1>1, <1>4, <1>11, <2>1, PlayCredited
<1>13. TypeOK'
  BY <1>1, <1>2, <1>3, <1>9, <1>11 DEF TypeOK, ScopeInv
<1>14. SupplyInv'
  BY <1>1, <1>10, <1>11 DEF StagedInv, SupplyInv, SupplyCapped
<1>15. WalkInv'
  <2>1. \A s \in Song : walk'.ord[s] # 0
    BY <1>2, <1>3, <1>4, <1>9
  <2>2. walk'.base <= walk'.running /\ walk'.running <= SUPPLY_CAP
    <3>1. walk.base \in Nat
      BY <1>2 DEF Walk
    <3> QED BY <1>1, <1>2, <1>6, <1>9, <3>1, ScheduleAssumption
  <2>3. /\ applying' /\ walk'.node \in Address /\ walk'.epoch \in Epoch
        /\ walk'.base = st'.supply
    BY <1>1, <1>2, <1>9, <1>10, <1>11
  <2> QED BY <2>1, <2>2, <2>3 DEF WalkInv
<1>16. BooksInv'
  <2>1. /\ st'.plays = [st.plays EXCEPT ![p.song] = before + 1]
        /\ st'.paid = [st.paid EXCEPT ![p] = @ + 1]
    BY <1>10, <1>11
  <2>2. \A s \in Song : walk.ord[s] <= Cardinality(PaidFor(st, s))
    BY <1>1 DEF BooksInv, CountInv
  <2>3. before <= Cardinality(PaidFor(st, p.song))
    BY <1>1, <1>3, <2>2, CommittedCount DEF before, LeafCount
  <2>4. /\ PlayCountBounded' /\ CountsBounded(st')
        /\ \A q \in Proof : db'.paid[q] > 0 => st'.paid[q] > 0
        /\ \A s \in Song : Cardinality(PaidFor(st, s))
                             <= Cardinality(PaidFor(st', s))
        /\ before + 1 <= Cardinality(PaidFor(st', p.song))
    BY <1>1, <1>4, <1>11, <2>1, <2>3, PlayCounted
  <2>5. \A s \in Song : walk'.ord[s] <= Cardinality(PaidFor(st', s))
    <3> SUFFICES ASSUME NEW s \in Song
                 PROVE  walk'.ord[s] <= Cardinality(PaidFor(st', s))
      OBVIOUS
    <3>1. CASE s = p.song
      BY <1>2, <1>9, <2>4, <3>1
    <3>2. CASE s # p.song
      <4>1. walk'.ord[s] = walk.ord[s] /\ walk.ord[s] \in Int
        BY <1>2, <1>9, <3>2 DEF NoCount
      <4>2. /\ Cardinality(PaidFor(st, s)) \in Nat
            /\ Cardinality(PaidFor(st', s)) \in Nat
        <5>1. PaidFor(st, s) \subseteq Proof /\ PaidFor(st', s) \subseteq Proof
          BY DEF PaidFor
        <5> QED BY <5>1, LedgerAssumption, FS_Subset, FS_CardinalityType
      <4> QED BY <2>2, <2>4, <4>1, <4>2
    <3> QED BY <3>1, <3>2
  <2>6. CountInv'
    BY <2>4, <2>5 DEF CountInv, CountsBounded, PaidFor
  <2>7. BalanceInv'
    <3>1. Balanced(st) /\ walk.running = walk.base + SumFunction(walk.credits)
      BY <1>1 DEF BooksInv, BalanceInv
    <3>2. Balanced(st')
      BY <1>10, <1>11, <3>1 DEF Balanced
    <3>3. walk'.running = walk'.base + SumFunction(walk'.credits)
      <4>1. SumFunction(walk.credits) \in Nat /\ walk.base \in Nat
        BY <1>2, AccountFinite, SumNat DEF Walk
      <4> QED BY <1>6, <1>7, <1>9, <3>1, <4>1
    <3> QED BY <1>1, <3>2, <3>3 DEF BooksInv, BalanceInv, LedgerBalanced, Balanced
  <2> QED BY <2>6, <2>7 DEF BooksInv
<1> QED BY <1>12, <1>13, <1>14, <1>15, <1>16 DEF StagedInv, LedgerInv

\* Opening a settlement, skipping a leaf and closing the settlement keep the
\* invariant.
LEMMA SettlementStep ==
    ASSUME StagedInv, BooksInv, ScopeInv',
           \/ \E node \in Address, e \in Epoch, body \in SUBSET Proof :
                 BeginSettlement(node, e, body)
           \/ \E p \in Proof : SkipLeaf(p)
           \/ FinishSettlement
    PROVE  LedgerInv'
<1>0. TypeOK /\ st \in Rows /\ walk \in Walk /\ db \in Rows
  BY DEF StagedInv, TypeOK
<1>1. ASSUME NEW node \in Address, NEW e \in Epoch, NEW body \in SUBSET Proof,
             BeginSettlement(node, e, body)
      PROVE  LedgerInv'
  <2>1. /\ applying /\ applying' /\ db' = db /\ inBlock' = inBlock
        /\ walk' = [NoWalk EXCEPT !.open = TRUE, !.node = node, !.epoch = e,
                              !.todo = body, !.base = st.supply,
                              !.running = st.supply]
        /\ st' = [st EXCEPT !.weight = st.weight + Cardinality(body)]
    BY <1>0, <1>1 DEF BeginSettlement, NoNonceUsed, NextTx, Rows
  <2>2. st.weight + Cardinality(body) \in Nat
    <3>1. Cardinality(body) \in Nat
      BY LedgerAssumption, FS_Subset, FS_CardinalityType
    <3> QED BY <1>0, <3>1 DEF Rows
  <2>3. /\ st' \in Rows /\ st'.supply = st.supply /\ st'.used = st.used
        /\ st'.plays = st.plays /\ st'.disc = st.disc /\ st'.paid = st.paid
        /\ st'.bal = st.bal
    BY <1>0, <2>1, <2>2 DEF Rows
  <2>4. st.supply \in Nat /\ st.supply <= SUPPLY_CAP
    BY <1>0, <2>1 DEF StagedInv, SupplyInv, Rows
  <2>5. walk' = [open |-> TRUE, node |-> node, epoch |-> e, todo |-> body,
                 credits |-> [a \in Account |-> 0], base |-> st.supply,
                 running |-> st.supply, ord |-> [s \in Song |-> NoCount]]
    BY <2>1 DEF NoWalk
  <2>6. walk' \in Walk
    BY <2>4, <2>5 DEF Walk, Maybe
  <2>7. TypeOK'
    BY <1>0, <2>1, <2>3, <2>6 DEF TypeOK, ScopeInv
  <2>8. WalkInv'
    <3>1. /\ walk'.ord = [s \in Song |-> NoCount] /\ walk'.node = node
          /\ walk'.epoch = e /\ walk'.base = st.supply
          /\ walk'.running = st.supply
      BY <2>5
    <3>2. \A s \in Song : walk'.ord[s] # 0
      BY <3>1 DEF NoCount
    <3> QED BY <2>1, <2>3, <2>4, <3>1, <3>2 DEF WalkInv
  <2>9. SupplyInv' /\ SessionInv' /\ DiscInv'
    BY <2>1, <2>3, <2>4
    DEF StagedInv, SupplyInv, SupplyCapped, SessionInv, SessionPaidOnce,
        PaidOnce, DiscInv
  <2>10. CountInv'
    <3>1. /\ CountsBounded(st') /\ PlayCountBounded'
          /\ \A q \in Proof : db'.paid[q] > 0 => st'.paid[q] > 0
      BY <2>1, <2>3 DEF BooksInv, CountInv, PlayCountBounded, CountsBounded, PaidFor
    <3>2. \A s \in Song : walk'.ord[s] <= Cardinality(PaidFor(st', s))
      <4>1. \A s : PaidFor(st', s) \subseteq Proof
        BY DEF PaidFor
      <4>2. \A s : Cardinality(PaidFor(st', s)) \in Nat
        BY <4>1, LedgerAssumption, FS_Subset, FS_CardinalityType
      <4>3. \A s \in Song : walk'.ord[s] = -1
        BY <2>5 DEF NoCount
      <4> QED BY <4>2, <4>3
    <3> QED BY <3>1, <3>2 DEF CountInv, CountsBounded, PaidFor
  <2>11. BalanceInv'
    <3>1. Balanced(st') /\ LedgerBalanced'
      BY <2>1, <2>3 DEF BooksInv, BalanceInv, LedgerBalanced, Balanced
    <3> DEFINE zero == [a \in Account |-> 0]
    <3>2. zero \in [Account -> Nat] /\ \A a \in Account : zero[a] = 0
      OBVIOUS
    <3>3. walk'.running = st.supply /\ walk'.base = st.supply /\ walk'.credits = zero
      BY <2>5
    <3> HIDE DEF zero
    <3>4. SumFunction(zero) = 0
      BY <3>2, AccountFinite, SumZero
    <3>5. walk'.running = walk'.base + SumFunction(walk'.credits)
      BY <2>4, <3>3, <3>4
    <3> QED BY <3>1, <3>5 DEF BalanceInv, Balanced
  <2> QED BY <2>7, <2>8, <2>9, <2>10, <2>11 DEF StagedInv, BooksInv, LedgerInv
<1>2. ASSUME NEW p \in Proof, SkipLeaf(p) PROVE LedgerInv'
  <2>1. /\ applying /\ applying' /\ UNCHANGED <<db, st, inBlock>> /\ walk.open
        /\ walk' = [walk EXCEPT !.todo = walk.todo \ {p}]
    BY <1>0, <1>2 DEF SkipLeaf, SameTx, scopeVars, Walk
  <2>2. walk' \in Walk
    BY <1>0, <2>1 DEF Walk
  <2>3. /\ walk'.open = walk.open /\ walk'.node = walk.node
        /\ walk'.epoch = walk.epoch /\ walk'.base = walk.base
        /\ walk'.running = walk.running /\ walk'.ord = walk.ord
        /\ walk'.credits = walk.credits
    BY <1>0, <2>1 DEF Walk
  <2>4. TypeOK'
    BY <1>0, <2>1, <2>2 DEF TypeOK, ScopeInv
  <2>5. WalkInv'
    BY <2>1, <2>3 DEF StagedInv, WalkInv
  <2>6. SupplyInv' /\ SessionInv' /\ DiscInv'
    BY <2>1 DEF StagedInv, SupplyInv, SupplyCapped, SessionInv,
                SessionPaidOnce, PaidOnce, DiscInv
  <2>7. BooksInv'
    BY <2>1, <2>3 DEF BooksInv, BalanceInv, LedgerBalanced, Balanced, CountInv,
                      PlayCountBounded, CountsBounded, PaidFor
  <2> QED BY <2>4, <2>5, <2>6, <2>7 DEF StagedInv, LedgerInv
<1>3. CASE FinishSettlement
  <2> DEFINE r == credit_many(st, walk.credits, walk.running - walk.base)
             k == <<walk.node, walk.epoch>>
  <2>1. /\ applying /\ applying' /\ db' = db /\ inBlock' = inBlock
        /\ walk.open /\ walk' = NoWalk
        /\ st' = [r EXCEPT !.us[k] = @ + 1]
    BY <1>3 DEF FinishSettlement, SameTx, scopeVars
  <2>2. /\ walk.node \in Address /\ walk.epoch \in Epoch
        /\ walk.base = st.supply /\ walk.base <= walk.running
        /\ walk.running <= SUPPLY_CAP
        /\ walk.base \in Nat /\ walk.running \in Nat
        /\ walk.credits \in [Account -> Nat]
    BY <1>0, <2>1 DEF StagedInv, WalkInv, Walk
  <2>3. /\ walk.running - walk.base \in Nat
        /\ walk.running - walk.base = SumFunction(walk.credits)
    <3>1. walk.running = walk.base + SumFunction(walk.credits)
      BY <2>1 DEF BooksInv, BalanceInv
    <3>2. SumFunction(walk.credits) \in Nat
      BY <2>2, AccountFinite, SumNat
    <3> QED BY <2>2, <3>1, <3>2
  <2>4. /\ r \in Rows /\ r.supply = st.supply + (walk.running - walk.base)
        /\ r.used = st.used /\ r.plays = st.plays
        /\ r.disc = st.disc /\ r.paid = st.paid /\ Balanced(r)
    <3> HIDE DEF r
    <3>1. r = credit_many(st, walk.credits, walk.running - walk.base)
      BY DEF r
    <3>2. st \in Rows /\ walk.credits \in [Account -> Nat] /\ Balanced(st)
      BY <1>0, <2>1, <2>2 DEF BooksInv, BalanceInv
    <3> QED BY <2>3, <3>1, <3>2, CreditRows, CreditBalanced
  <2> HIDE DEF r
  <2>5. /\ st' \in Rows /\ st'.supply = r.supply /\ st'.used = r.used
        /\ st'.plays = r.plays /\ st'.disc = r.disc /\ st'.paid = r.paid
        /\ st'.bal = r.bal
    <3> DEFINE us == [r.us EXCEPT ![k] = @ + 1]
    <3>1. st' = [r EXCEPT !.us = us]
      BY <2>1, <2>4 DEF Rows
    <3>2. us \in [Address \X Epoch -> Nat]
      BY <2>2, <2>4 DEF Rows
    <3> HIDE DEF us
    <3>3. st' \in Rows
      BY <2>4, <3>1, <3>2 DEF Rows
    <3> QED BY <2>4, <3>1, <3>3 DEF Rows
  <2>6. NoWalk \in Walk /\ ~NoWalk.open /\ \A s \in Song : NoWalk.ord[s] # 0
    BY DEF NoWalk, Walk, Maybe, NoCount
  <2>7. TypeOK'
    BY <1>0, <2>1, <2>5, <2>6 DEF TypeOK, ScopeInv
  <2>8. WalkInv'
    BY <2>1, <2>6 DEF WalkInv
  <2>9. st'.supply <= SUPPLY_CAP
    BY <1>0, <2>2, <2>4, <2>5 DEF Rows
  <2>10. SupplyInv' /\ SessionInv' /\ DiscInv'
    BY <2>1, <2>4, <2>5, <2>9
    DEF StagedInv, SupplyInv, SupplyCapped, SessionInv, SessionPaidOnce,
        PaidOnce, DiscInv
  <2>11. CountInv'
    BY <2>1, <2>4, <2>5, <2>6
    DEF BooksInv, CountInv, PlayCountBounded, CountsBounded, PaidFor
  <2>12. BalanceInv'
    BY <2>1, <2>4, <2>5, <2>6 DEF BooksInv, BalanceInv, LedgerBalanced, Balanced
  <2> QED BY <2>7, <2>8, <2>10, <2>11, <2>12 DEF StagedInv, BooksInv, LedgerInv
<1> QED BY <1>1, <1>2, <1>3

\* Opening, committing and dropping a block keep the invariant.
LEMMA BlockStep ==
    ASSUME StagedInv, BooksInv, ScopeInv',
           \/ \E newSongs \in SUBSET Song : BeginBlock(newSongs)
           \/ CommitBlock
           \/ DropBlock
    PROVE  LedgerInv'
<1>0. TypeOK /\ st \in Rows /\ walk \in Walk /\ db \in Rows
  BY DEF StagedInv, TypeOK
<1>1. ASSUME NEW newSongs \in SUBSET Song, BeginBlock(newSongs)
      PROVE  LedgerInv'
  <2>1. /\ ~applying /\ applying' /\ db' = db /\ inBlock' = {}
        /\ walk' = walk
        /\ st' = [db EXCEPT !.songs = db.songs \cup newSongs]
    BY <1>0, <1>1 DEF BeginBlock, OpenScope, Rows
  <2>2. /\ st' \in Rows /\ st'.supply = db.supply /\ st'.used = db.used
        /\ st'.plays = db.plays /\ st'.disc = db.disc /\ st'.paid = db.paid
        /\ st'.bal = db.bal
    BY <1>0, <2>1 DEF Rows
  <2>3. TypeOK'
    BY <1>0, <2>1, <2>2 DEF TypeOK, ScopeInv
  <2>4. WalkInv'
    BY <2>1 DEF StagedInv, WalkInv
  <2>5. SupplyInv'
    BY <2>1, <2>2 DEF StagedInv, SupplyInv, SupplyCapped
  <2>6. SessionInv'
    BY <2>1, <2>2 DEF StagedInv, SessionInv, SessionPaidOnce, PaidOnce
  <2>7. DiscInv'
    BY <2>1, <2>2 DEF StagedInv, DiscInv
  <2>8. ~walk.open
    BY <2>1 DEF StagedInv, WalkInv
  <2>9. BooksInv'
    BY <2>1, <2>2, <2>8
    DEF BooksInv, BalanceInv, LedgerBalanced, Balanced, CountInv,
        PlayCountBounded, CountsBounded, PaidFor
  <2> QED BY <2>3, <2>4, <2>5, <2>6, <2>7, <2>9 DEF StagedInv, LedgerInv
<1>2. CASE CommitBlock
  <2>1. /\ applying /\ ~applying' /\ db' = st /\ inBlock' = inBlock
        /\ walk' = walk /\ st' = st /\ ~walk.open
    BY <1>2 DEF CommitBlock, CommitScope
  <2>2. TypeOK'
    BY <1>0, <2>1 DEF TypeOK, ScopeInv
  <2>3. WalkInv'
    BY <2>1 DEF StagedInv, WalkInv
  <2>4. SupplyInv' /\ DiscInv'
    BY <2>1 DEF StagedInv, SupplyInv, SupplyCapped, DiscInv
  <2>5. SessionInv'
    BY <2>1 DEF StagedInv, SessionInv, SessionPaidOnce, PaidOnce
  <2>6. BooksInv'
    BY <2>1
    DEF BooksInv, BalanceInv, LedgerBalanced, Balanced, CountInv,
        PlayCountBounded, CountsBounded, PaidFor
  <2> QED BY <2>2, <2>3, <2>4, <2>5, <2>6 DEF StagedInv, LedgerInv
<1>3. CASE DropBlock
  <2>1. applying /\ ~applying' /\ UNCHANGED <<db, st, inBlock, walk>> /\ ~walk.open
    BY <1>3 DEF DropBlock, DropScope, ledgerVars
  <2>2. TypeOK'
    BY <1>0, <2>1 DEF TypeOK, ScopeInv
  <2>3. WalkInv'
    BY <2>1 DEF StagedInv, WalkInv
  <2>4. SupplyInv' /\ DiscInv'
    BY <2>1 DEF StagedInv, SupplyInv, SupplyCapped, DiscInv
  <2>5. SessionInv'
    BY <2>1 DEF StagedInv, SessionInv, SessionPaidOnce, PaidOnce
  <2>6. BooksInv'
    BY <2>1
    DEF BooksInv, BalanceInv, LedgerBalanced, Balanced, CountInv,
        PlayCountBounded, CountsBounded, PaidFor
  <2> QED BY <2>2, <2>3, <2>4, <2>5, <2>6 DEF StagedInv, LedgerInv
<1> QED BY <1>1, <1>2, <1>3

\* Whatever a step does to the rows, it takes a ScopeStep.
LEMMA NextIsScopeStep == [Next]_vars => ScopeStep
<1> SUFFICES ASSUME [Next]_vars PROVE ScopeStep
  OBVIOUS
<1>1. CASE Begin \/ CommitBlock \/ DropBlock
  BY <1>1 DEF Begin, BeginBlock, CommitBlock, DropBlock, ScopeStep
<1>2. CASE Transfer \/ RelayReward \/ NodeAuth
  BY <1>2 DEF Transfer, apply_transfer, RelayReward, apply_relay_reward,
              NodeAuth, apply_node_auth, ScopeStep
<1>3. CASE Mint \/ Settle
  BY <1>3 DEF Mint, apply_mint, Settle, BeginSettlement, ScopeStep
<1>4. CASE Leaf \/ FinishSettlement
  BY <1>4 DEF Leaf, AcceptLeaf, SkipLeaf, FinishSettlement, SameTx, ScopeStep
<1>5. CASE Wait \/ UNCHANGED vars
  BY <1>5 DEF Wait, Idle, vars, ScopeStep
<1> QED BY <1>1, <1>2, <1>3, <1>4, <1>5 DEF Next

\* Every step keeps the invariant: one case per kind of step.
LEMMA LedgerInvStep == LedgerInv /\ [Next]_vars => LedgerInv'
<1> SUFFICES ASSUME StagedInv, BooksInv, [Next]_vars PROVE LedgerInv'
  BY DEF LedgerInv
<1>0. /\ ScopeInv' /\ TypeOK /\ st \in Rows
      /\ applying => Balanced(st)
  BY NextIsScopeStep, ScopeInvStep DEF StagedInv, TypeOK, BooksInv, BalanceInv
<1>1. CASE Begin
  BY <1>0, <1>1, BlockStep DEF Begin
<1>2. CASE CommitBlock \/ DropBlock
  BY <1>0, <1>2, BlockStep
<1>3. CASE Transfer
  <2> PICK from \in Address, to \in Account, amount \in Amount,
           n \in Nonces : apply_transfer(from, to, amount, n)
    BY <1>3 DEF Transfer
  <2>1. /\ applying /\ applying' /\ ~walk.open /\ UNCHANGED <<db, inBlock, walk>>
        /\ amount = 0 \/ Wallet(from) = to \/ st.bal[Wallet(from)] >= amount
        /\ st' = transfer(st, Wallet(from), to, amount)
    BY DEF apply_transfer, UseNonce, NextTx
  <2>2. amount \in Nat /\ Wallet(from) \in Account
    BY LedgerAssumption DEF Wallet, Account, Maybe
  <2>3. /\ st' \in Rows /\ st'.supply = st.supply
        /\ st'.used = st.used /\ st'.plays = st.plays
        /\ st'.disc = st.disc /\ st'.paid = st.paid
    BY <1>0, <2>1, <2>2, TransferRows
  <2>5. Balanced(st')
    BY <1>0, <2>1, <2>2, TransferBalanced
  <2>4. st'.supply <= SUPPLY_CAP
    BY <2>1, <2>3 DEF StagedInv, SupplyInv
  <2> QED BY <1>0, <2>1, <2>3, <2>4, <2>5, QuietTx
<1>4. CASE RelayReward
  <2> PICK i \in Address, t \in {Wallet(a) : a \in Address},
           amount \in Amount, n \in Nonces : apply_relay_reward(i, t, amount, n)
    BY <1>4 DEF RelayReward
  <2> DEFINE bal == [st.bal EXCEPT ![t] = @ + amount]
  <2>1. /\ applying /\ applying' /\ ~walk.open /\ UNCHANGED <<db, inBlock, walk>>
        /\ st.supply + amount <= SUPPLY_CAP
        /\ st' = [st EXCEPT !.bal = bal, !.supply = st.supply + amount]
    BY <1>0 DEF apply_relay_reward, UseNonce, NextTx, Rows
  <2>2. /\ amount \in Nat /\ t \in Account
    <3>1. PICK a \in Address : t = Wallet(a)
      OBVIOUS
    <3> QED BY <3>1, LedgerAssumption DEF Wallet, Account, Maybe
  <2>3. bal \in [Account -> Nat] /\ st.supply + amount \in Nat
    BY <1>0, <2>2 DEF Rows
  <2> HIDE DEF bal
  <2>4. st' \in Rows
    BY <1>0, <2>1, <2>3 DEF Rows
  <2>5. /\ st'.supply = st.supply + amount
        /\ st'.used = st.used /\ st'.plays = st.plays
        /\ st'.disc = st.disc /\ st'.paid = st.paid
    BY <1>0, <2>1 DEF Rows
  <2>6. Balanced(st')
    <3>1. st'.bal = [st.bal EXCEPT ![t] = @ + amount]
      BY <1>0, <2>1 DEF Rows, bal
    <3> QED BY <1>0, <2>1, <2>2, <2>5, <3>1, RewardBalanced
  <2> QED BY <1>0, <2>1, <2>4, <2>5, <2>6, QuietTx
<1>5. CASE NodeAuth
  <2> PICK i \in Address, node \in Address, authorize \in BOOLEAN,
           n \in Nonces : apply_node_auth(i, node, authorize, n)
    BY <1>5 DEF NodeAuth
  <2> DEFINE auth == IF authorize THEN st.auth \cup {node}
                                  ELSE st.auth \ {node}
  <2>1. /\ applying /\ applying' /\ ~walk.open /\ UNCHANGED <<db, inBlock, walk>>
        /\ st' = [st EXCEPT !.auth = auth]
    BY <1>0 DEF apply_node_auth, UseNonce, NextTx, Rows
  <2>2. auth \in SUBSET Address
    BY <1>0 DEF Rows
  <2> HIDE DEF auth
  <2>3. /\ st' \in Rows /\ st'.supply = st.supply
        /\ st'.used = st.used /\ st'.plays = st.plays
        /\ st'.disc = st.disc /\ st'.paid = st.paid /\ st'.bal = st.bal
    BY <1>0, <2>1, <2>2 DEF Rows
  <2>4. st'.supply <= SUPPLY_CAP /\ Balanced(st')
    BY <1>0, <2>1, <2>3 DEF StagedInv, SupplyInv, Balanced
  <2> QED BY <1>0, <2>1, <2>3, <2>4, QuietTx
<1>6. CASE Mint
  BY <1>0, <1>6, MintStep DEF Mint
<1>7. CASE Settle \/ FinishSettlement
  BY <1>0, <1>7, SettlementStep DEF Settle
<1>8. CASE Leaf
  BY <1>0, <1>8, LeafStep, SettlementStep DEF Leaf
<1>9. CASE Wait \/ UNCHANGED vars
  <2>1. UNCHANGED <<applying, db, st, inBlock, walk>>
    BY <1>9 DEF Wait, Idle, vars, scopeVars, ledgerVars
  <2>2. TypeOK' /\ SupplyInv' /\ DiscInv' /\ WalkInv'
    BY <1>0, <2>1
    DEF StagedInv, TypeOK, ScopeInv, SupplyInv, SupplyCapped, DiscInv, WalkInv
  <2>3. SessionInv'
    BY <2>1 DEF StagedInv, SessionInv, SessionPaidOnce, PaidOnce
  <2>4. BooksInv'
    BY <2>1
    DEF BooksInv, BalanceInv, LedgerBalanced, Balanced, CountInv,
        PlayCountBounded, CountsBounded, PaidFor
  <2> QED BY <1>0, <2>2, <2>3, <2>4 DEF StagedInv, LedgerInv
<1> QED
  BY <1>1, <1>2, <1>3, <1>4, <1>5, <1>6, <1>7, <1>8, <1>9 DEF Next

(***************************************************************************)
(* The inductive invariant holds on every chain (Chain::connect_block):    *)
(* supply and balances, sessions, counts and discoverers as committed and  *)
(* as staged.  Of a discoverer it says that a song with committed plays    *)
(* keeps what its first block left in the seat, be it nobody.              *)
(***************************************************************************)
THEOREM LedgerInvariant == Spec => []LedgerInv
<1>1. Init => LedgerInv
  BY LedgerInvInit
<1>2. LedgerInv /\ [Next]_vars => LedgerInv'
  BY LedgerInvStep
<1> QED BY <1>1, <1>2, PTL DEF Spec

(***************************************************************************)
(* No sequence of blocks takes total_supply past SUPPLY_CAP (apply_mint,   *)
(* apply_relay_reward, apply_settlement_mint).                             *)
(***************************************************************************)
THEOREM SupplyStaysCapped == Spec => []SupplyCapped
<1>1. LedgerInv => SupplyCapped
  BY DEF LedgerInv, StagedInv, SupplyInv
<1> QED BY <1>1, LedgerInvariant, PTL

(***************************************************************************)
(* After every block the supply counter is the sum of all balances, for    *)
(* any number of wallets and any split of the rewards (Ledger::credit_many,*)
(* transfer, debit, decrement_supply, apply_settlement_mint).              *)
(***************************************************************************)
THEOREM LedgerStaysBalanced == Spec => []LedgerBalanced
<1>1. LedgerInv => LedgerBalanced
  BY DEF LedgerInv, BooksInv, BalanceInv
<1> QED BY <1>1, LedgerInvariant, PTL

(***************************************************************************)
(* A song's play count never runs ahead of the plays credited, and is past *)
(* zero once one is (update_song_state, song_ord).                         *)
(***************************************************************************)
THEOREM CountsNeverAhead == Spec => []PlayCountBounded
<1>1. LedgerInv => PlayCountBounded
  BY DEF LedgerInv, BooksInv, CountInv
<1> QED BY <1>1, LedgerInvariant, PTL

(***************************************************************************)
(* A play session is paid at most once and exactly when its u: row exists, *)
(* across MINTs and settlements, within a block and between blocks         *)
(* (check_play, sessions_used_in_block_).                                  *)
(***************************************************************************)
THEOREM SessionsPaidOnce == Spec => []SessionPaidOnce
<1>1. LedgerInv => SessionPaidOnce
  BY DEF LedgerInv, StagedInv, SessionInv
<1> QED BY <1>1, LedgerInvariant, PTL

(***************************************************************************)
(* The committed nonce of an address is the number of its transactions on  *)
(* the chain (next_expected_nonce, record_applied_nonce).                  *)
(***************************************************************************)
THEOREM NoncesSpentOnce == Spec => []NonceSpentOnce
<1>1. LedgerInv => NonceSpentOnce
  BY DEF LedgerInv, StagedInv, ScopeInv
<1> QED BY <1>1, LedgerInvariant, PTL

(***************************************************************************)
(* A song that has a committed play keeps what its first block left in the *)
(* discoverer seat, a player or nobody (Database::update_song_state).      *)
(***************************************************************************)
THEOREM DiscovererStaysFinal == Spec => DiscovererFinal
<1>1. ASSUME LedgerInv, [Next]_vars
      PROVE  [\A s \in Song : db.plays[s] > 0 => db'.disc[s] = db.disc[s]]_db
  <2>1. CASE CommitBlock
    <3>1. applying /\ db' = st
      BY <2>1 DEF CommitBlock, CommitScope
    <3> QED BY <1>1, <3>1 DEF LedgerInv, StagedInv, DiscInv
  <2>2. CASE ~CommitBlock
    <3>1. UNCHANGED db
      BY <1>1, <2>2
      DEF Next, Begin, BeginBlock, DropBlock, Transfer, apply_transfer, Mint,
          apply_mint, RelayReward, apply_relay_reward, NodeAuth,
          apply_node_auth, Settle, BeginSettlement, Leaf, AcceptLeaf,
          SkipLeaf, FinishSettlement, Wait, vars, ledgerVars
    <3> QED BY <3>1
  <2> QED BY <2>1, <2>2
<1> QED BY <1>1, LedgerInvariant, PTL DEF Spec, DiscovererFinal
=============================================================================
