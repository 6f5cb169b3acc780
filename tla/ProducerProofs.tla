--------------------------- MODULE ProducerProofs ---------------------------
(***************************************************************************)
(* The three safety properties of the producer, for every set of songs,    *)
(* encodings and transactions, every cap, and however many blocks of peers *)
(* and restarts fall between the steps of a pass.                          *)
(*                                                                         *)
(* OneSongOnce needs no more than itself.  The other two are about what is *)
(* deleted and charged late in a pass, so ProducerInv follows the body     *)
(* through it: Contiguous, what the caps left out comes after what they    *)
(* kept; Ripe, from the gate on a transaction only ever goes stale; and    *)
(* FailureExplained, a failed commit has a cause, and which ones remain    *)
(* when the song is charged.                                               *)
(***************************************************************************)
EXTENDS Producer, FiniteSetTheorems, WellFoundedInduction, TLAPS

History == [offered : SUBSET Tx, queued : SUBSET Tx, avoidable : SUBSET Tx,
            unknown : SUBSET Tx, races : [Song -> Nat]]

\* TypeOK, what it lacks of the stamps and of the history, and that nothing
\* ever holds infinitely many transactions.
ProducerTypes ==
    /\ TypeOK
    /\ \A s \in DOMAIN songs : songs[s].submit \in 0..MaxTime
    /\ hist \in History
    /\ IsFiniteSet(DOMAIN mempool) /\ IsFiniteSet(landed) /\ IsFiniteSet(included)

\* The caps take a prefix of what each sender has inside the boundary.
Contiguous ==
    phase \in {"gate", "build", "commit", "failed"} =>
       /\ included \subseteq hist.offered
       /\ \A t \in included, u \in hist.offered :
             u.sender = t.sender /\ Before(u, t) => u \in included

\* t could be applied at this place of the body once, whatever landed since.
Ripe(t, body) ==
    LET before == landed \cup Earlier(t, body)
    IN  /\ t \notin Poison
        /\ t.kind # "mint" => t.nonce <= Cardinality(From(t, before))
        /\ Requires[t] \subseteq before

BodyRipe ==
    phase \in {"build", "commit", "failed"} => \A t \in included : Ripe(t, included)

\* A block that failed holds a stale transaction or a landed song, or a peer's
\* block came in between.
FailureExplained ==
    phase = "failed" =>
       \/ \E t \in included : ~Applies(t, included)
       \/ reg = NoSong
       \/ song_on_chain(reg)
       \/ /\ hist.races[reg] > 0
          /\ reg \in DOMAIN songs => songs[reg].retries < hist.races[reg]

ProducerInv ==
    /\ ProducerTypes
    /\ OneSongOnce
    /\ Contiguous /\ CapsSpareTails
    /\ BodyRipe /\ FailureExplained /\ RetriesAreRaces

-----------------------------------------------------------------------------
(***************************************************************************)
(* The order of a block body.                                              *)
(***************************************************************************)
LEMMA TxFields ==
    \A t \in Tx : /\ t.sender \in Nat /\ t.nonce \in Nat /\ t.hash \in Nat
                  /\ t.kind \in Kind
BY ProducerAssumption DEF TxShape

\* Before is a strict total order on transactions (total by tx_hash).
LEMMA BeforeOrder ==
    /\ \A t \in Tx : ~Before(t, t)
    /\ \A t, u, v \in Tx : Before(t, u) /\ Before(u, v) => Before(t, v)
    /\ \A t, u \in Tx : t # u => Before(t, u) \/ Before(u, t)
<1>1. \A t \in Tx : ~Before(t, t)
  BY TxFields DEF Before
<1>2. \A t, u, v \in Tx : Before(t, u) /\ Before(u, v) => Before(t, v)
  BY TxFields DEF Before
<1>3. ASSUME NEW t \in Tx, NEW u \in Tx, t # u, ~Before(t, u)
      PROVE  Before(u, t)
  <2>1. t.sender # u.sender \/ t.nonce # u.nonce \/ t.hash # u.hash
    BY <1>3, TotalOrderAssumption
  <2> QED BY <1>3, <2>1, TxFields DEF Before
<1> QED BY <1>1, <1>2, <1>3

\* A set of transactions has a first one: the smallest sender, of its
\* transactions the smallest nonce, of those the smallest hash.
LEMMA LeastNatural ==
    ASSUME NEW S \in SUBSET Nat, S # {}
    PROVE  \E n \in S : \A m \in S : n <= m
<1>1. PICK n \in S : \A m \in S : ~(<<m, n>> \in OpToRel(<, Nat))
  BY NatLessThanWellFounded, WFMin
<1>2. \A m \in S : ~(m < n)
  BY <1>1 DEF OpToRel
<1> QED BY <1>2

LEMMA FirstTx ==
    ASSUME NEW S \in SUBSET Tx, S # {}
    PROVE  \E t \in S : \A u \in S : ~Before(u, t)
<1>1. PICK a \in {t.sender : t \in S} : \A b \in {t.sender : t \in S} : a <= b
  <2>1. {t.sender : t \in S} \in SUBSET Nat /\ {t.sender : t \in S} # {}
    BY TxFields
  <2> QED BY <2>1, LeastNatural
<1> DEFINE A == {t \in S : t.sender = a}
<1>2. PICK n \in {t.nonce : t \in A} : \A m \in {t.nonce : t \in A} : n <= m
  <2>1. {t.nonce : t \in A} \in SUBSET Nat /\ {t.nonce : t \in A} # {}
    BY TxFields
  <2> QED BY <2>1, LeastNatural
<1> DEFINE B == {t \in A : t.nonce = n}
<1>3. PICK h \in {t.hash : t \in B} : \A k \in {t.hash : t \in B} : h <= k
  <2>1. {t.hash : t \in B} \in SUBSET Nat /\ {t.hash : t \in B} # {}
    BY TxFields
  <2> QED BY <2>1, LeastNatural
<1>4. PICK t \in B : t.hash = h
  BY <1>3
<1>5. ASSUME NEW u \in S, Before(u, t) PROVE FALSE
  <2>1. /\ u.sender \in Nat /\ u.nonce \in Nat /\ u.hash \in Nat
        /\ t.sender = a /\ t.nonce = n /\ t.hash = h
        /\ a \in Nat /\ n \in Nat /\ h \in Nat
    BY <1>4, TxFields
  <2>2. a <= u.sender
    BY <1>1
  <2>3. u.sender = a => n <= u.nonce
    BY <1>2
  <2>4. u.sender = a /\ u.nonce = n => h <= u.hash
    BY <1>3
  <2> QED BY <1>5, <2>1, <2>2, <2>3, <2>4 DEF Before
<1> QED BY <1>4, <1>5

\* first_unappliable_tx finds nothing only if everything applies.
LEMMA CleanMeansAllApply ==
    ASSUME NEW body \in SUBSET Tx
    PROVE  FirstUnappliable(body) = {} <=> \A t \in body : Applies(t, body)
<1> DEFINE bad == {t \in body : ~Applies(t, body)}
<1>1. ASSUME bad # {} PROVE FirstUnappliable(body) # {}
  <2>1. PICK t \in bad : \A u \in bad : ~Before(u, t)
    BY <1>1, FirstTx
  <2>2. \A u \in Earlier(t, body) : Applies(u, body)
    BY <2>1 DEF Earlier
  <2> QED BY <2>2 DEF FirstUnappliable
<1> QED BY <1>1 DEF FirstUnappliable

-----------------------------------------------------------------------------
(***************************************************************************)
(* The caps and the gate.                                                  *)
(***************************************************************************)

\* A smaller set has no more elements.
LEMMA FewerElements ==
    ASSUME NEW T, IsFiniteSet(T), NEW S \in SUBSET T
    PROVE  /\ IsFiniteSet(S) /\ Cardinality(S) \in Nat /\ Cardinality(T) \in Nat
           /\ Cardinality(S) <= Cardinality(T)
BY FS_Subset, FS_CardinalityType

\* Two sets without a common element.
LEMMA DisjointCount ==
    ASSUME NEW S, IsFiniteSet(S), NEW T, IsFiniteSet(T), S \cap T = {}
    PROVE  Cardinality(S \cup T) = Cardinality(S) + Cardinality(T)
<1>1. Cardinality(S \cup T) = Cardinality(S) + Cardinality(T) - Cardinality(S \cap T)
  BY FS_Union
<1>2. Cardinality(S) \in Nat /\ Cardinality(T) \in Nat /\ Cardinality(S \cap T) = 0
  BY FS_CardinalityType, FS_EmptySet
<1> QED BY <1>1, <1>2

\* A set whose elements are numbered from a to b - 1 has b - a of them.
LEMMA CountNumbered ==
    ASSUME NEW S, IsFiniteSet(S), NEW a \in Nat, NEW b \in Nat, a <= b,
           NEW f \in [S -> a..(b - 1)],
           \A u, v \in S : f[u] = f[v] => u = v,
           \A n \in a..(b - 1) : \E u \in S : f[u] = n
    PROVE  Cardinality(S) = b - a
<1>1. f \in Bijection(S, a..(b - 1))
  BY DEF Bijection, Injection, IsInjective, Surjection
<1>2. Cardinality(a..(b - 1)) = Cardinality(S)
  BY <1>1, FS_Bijection DEF ExistsBijection
<1>3. Cardinality(a..(b - 1)) = b - a
  BY FS_Interval
<1> QED BY <1>2, <1>3

\* Whoever the caps keep, they keep all of its sender's transactions before it.
LEMMA CapsKeepPrefix ==
    ASSUME NEW body \in SUBSET Tx, IsFiniteSet(body),
           NEW t \in TakePrefix(SenderCapped(body)), NEW u \in body,
           u.sender = t.sender, Before(u, t)
    PROVE  u \in TakePrefix(SenderCapped(body))
<1> DEFINE capped == SenderCapped(body)
           metered(w) == {v \in UpTo(w, From(w, body)) : v.kind = "metered"}
<1>1. capped \subseteq body /\ t \in capped /\ t \in Tx /\ u \in Tx
  BY DEF SenderCapped, TakePrefix
<1>2. IsFiniteSet(capped)
  BY <1>1, FewerElements
<1>3. u \in capped
  <2>1. metered(u) \subseteq metered(t)
    BY <1>1, BeforeOrder DEF UpTo, Earlier, From
  <2>2. metered(t) \subseteq body
    BY <1>1 DEF UpTo, Earlier, From
  <2>3. IsFiniteSet(metered(t))
    BY <2>2, FewerElements
  <2>4. /\ Cardinality(metered(u)) \in Nat /\ Cardinality(metered(t)) \in Nat
        /\ Cardinality(metered(u)) <= Cardinality(metered(t))
    BY <2>1, <2>3, FewerElements
  <2>5. Cardinality(metered(t)) <= MAX_TXS_PER_SENDER_PER_BLOCK
    BY <1>1 DEF SenderCapped
  <2>6. Cardinality(metered(u)) <= MAX_TXS_PER_SENDER_PER_BLOCK
    BY <2>4, <2>5, ProducerAssumption
  <2> QED BY <2>6 DEF SenderCapped
<1>4. UpTo(u, capped) \subseteq UpTo(t, capped)
  BY <1>1, <1>3, BeforeOrder DEF UpTo, Earlier
<1>5. IsFiniteSet(UpTo(t, capped))
  <2>1. UpTo(t, capped) \subseteq capped
    BY <1>1 DEF UpTo, Earlier
  <2> QED BY <2>1, <1>2, FewerElements
<1>6. /\ Cardinality(UpTo(u, capped)) \in Nat /\ Cardinality(UpTo(t, capped)) \in Nat
      /\ Cardinality(UpTo(u, capped)) <= Cardinality(UpTo(t, capped))
  BY <1>4, <1>5, FewerElements
<1>7. Cardinality(UpTo(t, capped)) <= MAX_TXS_PER_BLOCK
  BY DEF TakePrefix
<1>8. Cardinality(UpTo(u, capped)) <= MAX_TXS_PER_BLOCK
  BY <1>6, <1>7, ProducerAssumption
<1> QED BY <1>3, <1>8 DEF TakePrefix

\* t is next in line once the transactions of its sender before it apply, fill
\* the nonces between the chain's and its own, and none of them has its own.
LEMMA NextInLine ==
    ASSUME landed \in SUBSET Tx, IsFiniteSet(landed),
           NEW body \in SUBSET Tx, IsFiniteSet(body), NEW t \in body,
           t.kind # "mint",
           \A u \in Earlier(t, body) : Applies(u, body),
           Cardinality(From(t, landed)) <= t.nonce,
           \A n \in Cardinality(From(t, landed))..(t.nonce - 1) :
              \E u \in From(t, Earlier(t, body)) : u.nonce = n,
           \A u \in From(t, Earlier(t, body)) : u.nonce # t.nonce
    PROVE  Cardinality(From(t, landed \cup Earlier(t, body))) = t.nonce
<1> DEFINE line == From(t, Earlier(t, body))
           ahead(u) == From(t, landed \cup Earlier(u, body))
           first == Cardinality(From(t, landed))
<1>1. \A u \in line : /\ u \in Tx /\ u \in body /\ u.sender = t.sender
                      /\ Before(u, t) /\ u.nonce \in Nat /\ u.kind # "mint"
  BY TxFields, TotalOrderAssumption DEF From, Earlier
<1>2. t.nonce \in Nat /\ first \in Nat /\ IsFiniteSet(From(t, landed))
  <2>1. From(t, landed) \in SUBSET landed
    BY DEF From
  <2> QED BY <2>1, TxFields, FewerElements
<1>3. ASSUME NEW u \in body PROVE IsFiniteSet(ahead(u)) /\ Cardinality(ahead(u)) \in Nat
  <2>1. IsFiniteSet(landed \cup body)
    BY FS_Union
  <2>2. ahead(u) \in SUBSET (landed \cup body)
    BY DEF From, Earlier
  <2> QED BY <2>1, <2>2, FewerElements
<1>4. ASSUME NEW u \in line
      PROVE  /\ u \notin landed /\ u.nonce = Cardinality(ahead(u))
             /\ first <= u.nonce /\ u.nonce <= t.nonce - 1
  <2>1. Applies(u, body)
    BY DEF From
  <2>2. From(u, landed \cup Earlier(u, body)) = ahead(u)
    BY <1>1 DEF From
  <2>3. u \notin landed /\ u.nonce = Cardinality(ahead(u))
    BY <1>1, <2>1, <2>2 DEF Applies
  <2>4. From(t, landed) \in SUBSET ahead(u)
    BY DEF From
  <2>5. first <= u.nonce
    BY <1>1, <1>3, <2>3, <2>4, FewerElements
  <2>6. u.nonce <= t.nonce
    BY <1>1, TxFields DEF Before
  <2>7. u.nonce # t.nonce
    OBVIOUS
  <2>8. first <= u.nonce /\ u.nonce <= t.nonce - 1
    <3> HIDE DEF line, first
    <3> QED BY <1>1, <1>2, <2>5, <2>6, <2>7
  <2> QED BY <2>3, <2>8
<1>5. ASSUME NEW u \in line, NEW v \in line, Before(u, v) PROVE u.nonce < v.nonce
  <2>1. ahead(u) \cup {u} \in SUBSET ahead(v)
    BY <1>1, <1>5, BeforeOrder DEF From, Earlier
  <2>2. u \notin ahead(u)
    BY <1>1, <1>4, BeforeOrder DEF From, Earlier
  <2>3. Cardinality(ahead(u) \cup {u}) = Cardinality(ahead(u)) + 1
    BY <1>1, <1>3, <2>2, FS_AddElement
  <2>4. Cardinality(ahead(u) \cup {u}) <= Cardinality(ahead(v))
    BY <1>1, <1>3, <2>1, FewerElements
  <2> QED BY <1>1, <1>4, <2>3, <2>4
<1>6. first <= t.nonce /\ \A n \in first..(t.nonce - 1) : \E u \in line : u.nonce = n
  OBVIOUS
<1>7. IsFiniteSet(line)
  <2>1. line \in SUBSET body
    BY <1>1
  <2> QED BY <2>1, FewerElements
<1>8. /\ From(t, landed \cup Earlier(t, body)) = From(t, landed) \cup line
      /\ From(t, landed) \cap line = {}
  BY <1>4 DEF From
<1> HIDE DEF line, first
<1>9. Cardinality(line) = t.nonce - first
  <2> DEFINE f == [u \in line |-> u.nonce]
  <2>0. t.nonce \in Nat /\ first \in Nat
    BY <1>2
  <2>1. f \in [line -> first..(t.nonce - 1)]
    <3>1. ASSUME NEW u \in line PROVE u.nonce \in first..(t.nonce - 1)
      <4>1. u.nonce \in Nat /\ first <= u.nonce /\ u.nonce <= t.nonce - 1
        BY <1>1, <1>4
      <4> QED BY <2>0, <4>1
    <3> QED BY <3>1
  <2>2. ASSUME NEW u \in line, NEW v \in line, f[u] = f[v] PROVE u = v
    <3>1. u.nonce = v.nonce /\ u.nonce \in Nat /\ u \in Tx /\ v \in Tx
      BY <1>1, <2>2
    <3>2. ~Before(u, v) /\ ~Before(v, u)
      BY <1>5, <3>1
    <3> QED BY <3>1, <3>2, BeforeOrder
  <2>3. \A n \in first..(t.nonce - 1) : \E u \in line : f[u] = n
    BY <1>6
  <2>4. \A u, v \in line : f[u] = f[v] => u = v
    BY <2>2
  <2> HIDE DEF f
  <2>5. first <= t.nonce /\ IsFiniteSet(line)
    BY <1>6, <1>7
  <2> QED BY <2>0, <2>1, <2>3, <2>4, <2>5, CountNumbered
<1>10. Cardinality(From(t, landed) \cup line) = first + Cardinality(line)
  BY <1>2, <1>7, <1>8, DisjointCount DEF first
<1>11. Cardinality(From(t, landed \cup Earlier(t, body))) = first + Cardinality(line)
  BY <1>8, <1>10
<1>12. t.nonce \in Nat /\ first \in Nat
  BY <1>2
<1> QED BY <1>9, <1>11, <1>12

\* What the gate deletes had no run of nonces inside the boundary to follow.
LEMMA NeverAvoidable ==
    ASSUME ProducerTypes, Contiguous, phase \in {"gate", "failed"},
           NEW t \in FirstUnappliable(included)
    PROVE  ~InRun(t, hist.offered)
<1> SUFFICES ASSUME InRun(t, hist.offered) PROVE FALSE
  OBVIOUS
<1> DEFINE good == {u \in hist.offered : StillValid(u) /\ Requires[u] \subseteq landed}
           rivals == {u \in From(t, hist.offered) :
                        /\ StillValid(u)
                        /\ Requires[u] \subseteq landed \cup Earlier(u, hist.offered)}
           first == Cardinality(From(t, landed))
<1>1. /\ t \in included /\ ~Applies(t, included)
      /\ \A u \in Earlier(t, included) : Applies(u, included)
  BY DEF FirstUnappliable
<1>2. /\ included \in SUBSET Tx /\ hist.offered \in SUBSET Tx /\ landed \in SUBSET Tx
      /\ IsFiniteSet(included) /\ IsFiniteSet(landed)
  BY DEF ProducerTypes, TypeOK, History
<1>3. /\ included \subseteq hist.offered
      /\ \A v \in included, u \in hist.offered :
            u.sender = v.sender /\ Before(u, v) => u \in included
  BY DEF Contiguous
<1>4. t \in good
  BY Zenon DEF InRun
<1>5. /\ \A u \in rivals : t.kind # "mint" /\ u.nonce = t.nonce => u = t
      /\ \A n \in first..(t.nonce - 1) :
            t.kind # "mint" => \E u \in From(t, good) : u.nonce = n
  BY Zenon DEF InRun
<1>6. t.kind # "mint" /\ t.nonce # Cardinality(From(t, landed \cup Earlier(t, included)))
  BY <1>1, <1>4 DEF Applies, StillValid
<1>7. first <= t.nonce
  BY <1>4, <1>6 DEF StillValid
<1>8. ASSUME NEW n \in first..(t.nonce - 1)
      PROVE  \E u \in From(t, Earlier(t, included)) : u.nonce = n
  <2>1. PICK u \in From(t, good) : u.nonce = n
    BY <1>5, <1>6
  <2>2. u \in hist.offered /\ u.sender = t.sender
    BY <2>1 DEF From
  <2>3. first \in Nat
    <3>1. From(t, landed) \in SUBSET landed
      BY DEF From
    <3> QED BY <1>2, <3>1, FewerElements
  <2>4. Before(u, t)
    BY <1>1, <1>2, <2>1, <2>2, <2>3, TxFields DEF Before
  <2>5. u \in From(t, Earlier(t, included))
    BY <1>1, <1>3, <2>2, <2>4 DEF From, Earlier
  <2> QED BY <2>1, <2>5
<1>9. ASSUME NEW u \in From(t, Earlier(t, included)), u.nonce = t.nonce
      PROVE  FALSE
  <2>1. u \in included /\ u \in Tx /\ u.sender = t.sender /\ Before(u, t) /\ Applies(u, included)
    BY <1>1, <1>2 DEF From, Earlier
  <2>2. StillValid(u)
    <3>1. From(u, landed) = From(t, landed)
      BY <2>1 DEF From
    <3> QED BY <1>7, <1>9, <2>1, <3>1 DEF Applies, StillValid
  <2>3. Requires[u] \subseteq landed \cup Earlier(u, hist.offered)
    BY <1>3, <2>1 DEF Applies, Earlier
  <2>4. u \in rivals
    BY <1>3, <2>1, <2>2, <2>3 DEF From
  <2>5. u = t
    BY <1>5, <1>6, <1>9, <2>4
  <2> QED BY <2>1, <2>5, BeforeOrder
<1>10. Cardinality(From(t, landed \cup Earlier(t, included))) = t.nonce
  BY <1>1, <1>2, <1>6, <1>7, <1>8, <1>9, NextInLine
<1> QED BY <1>6, <1>10

-----------------------------------------------------------------------------
(***************************************************************************)
(* Types.                                                                  *)
(***************************************************************************)
LEMMA PartialFunction ==
    ASSUME NEW S, NEW T, NEW f
    PROVE  /\ f \in PartialFunctions(S, T) => f \in [DOMAIN f -> T] /\ DOMAIN f \subseteq S
           /\ \A D \in SUBSET S : f \in [D -> T] => f \in PartialFunctions(S, T)
BY DEF PartialFunctions

LEMMA PutRow ==
    ASSUME NEW S, NEW T, NEW f \in PartialFunctions(S, T), NEW k \in S, NEW v \in T
    PROVE  /\ Put(f, k, v) \in PartialFunctions(S, T)
           /\ DOMAIN Put(f, k, v) = DOMAIN f \cup {k}
<1>1. f \in [DOMAIN f -> T] /\ DOMAIN f \subseteq S
  BY PartialFunction
<1>2. Put(f, k, v) \in [DOMAIN f \cup {k} -> T]
  BY <1>1 DEF Put
<1>3. DOMAIN f \cup {k} \in SUBSET S
  BY <1>1
<1> QED BY <1>2, <1>3, PartialFunction

LEMMA DropRows ==
    ASSUME NEW f, NEW D
    PROVE  /\ DOMAIN Drop(f, D) = DOMAIN f \ D
           /\ \A x \in DOMAIN f \ D : Drop(f, D)[x] = f[x]
           /\ \A S, T : f \in PartialFunctions(S, T) => Drop(f, D) \in PartialFunctions(S, T)
<1>1. Drop(f, D) = [x \in DOMAIN f \ D |-> f[x]]
  BY DEF Drop, Restrict
<1>2. ASSUME NEW S, NEW T, f \in PartialFunctions(S, T)
      PROVE  Drop(f, D) \in PartialFunctions(S, T)
  <2>1. f \in [DOMAIN f -> T] /\ DOMAIN f \subseteq S
    BY <1>2, PartialFunction
  <2>2. Drop(f, D) \in [DOMAIN f \ D -> T]
    BY <1>1, <2>1
  <2>3. DOMAIN f \ D \in SUBSET S
    BY <2>1
  <2> QED BY <2>2, <2>3, PartialFunction
<1> QED BY <1>1, <1>2

\* The parts of the type invariant that an action may disturb together.
ChainTypes == landed \subseteq Tx /\ catalog \subseteq Song /\ height \in Nat /\ IsFiniteSet(landed)
PoolTypes ==
    /\ mempool \in PartialFunctions(Tx, 0..MaxTime) /\ IsFiniteSet(DOMAIN mempool)
    /\ sp \in PartialFunctions(Song, 0..MaxTime)
    /\ arriving \in SUBSET (Song \X (0..MaxTime))
SongTypes ==
    /\ DOMAIN songs \subseteq Song
    /\ \A s \in DOMAIN songs : songs[s] \in Registration /\ songs[s].submit \in 0..MaxTime
LocalTypes ==
    /\ phase \in Phases /\ at \in 0..MaxTime
    /\ reg \in Song \cup {NoSong} /\ reg_ms \in 0..MaxTime
    /\ included \subseteq {t \in Tx : t.kind # "system"} /\ IsFiniteSet(included)
    /\ prev \in 0..height
BoundTypes == now \in 0..MaxTime /\ peers \in 0..MaxPeerBlocks /\ restarts \in 0..MaxRestarts

LEMMA TypesApart ==
    ProducerTypes <=> /\ ChainTypes /\ PoolTypes /\ SongTypes /\ LocalTypes /\ BoundTypes
                      /\ hist \in History
BY DEF ProducerTypes, TypeOK, ChainTypes, PoolTypes, SongTypes, LocalTypes, BoundTypes

\* What a block writes, the producer's or a peer's.
LEMMA ConnectTypes ==
    ASSUME ChainTypes, PoolTypes, NEW s \in Song \cup {NoSong},
           NEW body \in SUBSET Tx, IsFiniteSet(body), Connect(s, body), arriving' = arriving
    PROVE  ChainTypes' /\ PoolTypes'
<1>1. ChainTypes'
  <2>1. IsFiniteSet(landed')
    BY FS_Union DEF Connect, ChainTypes
  <2> QED BY <2>1 DEF Connect, ChainTypes
<1>2. PoolTypes'
  <2>1. mempool' \in PartialFunctions(Tx, 0..MaxTime) /\ sp' \in PartialFunctions(Song, 0..MaxTime)
    BY DropRows DEF Connect, PoolTypes
  <2>2. IsFiniteSet(DOMAIN mempool')
    <3>1. DOMAIN mempool' \in SUBSET DOMAIN mempool
      BY DropRows DEF Connect
    <3> QED BY <3>1, FewerElements DEF PoolTypes
  <2> QED BY <2>1, <2>2 DEF PoolTypes
<1> QED BY <1>1, <1>2

\* What a deletion leaves.
LEMMA DeleteTypes ==
    ASSUME PoolTypes, hist \in History, NEW t \in Tx, Delete(t), UNCHANGED <<sp, arriving>>
    PROVE  PoolTypes' /\ hist' \in History
<1>1. mempool' \in PartialFunctions(Tx, 0..MaxTime) /\ DOMAIN mempool' \in SUBSET DOMAIN mempool
  BY DropRows DEF Delete, PoolTypes
<1>2. IsFiniteSet(DOMAIN mempool')
  BY <1>1, FewerElements DEF PoolTypes
<1>3. hist' \in History
  BY DEF Delete, History
<1> QED BY <1>1, <1>2, <1>3 DEF PoolTypes

\* Songs that are only pruned keep their types.
LEMMA PruneTypes ==
    ASSUME SongTypes, NEW D, songs' = Drop(songs, D)
    PROVE  SongTypes'
<1>1. DOMAIN songs' = DOMAIN songs \ D /\ \A s \in DOMAIN songs \ D : songs'[s] = songs[s]
  BY DropRows
<1> QED BY <1>1 DEF SongTypes

LEMMA TypesInit == Init => ProducerTypes
<1> SUFFICES ASSUME Init PROVE ProducerTypes
  OBVIOUS
<1>1. /\ mempool \in PartialFunctions(Tx, 0..MaxTime) /\ DOMAIN mempool = {}
      /\ sp \in PartialFunctions(Song, 0..MaxTime)
      /\ DOMAIN songs = {}
  <2>1. <<>> \in [{} -> 0..MaxTime] /\ DOMAIN <<>> = {}
    OBVIOUS
  <2> QED BY <2>1, PartialFunction DEF Init
<1>2. ChainTypes /\ PoolTypes
  BY <1>1, FS_EmptySet DEF Init, ChainTypes, PoolTypes
<1>3. SongTypes
  BY <1>1 DEF SongTypes
<1>4. LocalTypes /\ BoundTypes
  BY ProducerAssumption, FS_EmptySet DEF Init, LocalTypes, BoundTypes, Phases
<1>5. hist \in History
  BY DEF Init, HistInit, History
<1> QED BY <1>2, <1>3, <1>4, <1>5, TypesApart

LEMMA TypesStep == ProducerTypes /\ [Next]_vars => ProducerTypes'
<1> SUFFICES ASSUME ProducerTypes, [Next]_vars PROVE ProducerTypes'
  OBVIOUS
<1>0. ChainTypes /\ PoolTypes /\ SongTypes /\ LocalTypes /\ BoundTypes /\ hist \in History
  BY TypesApart
<1> SUFFICES /\ ChainTypes' /\ PoolTypes' /\ SongTypes' /\ LocalTypes' /\ BoundTypes'
              /\ hist' \in History
  BY DEF ProducerTypes, TypeOK, ChainTypes, PoolTypes, SongTypes, LocalTypes, BoundTypes
<1>1. CASE Scan
  <2> DEFINE s == SelectSong(now)
             pruned == {u \in Selectable(now) : song_on_chain(u) /\ (s # NoSong => u < s)}
  <2>1. /\ phase' = "assemble" /\ at' = now /\ reg' = s
        /\ reg_ms' = (IF s = NoSong THEN 0 ELSE songs[s].submit)
        /\ songs' = Drop(songs, pruned) /\ sp' = Drop(sp, pruned)
        /\ UNCHANGED <<now, mempool, arriving, chainVars, included, prev, boundVars, hist>>
    BY <1>1 DEF Scan
  <2>2. s = NoSong \/ s \in DOMAIN songs
    BY DEF SelectSong, Selectable
  <2> HIDE DEF s, pruned
  <2>3. SongTypes'
    BY <1>0, <2>1, PruneTypes
  <2>4. PoolTypes'
    BY <1>0, <2>1, DropRows DEF PoolTypes
  <2>5. s \in Song \cup {NoSong} /\ reg_ms' \in 0..MaxTime
    BY <1>0, <2>1, <2>2, ProducerAssumption DEF SongTypes
  <2>6. LocalTypes'
    BY <1>0, <2>1, <2>5 DEF LocalTypes, BoundTypes, Phases, chainVars
  <2> QED BY <1>0, <2>1, <2>3, <2>4, <2>6 DEF ChainTypes, BoundTypes, chainVars, boundVars
<1>2. CASE Assemble
  <2>1. UNCHANGED <<now, sp, arriving, songs, chainVars, at, reg, reg_ms, prev, boundVars>>
    BY <1>2 DEF Assemble
  <2>2. /\ phase' = "gate" /\ included' = TakePrefix(SenderCapped(InBoundary))
        /\ mempool' = Drop(mempool, {t \in DOMAIN mempool : t.kind = "system"})
        /\ hist' = [hist EXCEPT !.offered = InBoundary,
                               !.unknown = @ \cup {t \in DOMAIN mempool : t.kind = "system"}]
    BY <1>2 DEF Assemble
  <2>3. DOMAIN mempool \subseteq Tx /\ IsFiniteSet(DOMAIN mempool)
    BY <1>0, PartialFunction DEF PoolTypes
  <2>4. /\ included' \in SUBSET DOMAIN mempool
        /\ included' \subseteq {t \in Tx : t.kind # "system"}
        /\ InBoundary \in SUBSET Tx
    BY <2>2, <2>3 DEF TakePrefix, SenderCapped, InBoundary
  <2>5. IsFiniteSet(included')
    BY <2>3, <2>4, FewerElements
  <2>6. LocalTypes'
    BY <1>0, <2>1, <2>2, <2>4, <2>5 DEF LocalTypes, Phases, chainVars
  <2>7. mempool' \in PartialFunctions(Tx, 0..MaxTime) /\ DOMAIN mempool' \in SUBSET DOMAIN mempool
    BY <1>0, <2>2, DropRows DEF PoolTypes
  <2>8. PoolTypes'
    <3>1. IsFiniteSet(DOMAIN mempool')
      BY <2>3, <2>7, FewerElements
    <3> QED BY <1>0, <2>1, <2>7, <3>1 DEF PoolTypes
  <2>9. hist' \in History
    BY <1>0, <2>2, <2>3, <2>4 DEF History
  <2> QED BY <1>0, <2>1, <2>6, <2>8, <2>9 DEF ChainTypes, SongTypes, BoundTypes, chainVars, boundVars
<1>3. CASE Gate
  <2>1. PICK t \in FirstUnappliable(included) : included' = included \ {t} /\ Delete(t)
    BY <1>3 DEF Gate
  <2>2. UNCHANGED <<now, sp, arriving, songs, chainVars, phase, at, reg, reg_ms, prev, boundVars>>
    BY <1>3 DEF Gate
  <2>3. t \in Tx
    BY <1>0, <2>1 DEF FirstUnappliable, LocalTypes
  <2>4. PoolTypes' /\ hist' \in History
    BY <1>0, <2>1, <2>2, <2>3, DeleteTypes
  <2>5. IsFiniteSet(included')
    BY <1>0, <2>1, FewerElements DEF LocalTypes
  <2>6. LocalTypes'
    BY <1>0, <2>1, <2>2, <2>5 DEF LocalTypes, chainVars
  <2> QED BY <1>0, <2>2, <2>4, <2>6 DEF ChainTypes, SongTypes, BoundTypes, chainVars, boundVars
<1>4. CASE GateClean
  BY <1>0, <1>4 DEF GateClean, ChainTypes, PoolTypes, SongTypes, LocalTypes, BoundTypes, Phases,
                    poolVars, chainVars, boundVars
<1>5. CASE Build
  BY <1>0, <1>5 DEF Build, ChainTypes, PoolTypes, SongTypes, LocalTypes, BoundTypes, Phases,
                    poolVars, chainVars, boundVars
<1>6. CASE commit_block
  <2>1. /\ Connect(reg, included) /\ songs' = Drop(songs, {reg}) /\ phase' = "wait"
        /\ UNCHANGED <<now, arriving, at, reg, reg_ms, included, prev, boundVars, hist>>
    BY <1>6 DEF commit_block
  <2>2. reg \in Song \cup {NoSong} /\ included \in SUBSET Tx /\ IsFiniteSet(included)
    BY <1>0 DEF LocalTypes
  <2>3. ChainTypes' /\ PoolTypes'
    BY <1>0, <2>1, <2>2, ConnectTypes
  <2>4. SongTypes'
    BY <1>0, <2>1, PruneTypes
  <2>5. LocalTypes'
    BY <1>0, <2>1 DEF LocalTypes, Phases, Connect, ChainTypes
  <2> QED BY <1>0, <2>1, <2>3, <2>4, <2>5 DEF BoundTypes, boundVars
<1>7. CASE CommitRejected
  <2>1. hist' \in History
    BY <1>0, <1>7 DEF CommitRejected, History
  <2> QED
    BY <1>0, <1>7, <2>1 DEF CommitRejected, ChainTypes, PoolTypes, SongTypes, LocalTypes, BoundTypes,
                            Phases, poolVars, chainVars, boundVars
<1>8. CASE EvictPoison
  <2>1. PICK t \in FirstUnappliable(included) : Delete(t)
    BY <1>8 DEF EvictPoison
  <2>2. /\ phase' = "wait"
        /\ UNCHANGED <<now, sp, arriving, songs, chainVars, at, reg, reg_ms, included,
                       prev, boundVars>>
    BY <1>8 DEF EvictPoison
  <2>3. t \in Tx
    BY <1>0, <2>1 DEF FirstUnappliable, LocalTypes
  <2>4. PoolTypes' /\ hist' \in History
    BY <1>0, <2>1, <2>2, <2>3, DeleteTypes
  <2> QED BY <1>0, <2>2, <2>4 DEF ChainTypes, SongTypes, LocalTypes, BoundTypes, Phases,
                                  chainVars, boundVars
<1>9. CASE Penalize
  <2>1. /\ Retry /\ phase' = "wait"
        /\ UNCHANGED <<now, mempool, arriving, chainVars, at, reg, reg_ms, included, prev,
                       boundVars, hist>>
    BY <1>9 DEF Penalize
  <2>2. CASE UNCHANGED <<songs, sp>>
    BY <1>0, <2>1, <2>2 DEF ChainTypes, PoolTypes, SongTypes, LocalTypes, BoundTypes, Phases,
                            chainVars, boundVars
  <2>3. CASE songs' = Drop(songs, {reg}) /\ sp' = Drop(sp, {reg})
    <3>1. SongTypes'
      BY <1>0, <2>3, PruneTypes
    <3>2. PoolTypes'
      BY <1>0, <2>1, <2>3, DropRows DEF PoolTypes
    <3> QED BY <1>0, <2>1, <3>1, <3>2 DEF ChainTypes, LocalTypes, BoundTypes, Phases,
                                          chainVars, boundVars
  <2>4. CASE /\ reg \in DOMAIN songs /\ ~(songs[reg].retries + 1 >= MAX_RETRIES)
             /\ songs' = [songs EXCEPT ![reg].retries = songs[reg].retries + 1]
             /\ UNCHANGED sp
    <3>1. songs[reg] \in Registration /\ songs[reg].submit \in 0..MaxTime
      BY <1>0, <2>4 DEF SongTypes
    <3>2. songs[reg].retries + 1 \in 0..MAX_RETRIES
      BY <2>4, <3>1, ProducerAssumption DEF Registration
    <3>3. [songs[reg] EXCEPT !.retries = songs[reg].retries + 1] \in Registration
      BY <3>1, <3>2 DEF Registration
    <3>4. SongTypes'
      BY <1>0, <2>4, <3>1, <3>3 DEF SongTypes, Registration
    <3> QED BY <1>0, <2>1, <2>4, <3>4 DEF ChainTypes, PoolTypes, LocalTypes, BoundTypes, Phases,
                                          chainVars, boundVars
  <2> QED BY <2>1, <2>2, <2>3, <2>4 DEF Retry
<1>10. CASE \E t \in Tx, ms \in 0..MaxTime : ingest_tx(t, ms)
  <2>1. PICK t \in Tx, ms \in 0..MaxTime : ingest_tx(t, ms)
    BY <1>10
  <2>2. /\ mempool' = Put(mempool, t, ms)
        /\ UNCHANGED <<now, sp, arriving, songs, chainVars, localVars, boundVars, hist>>
    BY <2>1 DEF ingest_tx
  <2>3. /\ mempool' \in PartialFunctions(Tx, 0..MaxTime)
        /\ DOMAIN mempool' = DOMAIN mempool \cup {t}
    <3> DEFINE stamps == 0..MaxTime
    <3>1. mempool \in PartialFunctions(Tx, stamps) /\ ms \in stamps
      BY <1>0 DEF PoolTypes
    <3> HIDE DEF stamps
    <3>2. /\ Put(mempool, t, ms) \in PartialFunctions(Tx, stamps)
          /\ DOMAIN Put(mempool, t, ms) = DOMAIN mempool \cup {t}
      BY <3>1, PutRow
    <3> QED BY <2>2, <3>2 DEF stamps
  <2>4. IsFiniteSet(DOMAIN mempool')
    BY <1>0, <2>3, FS_AddElement DEF PoolTypes
  <2> QED BY <1>0, <2>2, <2>3, <2>4 DEF ChainTypes, PoolTypes, SongTypes, LocalTypes, BoundTypes,
                                        localVars, chainVars, boundVars
<1>11. CASE \E s \in Song, ms \in 0..MaxTime : ingest_fpsubmit(s, ms)
  <2>1. PICK s \in Song, ms \in 0..MaxTime : ingest_fpsubmit(s, ms)
    BY <1>11
  <2>2. /\ sp' = Put(sp, s, ms) /\ arriving' = {<<s, ms>>}
        /\ UNCHANGED <<now, mempool, songs, chainVars, localVars, boundVars, hist>>
    BY <2>1 DEF ingest_fpsubmit
  <2>3. sp' \in PartialFunctions(Song, 0..MaxTime)
    BY <1>0, <2>2, PutRow DEF PoolTypes
  <2> QED BY <1>0, <2>2, <2>3 DEF ChainTypes, PoolTypes, SongTypes, LocalTypes, BoundTypes,
                                  localVars, chainVars, boundVars
<1>12. CASE \E s \in Song : RefuseLanded(s)
  <2>1. PICK s \in Song : RefuseLanded(s)
    BY <1>12
  <2>2. /\ sp' = Drop(sp, {s})
        /\ UNCHANGED <<now, mempool, arriving, songs, chainVars, localVars, boundVars, hist>>
    BY <2>1 DEF RefuseLanded
  <2>3. sp' \in PartialFunctions(Song, 0..MaxTime)
    BY <1>0, <2>2, DropRows DEF PoolTypes
  <2> QED BY <1>0, <2>2, <2>3 DEF ChainTypes, PoolTypes, SongTypes, LocalTypes, BoundTypes,
                                  localVars, chainVars, boundVars
<1>13. CASE enqueue_registration
  <2>1. PICK r \in arriving :
            /\ songs' = Put(songs, r[1], [submit |-> r[2], retries |-> 0])
            /\ arriving' = {}
            /\ UNCHANGED <<now, mempool, sp, chainVars, localVars, boundVars, hist>>
    BY <1>13 DEF enqueue_registration
  <2>2. r[1] \in Song /\ r[2] \in 0..MaxTime
    BY <1>0 DEF PoolTypes
  <2>3. [submit |-> r[2], retries |-> 0] \in Registration
    BY <2>2, ProducerAssumption DEF Registration
  <2>4. SongTypes'
    <3>1. /\ DOMAIN songs' = DOMAIN songs \cup {r[1]}
          /\ \A s \in DOMAIN songs' : songs'[s] = IF s = r[1] THEN [submit |-> r[2], retries |-> 0]
                                                 ELSE songs[s]
      BY <2>1 DEF Put
    <3> QED BY <1>0, <2>2, <2>3, <3>1 DEF SongTypes
  <2> QED BY <1>0, <2>1, <2>4 DEF ChainTypes, PoolTypes, LocalTypes, BoundTypes,
                                  localVars, chainVars, boundVars
<1>14. CASE \E s \in Song \cup {NoSong} :
               \E body \in {{}} \cup {{t} : t \in {u \in Tx : u.kind # "system"}} : PeerBlock(s, body)
  <2>1. PICK s \in Song \cup {NoSong},
             body \in {{}} \cup {{t} : t \in {u \in Tx : u.kind # "system"}} : PeerBlock(s, body)
    BY <1>14
  <2>2. /\ Connect(s, body) /\ peers < MaxPeerBlocks /\ peers' = peers + 1
        /\ UNCHANGED <<now, arriving, songs, localVars, restarts, hist>>
    BY <2>1 DEF PeerBlock
  <2>3. body \in SUBSET Tx /\ IsFiniteSet(body)
    <3>1. body = {} \/ \E t \in Tx : body = {t}
      OBVIOUS
    <3>2. IsFiniteSet({}) /\ \A t : IsFiniteSet({t})
      BY FS_EmptySet, FS_Singleton
    <3> QED BY <3>1, <3>2
  <2>4. ChainTypes' /\ PoolTypes'
    BY <1>0, <2>2, <2>3, ConnectTypes
  <2>5. LocalTypes'
    BY <1>0, <2>2 DEF LocalTypes, Connect, ChainTypes, localVars
  <2>6. BoundTypes'
    BY <1>0, <2>2, ProducerAssumption DEF BoundTypes
  <2> QED BY <1>0, <2>2, <2>4, <2>5, <2>6 DEF SongTypes
<1>15. CASE Restart
  <2> DEFINE kept == {s \in DOMAIN sp : ~song_on_chain(s)}
  <2>1. /\ restarts < MaxRestarts /\ restarts' = restarts + 1
        /\ sp' = Restrict(sp, kept)
        /\ songs' = [s \in kept |-> [submit |-> sp[s], retries |-> 0]]
        /\ arriving' = {}
        /\ phase' = "wait" /\ at' = 0 /\ reg' = NoSong /\ reg_ms' = 0 /\ included' = {} /\ prev' = 0
        /\ UNCHANGED <<now, mempool, chainVars, peers, hist>>
    BY <1>15 DEF Restart
  <2>2. sp \in [DOMAIN sp -> 0..MaxTime] /\ DOMAIN sp \subseteq Song /\ kept \in SUBSET DOMAIN sp
    BY <1>0, PartialFunction DEF PoolTypes
  <2> HIDE DEF kept
  <2>3. \A s \in kept : [submit |-> sp[s], retries |-> 0] \in Registration /\ sp[s] \in 0..MaxTime
    BY <2>2, ProducerAssumption DEF Registration
  <2>4. SongTypes'
    BY <2>1, <2>2, <2>3 DEF SongTypes
  <2>5. sp' \in PartialFunctions(Song, 0..MaxTime)
    <3>1. sp' \in [kept -> 0..MaxTime] /\ kept \in SUBSET Song
      BY <2>1, <2>2 DEF Restrict
    <3> QED BY <3>1, PartialFunction
  <2>6. LocalTypes'
    <3>1. IsFiniteSet(included') /\ included' = {} /\ 0 \in 0..MaxTime /\ height' = height
      BY <2>1, ProducerAssumption, FS_EmptySet DEF chainVars
    <3>2. prev' \in 0..height'
      BY <1>0, <2>1, <3>1 DEF ChainTypes
    <3> QED BY <2>1, <3>1, <3>2 DEF LocalTypes, Phases
  <2>7. BoundTypes'
    BY <1>0, <2>1, ProducerAssumption DEF BoundTypes
  <2> QED BY <1>0, <2>1, <2>4, <2>5, <2>6, <2>7 DEF ChainTypes, PoolTypes, chainVars
<1>16. CASE Tick
  BY <1>0, <1>16, ProducerAssumption
     DEF Tick, ChainTypes, PoolTypes, SongTypes, LocalTypes, BoundTypes,
         poolVars, localVars, chainVars, boundVars
<1>17. CASE UNCHANGED vars
  BY <1>0, <1>17 DEF vars, ChainTypes, PoolTypes, SongTypes, LocalTypes, BoundTypes,
                     poolVars, localVars, chainVars, boundVars
<1> QED
  BY <1>1, <1>2, <1>3, <1>4, <1>5, <1>6, <1>7, <1>8, <1>9, <1>10, <1>11, <1>12, <1>13, <1>14,
     <1>15, <1>16, <1>17 DEF Next, Pass

-----------------------------------------------------------------------------
(***************************************************************************)
(* Who moves what.                                                         *)
(***************************************************************************)

\* The producer's own step, or one that leaves its locals and the history be.
LEMMA OwnStep ==
    [Next]_vars => Pass \/ Restart \/ UNCHANGED <<localVars, hist>>
BY DEF Next, vars, ingest_tx, ingest_fpsubmit, RefuseLanded, enqueue_registration, PeerBlock, Tick

\* The chain changes by whole blocks that connect to its tip.
LEMMA ChainStep ==
    ASSUME ProducerTypes, [Next]_vars
    PROVE  \/ UNCHANGED chainVars
           \/ \E s \in Song \cup {NoSong}, body \in SUBSET Tx :
                 Connects(height, s, body) /\ Connect(s, body)
<1>1. CASE commit_block
  <2>1. Connects(prev, reg, included) /\ Connect(reg, included) /\ prev = height
    BY <1>1 DEF commit_block, Connects
  <2>2. reg \in Song \cup {NoSong} /\ included \in SUBSET Tx
    BY DEF ProducerTypes, TypeOK
  <2> QED BY <2>1, <2>2
<1>2. CASE \E s \in Song \cup {NoSong} :
              \E body \in {{}} \cup {{t} : t \in {u \in Tx : u.kind # "system"}} : PeerBlock(s, body)
  BY <1>2 DEF PeerBlock
<1>3. CASE ~commit_block /\ Pass
  BY <1>3 DEF Pass, Scan, Assemble, Gate, GateClean, Build, CommitRejected, EvictPoison, Penalize
<1>4. CASE Restart \/ Tick \/ enqueue_registration \/ UNCHANGED vars
  BY <1>4 DEF Restart, Tick, enqueue_registration, vars
<1>5. CASE \E ms \in 0..MaxTime : \/ \E t \in Tx : ingest_tx(t, ms)
                                 \/ \E s \in Song : ingest_fpsubmit(s, ms)
  BY <1>5 DEF ingest_tx, ingest_fpsubmit
<1>6. CASE \E s \in Song : RefuseLanded(s)
  BY <1>6 DEF RefuseLanded
<1> QED BY <1>1, <1>2, <1>3, <1>4, <1>5, <1>6 DEF Next

\* What landed stays.
LEMMA ChainGrows ==
    ASSUME ProducerTypes, [Next]_vars
    PROVE  landed \subseteq landed' /\ catalog \subseteq catalog'
<1>1. CASE UNCHANGED chainVars
  BY <1>1 DEF chainVars
<1>2. CASE \E s \in Song \cup {NoSong}, body \in SUBSET Tx :
              Connects(height, s, body) /\ Connect(s, body)
  BY <1>2 DEF Connect
<1> QED BY <1>1, <1>2, ChainStep

-----------------------------------------------------------------------------
(***************************************************************************)
(* One song once.                                                          *)
(***************************************************************************)
LEMMA OneSongStep ==
    ASSUME ProducerTypes, OneSongOnce, [Next]_vars
    PROVE  OneSongOnce'
<1>1. CASE UNCHANGED chainVars
  BY <1>1 DEF OneSongOnce, chainVars
<1>2. ASSUME NEW s \in Song \cup {NoSong}, NEW body \in SUBSET Tx,
             Connects(height, s, body), Connect(s, body)
      PROVE  OneSongOnce'
  <2>1. CASE s = NoSong
    BY <1>2, <2>1 DEF Connect, OneSongOnce
  <2>2. CASE s # NoSong
    <3>1. \A c \in catalog : {c, s} \notin Alike
      BY <1>2, <2>2 DEF Connects, song_on_chain
    <3>2. catalog' = catalog \cup {s}
      BY <1>2, <2>2 DEF Connect
    <3>3. ASSUME NEW a \in catalog', NEW b \in catalog', a # b PROVE {a, b} \notin Alike
      <4>1. CASE a \in catalog /\ b \in catalog
        BY <3>3, <4>1 DEF OneSongOnce
      <4>2. CASE a \in catalog /\ b = s
        BY <3>1, <4>2
      <4>3. CASE a = s /\ b \in catalog
        <5>1. {a, b} = {b, s}
          BY <4>3
        <5> QED BY <3>1, <4>3, <5>1
      <4> QED BY <3>2, <3>3, <4>1, <4>2, <4>3
    <3> QED BY <3>3 DEF OneSongOnce
  <2> QED BY <2>1, <2>2
<1> QED BY <1>1, <1>2, ChainStep

-----------------------------------------------------------------------------
(***************************************************************************)
(* The caps never cost a transaction its life.                             *)
(***************************************************************************)
LEMMA ContiguousStep ==
    ASSUME ProducerTypes, Contiguous, CapsSpareTails, [Next]_vars
    PROVE  Contiguous' /\ CapsSpareTails'
<1>0. hist \in History
  BY DEF ProducerTypes
<1>1. CASE UNCHANGED <<localVars, hist>>
  BY <1>1 DEF Contiguous, CapsSpareTails, localVars
<1>2. CASE Scan \/ commit_block \/ Penalize \/ Restart
  <2>1. phase' \notin {"gate", "build", "commit", "failed"} /\ hist' = hist
    BY <1>2 DEF Scan, commit_block, Penalize, Restart
  <2> QED BY <2>1 DEF Contiguous, CapsSpareTails
<1>3. CASE Assemble
  <2>1. /\ included' = TakePrefix(SenderCapped(InBoundary))
        /\ hist'.offered = InBoundary /\ hist'.avoidable = hist.avoidable
    BY <1>0, <1>3 DEF Assemble, History
  <2>2. InBoundary \in SUBSET Tx /\ IsFiniteSet(InBoundary)
    <3>1. InBoundary \in SUBSET DOMAIN mempool
      BY DEF InBoundary
    <3>2. DOMAIN mempool \subseteq Tx /\ IsFiniteSet(DOMAIN mempool)
      BY PartialFunction DEF ProducerTypes, TypeOK
    <3> QED BY <3>1, <3>2, FewerElements
  <2>3. included' \subseteq hist'.offered
    BY <2>1 DEF TakePrefix, SenderCapped
  <2>4. \A t \in included', u \in hist'.offered :
           u.sender = t.sender /\ Before(u, t) => u \in included'
    BY <2>1, <2>2, CapsKeepPrefix
  <2> QED BY <2>1, <2>3, <2>4 DEF Contiguous, CapsSpareTails
<1>4. CASE Gate
  <2>1. PICK t \in FirstUnappliable(included) : included' = included \ {t} /\ Delete(t)
    BY <1>4 DEF Gate
  <2>2. phase = "gate" /\ phase' = phase
    BY <1>4 DEF Gate
  <2>3. ~InRun(t, hist.offered)
    BY <2>2, NeverAvoidable
  <2>4. hist'.offered = hist.offered \ {t} /\ hist'.avoidable = hist.avoidable
    BY <1>0, <2>1, <2>3 DEF Delete, History
  <2> QED BY <2>1, <2>2, <2>4 DEF Contiguous, CapsSpareTails
<1>5. CASE GateClean \/ Build
  <2>1. included' = included /\ hist' = hist /\ phase \in {"gate", "build"}
    BY <1>5 DEF GateClean, Build
  <2> QED BY <2>1 DEF Contiguous, CapsSpareTails
<1>6. CASE CommitRejected
  <2>1. included' = included /\ phase = "commit"
        /\ hist'.offered = hist.offered /\ hist'.avoidable = hist.avoidable
    BY <1>0, <1>6 DEF CommitRejected, History
  <2> QED BY <2>1 DEF Contiguous, CapsSpareTails
<1>7. CASE EvictPoison
  <2>1. PICK t \in FirstUnappliable(included) : Delete(t)
    BY <1>7 DEF EvictPoison
  <2>2. phase = "failed" /\ phase' = "wait"
    BY <1>7 DEF EvictPoison
  <2>3. ~InRun(t, hist.offered)
    BY <2>2, NeverAvoidable
  <2>4. hist'.avoidable = hist.avoidable
    BY <1>0, <2>1, <2>3 DEF Delete, History
  <2> QED BY <2>2, <2>4 DEF Contiguous, CapsSpareTails
<1> QED BY <1>1, <1>2, <1>3, <1>4, <1>5, <1>6, <1>7, OwnStep DEF Pass

-----------------------------------------------------------------------------
(***************************************************************************)
(* A transaction only goes stale, and a failure keeps its cause.           *)
(***************************************************************************)

\* What has landed before a transaction only grows.
LEMMA BeforeGrows ==
    ASSUME ProducerTypes, ProducerTypes', landed \subseteq landed', included' = included,
           NEW t \in included
    PROVE  LET before == landed \cup Earlier(t, included)
           IN  /\ before \subseteq before'
               /\ Cardinality(From(t, before)) \in Nat
               /\ Cardinality(From(t, before))' \in Nat
               /\ Cardinality(From(t, before)) <= Cardinality(From(t, before))'
<1> DEFINE before == landed \cup Earlier(t, included)
<1>1. before \subseteq before'
  BY DEF Earlier
<1>2. IsFiniteSet(landed' \cup included)
  BY FS_Union DEF ProducerTypes
<1>3. From(t, before)' \in SUBSET (landed' \cup included)
  BY DEF From, Earlier
<1>4. From(t, before) \in SUBSET From(t, before)'
  BY <1>1 DEF From
<1>5. IsFiniteSet(From(t, before)')
  BY <1>2, <1>3, FewerElements
<1> QED BY <1>1, <1>4, <1>5, FewerElements

LEMMA RipeStays ==
    ASSUME ProducerTypes, ProducerTypes', landed \subseteq landed', included' = included,
           NEW t \in included, Ripe(t, included)
    PROVE  /\ Ripe(t, included)'
           /\ ~Applies(t, included) => ~Applies(t, included)'
<1> DEFINE before == landed \cup Earlier(t, included)
           n == Cardinality(From(t, before))
<1>1. before \subseteq before' /\ n \in Nat /\ n' \in Nat /\ n <= n'
  BY BeforeGrows
<1>2. t \notin Poison /\ (t.kind # "mint" => t.nonce <= n) /\ Requires[t] \subseteq before
  BY DEF Ripe
<1>3. t.nonce \in Nat
  BY TxFields DEF ProducerTypes, TypeOK
<1>4. ~Applies(t, included) <=> t \in landed \/ (t.kind # "mint" /\ t.nonce # n)
  BY <1>2 DEF Applies
<1>5. t \in landed' \/ (t.kind # "mint" /\ t.nonce # n') => ~Applies(t, included)'
  BY DEF Applies
<1>6. (t.kind # "mint" => t.nonce <= n') /\ Requires[t] \subseteq before'
  <2> HIDE DEF n, before
  <2> QED BY <1>1, <1>2, <1>3
<1>7. Ripe(t, included)'
  BY <1>2, <1>6 DEF Ripe
<1>8. t.kind # "mint" /\ t.nonce # n => t.nonce # n'
  <2> HIDE DEF n, before
  <2> QED BY <1>1, <1>2, <1>3
<1> QED BY <1>4, <1>5, <1>7, <1>8

\* The gate lets nothing through that does not apply.
LEMMA BodyRipeStep ==
    ASSUME ProducerTypes, ProducerTypes', BodyRipe, [Next]_vars
    PROVE  BodyRipe'
<1>0. landed \subseteq landed'
  BY ChainGrows
<1>1. ASSUME phase \in {"build", "commit", "failed"}, included' = included PROVE BodyRipe'
  <2>1. ASSUME NEW t \in included PROVE Ripe(t, included)'
    BY <1>0, <1>1, <2>1, RipeStays DEF BodyRipe
  <2> QED BY <1>1, <2>1 DEF BodyRipe
<1>2. CASE UNCHANGED <<localVars, hist>>
  <2>1. phase' = phase /\ included' = included
    BY <1>2 DEF localVars
  <2>2. CASE phase \in {"build", "commit", "failed"}
    BY <1>1, <2>1, <2>2
  <2>3. CASE phase \notin {"build", "commit", "failed"}
    BY <2>1, <2>3 DEF BodyRipe
  <2> QED BY <2>2, <2>3
<1>3. CASE Scan \/ Assemble \/ Gate \/ commit_block \/ EvictPoison \/ Penalize \/ Restart
  <2>1. phase' \notin {"build", "commit", "failed"}
    BY <1>3 DEF Scan, Assemble, Gate, commit_block, EvictPoison, Penalize, Restart
  <2> QED BY <2>1 DEF BodyRipe
<1>4. CASE GateClean
  <2>1. FirstUnappliable(included) = {} /\ UNCHANGED <<landed, included>>
    BY <1>4 DEF GateClean, chainVars
  <2>2. included \in SUBSET Tx
    BY DEF ProducerTypes, TypeOK
  <2>3. \A t \in included : Applies(t, included)
    BY <2>1, <2>2, CleanMeansAllApply
  <2>4. ASSUME NEW t \in included PROVE Ripe(t, included)
    <3>1. Applies(t, included) /\ t.nonce \in Nat
      BY <2>2, <2>3, TxFields
    <3> QED BY <3>1 DEF Applies, Ripe
  <2>5. ASSUME NEW t \in included' PROVE Ripe(t, included)'
    BY <2>1, <2>4, <1>0, RipeStays
  <2> QED BY <2>5 DEF BodyRipe
<1>5. CASE Build \/ CommitRejected
  <2>1. phase \in {"build", "commit", "failed"} /\ included' = included
    BY <1>5 DEF Build, CommitRejected
  <2> QED BY <1>1, <2>1
<1> QED BY <1>2, <1>3, <1>4, <1>5, OwnStep DEF Pass

\* A song on the chain stays there.
LEMMA OnChainStays ==
    ASSUME ProducerTypes, [Next]_vars, NEW s, song_on_chain(s)
    PROVE  song_on_chain(s)'
BY ChainGrows DEF song_on_chain

\* Why a commit failed, and that peers do not undo the reason.
LEMMA FailureStep ==
    ASSUME ProducerTypes, ProducerTypes', BodyRipe, RetriesAreRaces, FailureExplained, [Next]_vars
    PROVE  FailureExplained'
<1>1. CASE UNCHANGED <<localVars, hist>>
  <2>1. phase' = phase /\ included' = included /\ reg' = reg /\ hist' = hist
    BY <1>1 DEF localVars
  <2> SUFFICES ASSUME phase = "failed" PROVE FailureExplained'
    BY <2>1 DEF FailureExplained
  <2>2. CASE \E t \in included : ~Applies(t, included)
    <3>1. PICK t \in included : ~Applies(t, included)
      BY <2>2
    <3>2. ~Applies(t, included)'
      BY <2>1, <3>1, ChainGrows, RipeStays DEF BodyRipe
    <3> QED BY <2>1, <3>2 DEF FailureExplained
  <2>3. CASE reg = NoSong
    BY <2>1, <2>3 DEF FailureExplained
  <2>4. CASE song_on_chain(reg)
    BY <2>1, <2>4, OnChainStays DEF FailureExplained, song_on_chain
  <2>5. CASE /\ hist.races[reg] > 0
             /\ reg \in DOMAIN songs => songs[reg].retries < hist.races[reg]
    <3>1. CASE enqueue_registration
      <4>1. PICK r \in arriving : songs' = Put(songs, r[1], [submit |-> r[2], retries |-> 0])
        BY <3>1 DEF enqueue_registration
      <4>2. ASSUME reg \in DOMAIN songs' PROVE songs'[reg].retries < hist.races[reg]
        <5>1. CASE reg = r[1]
          <6>1. songs'[reg] = [submit |-> r[2], retries |-> 0]
            BY <4>1, <4>2, <5>1 DEF Put
          <6> QED BY <2>5, <6>1
        <5>2. CASE reg # r[1]
          <6>1. reg \in DOMAIN songs /\ songs'[reg] = songs[reg]
            BY <4>1, <4>2, <5>2 DEF Put
          <6> QED BY <2>5, <6>1
        <5> QED BY <5>1, <5>2
      <4> QED BY <2>1, <2>5, <4>2 DEF FailureExplained
    <3>2. CASE ~enqueue_registration
      <4>1. songs' = songs
        BY <2>1, <3>2, <1>1 DEF Next, Pass, Scan, Assemble, Gate, GateClean, Build, commit_block,
           CommitRejected, EvictPoison, Penalize, Restart, localVars, vars, ingest_tx, ingest_fpsubmit,
           RefuseLanded, PeerBlock, Tick
      <4> QED BY <2>1, <2>5, <4>1 DEF FailureExplained
    <3> QED BY <3>1, <3>2
  <2> QED BY <2>2, <2>3, <2>4, <2>5 DEF FailureExplained
<1>2. CASE Pass /\ ~CommitRejected
  <2>1. phase' # "failed"
    BY <1>2 DEF Pass, Scan, Assemble, Gate, GateClean, Build, commit_block, EvictPoison, Penalize
  <2> QED BY <2>1 DEF FailureExplained
<1>3. CASE Restart
  BY <1>3 DEF Restart, FailureExplained
<1>4. CASE CommitRejected
  <2>1. /\ ~Connects(prev, reg, included)
        /\ hist' = [hist EXCEPT !.races = [s \in Song |-> IF s = reg /\ prev # height
                                                          THEN @[s] + 1 ELSE @[s]]]
        /\ UNCHANGED <<songs, landed, catalog, reg, included>>
    BY <1>4 DEF CommitRejected, chainVars
  <2>2. CASE FirstUnappliable(included) # {}
    <3>1. included \in SUBSET Tx
      BY DEF ProducerTypes, TypeOK
    <3>2. PICK t \in included : ~Applies(t, included)
      BY <2>2, <3>1, CleanMeansAllApply
    <3>3. ~Applies(t, included)'
      BY <2>1, <3>2 DEF Applies
    <3> QED BY <2>1, <3>3 DEF FailureExplained
  <2>3. CASE reg = NoSong
    BY <2>1, <2>3 DEF FailureExplained
  <2>4. CASE song_on_chain(reg)
    BY <2>1, <2>4 DEF FailureExplained, song_on_chain
  <2>5. CASE reg # NoSong /\ prev # height
    <3>1. reg \in Song /\ hist.races \in [Song -> Nat] /\ hist \in History
      BY <2>5 DEF ProducerTypes, TypeOK, History
    <3>2. hist'.races[reg] = hist.races[reg] + 1 /\ hist.races[reg] \in Nat
      BY <2>1, <2>5, <3>1 DEF History
    <3>3. reg \in DOMAIN songs => /\ songs[reg].retries \in Nat
                                  /\ songs[reg].retries <= hist.races[reg]
      BY DEF RetriesAreRaces, ProducerTypes, TypeOK, Registration
    <3> QED BY <2>1, <3>2, <3>3 DEF FailureExplained
  <2> QED BY <2>1, <2>2, <2>3, <2>4, <2>5 DEF Connects
<1> QED BY <1>1, <1>2, <1>3, <1>4, OwnStep

\* A retry is charged for a race only.
LEMMA RetriesStep ==
    ASSUME ProducerTypes, ProducerTypes', FailureExplained, RetriesAreRaces, [Next]_vars
    PROVE  RetriesAreRaces'
<1>0. /\ hist \in History /\ \A s \in Song : hist.races[s] \in Nat
      /\ \A s \in DOMAIN songs : s \in Song /\ songs[s].retries \in Nat
      /\ \A s \in DOMAIN songs : songs[s].retries <= hist.races[s]
  <2>1. hist \in History /\ \A s \in Song : hist.races[s] \in Nat
    BY DEF ProducerTypes, History
  <2>2. DOMAIN songs \subseteq Song /\ \A s \in DOMAIN songs : songs[s] \in Registration
    BY DEF ProducerTypes, TypeOK
  <2>3. \A s \in DOMAIN songs : songs[s].retries \in Nat
    BY <2>2 DEF Registration
  <2> QED BY <2>1, <2>2, <2>3 DEF RetriesAreRaces
<1>1. ASSUME hist'.races = hist.races,
             \A s \in DOMAIN songs' : /\ s \in DOMAIN songs
                                      /\ songs'[s].retries = songs[s].retries
      PROVE  RetriesAreRaces'
  BY <1>0, <1>1 DEF RetriesAreRaces
<1>2. ASSUME NEW D, songs' = Drop(songs, D), hist'.races = hist.races PROVE RetriesAreRaces'
  <2>1. /\ DOMAIN songs' = DOMAIN songs \ D
        /\ \A s \in DOMAIN songs \ D : songs'[s] = songs[s]
    BY <1>2, DropRows
  <2> QED BY <1>1, <1>2, <2>1
<1>3. CASE Scan \/ commit_block
  <2>1. hist' = hist /\ \E D : songs' = Drop(songs, D)
    BY <1>3 DEF Scan, commit_block
  <2> QED BY <1>2, <2>1
<1>4. CASE Assemble \/ Gate \/ EvictPoison
  <2>1. songs' = songs /\ hist'.races = hist.races
    BY <1>0, <1>4 DEF Assemble, Gate, EvictPoison, Delete, History
  <2> QED BY <1>1, <2>1
<1>5. CASE GateClean \/ Build
  BY <1>1, <1>5 DEF GateClean, Build
<1>6. CASE CommitRejected
  <2>1. songs' = songs /\ \A s \in Song : hist'.races[s] \in {hist.races[s], hist.races[s] + 1}
    BY <1>0, <1>6 DEF CommitRejected, History
  <2> QED BY <1>0, <2>1 DEF RetriesAreRaces
<1>7. CASE Penalize
  <2>1. /\ Retry /\ phase = "failed" /\ FirstUnappliable(included) = {} /\ hist' = hist
    BY <1>7 DEF Penalize
  <2>2. \A t \in included : Applies(t, included)
    <3>1. included \in SUBSET Tx
      BY DEF ProducerTypes, TypeOK
    <3> QED BY <2>1, <3>1, CleanMeansAllApply
  <2>3. CASE songs' = songs
    BY <1>1, <2>1, <2>3
  <2>4. CASE songs' = Drop(songs, {reg})
    BY <1>2, <2>1, <2>4
  <2>5. CASE /\ reg \in DOMAIN songs /\ ~song_on_chain(reg)
             /\ songs' = [songs EXCEPT ![reg].retries = songs[reg].retries + 1]
    <3>1. reg # NoSong
      BY <1>0, <2>5, ProducerAssumption
    <3>2. songs[reg].retries < hist.races[reg]
      BY <2>1, <2>2, <2>5, <3>1 DEF FailureExplained
    <3>3. songs[reg] \in Registration
      BY <2>5 DEF ProducerTypes, TypeOK
    <3>4. songs'[reg].retries = songs[reg].retries + 1
      BY <2>5, <3>3 DEF Registration
    <3>5. DOMAIN songs' = DOMAIN songs /\ \A s \in DOMAIN songs : s # reg => songs'[s] = songs[s]
      BY <2>5
    <3> QED BY <1>0, <2>1, <2>5, <3>2, <3>4, <3>5 DEF RetriesAreRaces
  <2> QED BY <2>1, <2>3, <2>4, <2>5 DEF Retry
<1>8. CASE enqueue_registration
  <2>1. PICK r \in arriving : /\ songs' = Put(songs, r[1], [submit |-> r[2], retries |-> 0])
                              /\ hist' = hist
    BY <1>8 DEF enqueue_registration
  <2>2. r[1] \in Song
    BY <2>1 DEF ProducerTypes, TypeOK
  <2>3. ASSUME NEW s \in DOMAIN songs' PROVE songs'[s].retries <= hist.races[s]
    <3>1. CASE s = r[1]
      <4>1. songs'[s] = [submit |-> r[2], retries |-> 0]
        BY <2>1, <3>1 DEF Put
      <4> QED BY <1>0, <2>2, <3>1, <4>1
    <3>2. CASE s # r[1]
      <4>1. s \in DOMAIN songs /\ songs'[s] = songs[s]
        BY <2>1, <3>2 DEF Put
      <4> QED BY <1>0, <4>1
    <3> QED BY <3>1, <3>2
  <2> QED BY <2>1, <2>3 DEF RetriesAreRaces
<1>9. CASE Restart
  <2> DEFINE kept == {s \in DOMAIN sp : ~song_on_chain(s)}
  <2>1. songs' = [s \in kept |-> [submit |-> sp[s], retries |-> 0]] /\ hist' = hist
    BY <1>9 DEF Restart
  <2>2. kept \subseteq Song
    BY PartialFunction DEF ProducerTypes, TypeOK
  <2> HIDE DEF kept
  <2>3. \A s \in DOMAIN songs' : s \in Song /\ songs'[s].retries = 0
    BY <2>1, <2>2
  <2> QED BY <1>0, <2>1, <2>3 DEF RetriesAreRaces
<1>10. CASE UNCHANGED <<songs, hist>>
  BY <1>1, <1>10
<1>11. Pass \/ Restart \/ enqueue_registration \/ UNCHANGED <<songs, hist>>
  BY DEF Next, vars, ingest_tx, ingest_fpsubmit, RefuseLanded, PeerBlock, Tick
<1> QED BY <1>3, <1>4, <1>5, <1>6, <1>7, <1>8, <1>9, <1>10, <1>11 DEF Pass

-----------------------------------------------------------------------------
(***************************************************************************)
(* The theorems.                                                           *)
(***************************************************************************)
LEMMA ProducerInvInit == Init => ProducerInv
<1> SUFFICES ASSUME Init PROVE ProducerInv
  OBVIOUS
<1>1. ProducerTypes
  BY TypesInit
<1>2. OneSongOnce /\ Contiguous /\ CapsSpareTails /\ BodyRipe /\ FailureExplained
  BY DEF Init, HistInit, OneSongOnce, Contiguous, CapsSpareTails, BodyRipe, FailureExplained
<1>3. RetriesAreRaces
  BY DEF Init, RetriesAreRaces
<1> QED BY <1>1, <1>2, <1>3 DEF ProducerInv

LEMMA ProducerInvStep == ProducerInv /\ [Next]_vars => ProducerInv'
<1> SUFFICES ASSUME ProducerInv, [Next]_vars PROVE ProducerInv'
  OBVIOUS
<1> USE DEF ProducerInv
<1>1. ProducerTypes'
  BY TypesStep
<1>2. OneSongOnce'
  BY OneSongStep
<1>3. Contiguous' /\ CapsSpareTails'
  BY ContiguousStep
<1>4. BodyRipe'
  BY <1>1, BodyRipeStep
<1>5. FailureExplained'
  BY <1>1, FailureStep
<1>6. RetriesAreRaces'
  BY <1>1, RetriesStep
<1> QED BY <1>1, <1>2, <1>3, <1>4, <1>5, <1>6

(***************************************************************************)
(* The invariant of the producer: its types, and the three parts that      *)
(* follow a body from Assemble to the end of its pass.                     *)
(***************************************************************************)
THEOREM ProducerInvariant == Spec => []ProducerInv
BY ProducerInvInit, ProducerInvStep, PTL DEF Spec

(***************************************************************************)
(* No two encodings of one song are ever on the chain (song_on_chain in    *)
(* ingest_fpsubmit, in heartbeat_loop and in connect_block).               *)
(***************************************************************************)
THEOREM OneSongOnChain == Spec => []OneSongOnce
<1>1. ProducerInv => OneSongOnce
  BY DEF ProducerInv
<1> QED BY <1>1, ProducerInvariant, PTL

(***************************************************************************)
(* The gate and the backstop delete no transaction whose run of nonces was *)
(* inside the boundary: capping a sender's tail is enough, for every cap   *)
(* and however much lands between the steps (heartbeat_loop).              *)
(***************************************************************************)
THEOREM CapsNeverStarve == Spec => []CapsSpareTails
<1>1. ProducerInv => CapsSpareTails
  BY DEF ProducerInv
<1> QED BY <1>1, ProducerInvariant, PTL

(***************************************************************************)
(* A song is charged a retry only for a peer's block that came between the *)
(* build and the commit of its own (the liveness backstop).                *)
(***************************************************************************)
THEOREM OnlyRacesCharged == Spec => []RetriesAreRaces
<1>1. ProducerInv => RetriesAreRaces
  BY DEF ProducerInv
<1> QED BY <1>1, ProducerInvariant, PTL
=============================================================================
