----------------------------- MODULE BlockFacts -----------------------------
(***************************************************************************)
(* What the proofs about blocks share: sums over balance sheets of any     *)
(* finite size, and the nonce discipline of an open block.                 *)
(***************************************************************************)
EXTENDS BlockScope, FiniteSets, Functions, FiniteSetTheorems,
        WellFoundedInduction, TLAPS

-----------------------------------------------------------------------------
(***************************************************************************)
(* Sums.  SumFunction is a recursion over a set, so its laws need an       *)
(* induction over finite sets.  They are proved without a schema: the set  *)
(* of counterexamples, were it not empty, would have a smallest member.    *)
(***************************************************************************)

\* The element at which a fold over D starts.
Pick(D) == CHOOSE x \in D : TRUE

\* g adds f up over every subset of D, as the folds of the library do.
Sums(g, f, D) ==
    g = [s \in SUBSET D |-> IF s = {} THEN 0 ELSE f[Pick(s)] + g[s \ {Pick(s)}]]

\* The sum of f over the set D.
SumOver(f, D) == (CHOOSE g : Sums(g, f, D))[D]

\* SumFunction is the sum over the whole domain.
LEMMA SumIsTotal ==
    ASSUME NEW f
    PROVE  SumFunction(f) = SumOver(f, DOMAIN f)
BY DEF SumFunction, SumFunctionOnSet, FoldFunctionOnSet, MapThenFoldSet,
       SumOver, Sums, Pick

\* SumFunctionOnSet is the sum over the set.
LEMMA SumOnSetIsTotal ==
    ASSUME NEW f, NEW D
    PROVE  SumFunctionOnSet(f, D) = SumOver(f, D)
BY DEF SumFunctionOnSet, FoldFunctionOnSet, MapThenFoldSet, SumOver, Sums, Pick

(***************************************************************************)
(* Among subsets of a finite set there is always a smallest one: every     *)
(* induction below looks at a smallest counterexample.                     *)
(***************************************************************************)
LEMMA SmallestSet ==
    ASSUME NEW S, IsFiniteSet(S), NEW T \in SUBSET SUBSET S, T # {}
    PROVE  \E D \in T : \A E \in T : E \subseteq D => E = D
<1>1. IsWellFoundedOn(StrictSubsetOrdering(S), SUBSET S)
  BY FS_StrictSubsetOrderingWellFounded, FS_FiniteSubsetsOfFinite
<1>2. PICK D \in T : \A E \in T : ~(<<E, D>> \in StrictSubsetOrdering(S))
  BY <1>1, WFMin
<1>3. D \in SUBSET S
  OBVIOUS
<1>4. ASSUME NEW E \in T, E \subseteq D, E # D PROVE FALSE
  <2>1. <<E, D>> \in (SUBSET S) \X (SUBSET S)
    BY <1>3
  <2> QED
    BY <1>2, <1>4, <2>1 DEF StrictSubsetOrdering
<1> QED
  BY <1>4

\* Pick returns an element.
LEMMA PickIn ==
    ASSUME NEW D, D # {}
    PROVE  Pick(D) \in D
BY DEF Pick

\* Two functions that add f up agree wherever both do.
LEMMA SumsUnique ==
    ASSUME NEW S, IsFiniteSet(S), NEW f, NEW D1 \in SUBSET S,
           NEW D2 \in SUBSET S, NEW g1, NEW g2, Sums(g1, f, D1),
           Sums(g2, f, D2), NEW D \in SUBSET (D1 \cap D2)
    PROVE  g1[D] = g2[D]
<1> DEFINE T == {E \in SUBSET (D1 \cap D2) : g1[E] # g2[E]}
<1> SUFFICES ASSUME T # {} PROVE FALSE
  OBVIOUS
<1>1. T \in SUBSET SUBSET S
  OBVIOUS
<1>2. PICK E \in T : \A F \in T : F \subseteq E => F = E
  <2> HIDE DEF T
  <2> QED BY <1>1, SmallestSet
<1>3. /\ g1[E] = IF E = {} THEN 0 ELSE f[Pick(E)] + g1[E \ {Pick(E)}]
      /\ g2[E] = IF E = {} THEN 0 ELSE f[Pick(E)] + g2[E \ {Pick(E)}]
  BY DEF Sums
<1>4. E # {}
  BY <1>3
<1>5. Pick(E) \in E
  BY <1>4, PickIn
<1>6. E \ {Pick(E)} \notin T
  BY <1>2, <1>5
<1>7. g1[E \ {Pick(E)}] = g2[E \ {Pick(E)}]
  BY <1>6
<1> QED
  BY <1>3, <1>7

\* A function that adds f up over the subsets of a finite set exists.
LEMMA SumsExists ==
    ASSUME NEW S, IsFiniteSet(S), NEW f, NEW D \in SUBSET S
    PROVE  \E g : Sums(g, f, D)
<1> DEFINE T == {E \in SUBSET S : ~ \E g : Sums(g, f, E)}
<1> SUFFICES ASSUME T # {} PROVE FALSE
  OBVIOUS
<1>1. PICK E \in T : \A F \in T : F \subseteq E => F = E
  <2>1. T \in SUBSET SUBSET S
    OBVIOUS
  <2> HIDE DEF T
  <2> QED BY <2>1, SmallestSet
<1> DEFINE h(t) == CHOOSE g : Sums(g, f, t)
           g == [s \in SUBSET E |-> IF s = {} THEN 0
                                    ELSE f[Pick(s)] + h(s \ {Pick(s)})[s \ {Pick(s)}]]
<1>2. ASSUME NEW t \in SUBSET E, t # E PROVE Sums(h(t), f, t)
  <2>1. t \notin T
    BY <1>1, <1>2
  <2>2. t \in SUBSET S
    OBVIOUS
  <2>3. \E k : Sums(k, f, t)
    BY <2>1, <2>2
  <2> QED
    BY <2>3 DEF h
<1> HIDE DEF h
<1>3. ASSUME NEW t \in SUBSET E, t # E PROVE g[t] = h(t)[t]
  <2>1. h(t)[t] = IF t = {} THEN 0 ELSE f[Pick(t)] + h(t)[t \ {Pick(t)}]
    BY <1>2, <1>3 DEF Sums
  <2>2. CASE t = {}
    BY <2>1, <2>2
  <2>3. CASE t # {}
    <3> DEFINE r == t \ {Pick(t)}
    <3>1. r \in SUBSET E /\ r # E /\ r \in SUBSET (t \cap r)
      BY <1>3, <2>3, PickIn
    <3>2. Sums(h(r), f, r) /\ Sums(h(t), f, t)
      BY <1>2, <1>3, <3>1
    <3>3. t \in SUBSET S /\ r \in SUBSET S
      BY <3>1
    <3> HIDE DEF r
    <3>4. h(t)[r] = h(r)[r]
      BY <3>1, <3>2, <3>3, SumsUnique
    <3> QED
      BY <2>1, <2>3, <3>4 DEF r
  <2> QED BY <2>2, <2>3
<1>4. ASSUME NEW s \in SUBSET E, s # {}
      PROVE  g[s \ {Pick(s)}] = h(s \ {Pick(s)})[s \ {Pick(s)}]
  <2>1. Pick(s) \in s
    BY <1>4, PickIn
  <2>2. s \ {Pick(s)} \in SUBSET E /\ s \ {Pick(s)} # E
    BY <2>1
  <2> HIDE DEF g
  <2> QED
    BY <1>3, <2>2
<1>5. \A s \in SUBSET E : g[s] = IF s = {} THEN 0
                                 ELSE f[Pick(s)] + h(s \ {Pick(s)})[s \ {Pick(s)}]
  OBVIOUS
<1>6. g = [s \in SUBSET E |-> g[s]]
  OBVIOUS
<1> HIDE DEF g
<1>7. \A s \in SUBSET E : g[s] = IF s = {} THEN 0
                                 ELSE f[Pick(s)] + g[s \ {Pick(s)}]
  BY <1>4, <1>5
<1>8. Sums(g, f, E)
  BY <1>6, <1>7 DEF Sums
<1> QED
  BY <1>1, <1>8

\* The sum takes one element off at a time.
LEMMA SumOverStep ==
    ASSUME NEW S, IsFiniteSet(S), NEW f, NEW D \in SUBSET S
    PROVE  SumOver(f, D) = IF D = {} THEN 0
                         ELSE f[Pick(D)] + SumOver(f, D \ {Pick(D)})
<1> DEFINE g == CHOOSE g : Sums(g, f, D)
           E == D \ {Pick(D)}
           h == CHOOSE h : Sums(h, f, E)
<1>1. Sums(g, f, D)
  BY SumsExists
<1>2. Sums(h, f, E)
  <2>1. E \in SUBSET S
    OBVIOUS
  <2> HIDE DEF E
  <2> QED BY <2>1, SumsExists
<1>3. SumOver(f, D) = g[D] /\ SumOver(f, E) = h[E]
  BY DEF SumOver
<1>4. E \in SUBSET S /\ E \in SUBSET (D \cap E)
  OBVIOUS
<1>5. g[D] = IF D = {} THEN 0 ELSE f[Pick(D)] + g[E]
  BY <1>1 DEF Sums
<1> HIDE DEF g, h, E
<1>6. g[E] = h[E]
  BY <1>1, <1>2, <1>4, SumsUnique
<1> QED
  BY <1>3, <1>5, <1>6 DEF E

\* A sum of integers is an integer.
LEMMA SumOverInt ==
    ASSUME NEW S, IsFiniteSet(S), NEW f, NEW D \in SUBSET S,
           \A x \in D : f[x] \in Int
    PROVE  SumOver(f, D) \in Int
<1> DEFINE T == {E \in SUBSET D : SumOver(f, E) \notin Int}
<1> SUFFICES ASSUME T # {} PROVE FALSE
  BY SumOverStep
<1>1. PICK E \in T : \A F \in T : F \subseteq E => F = E
  <2>1. T \in SUBSET SUBSET S
    OBVIOUS
  <2> HIDE DEF T
  <2> QED BY <2>1, SmallestSet
<1>2. E \in SUBSET S
  OBVIOUS
<1>3. SumOver(f, E) = IF E = {} THEN 0
                      ELSE f[Pick(E)] + SumOver(f, E \ {Pick(E)})
  BY <1>2, SumOverStep
<1>4. E # {} => Pick(E) \in E
  BY PickIn
<1>5. E # {} => SumOver(f, E \ {Pick(E)}) \in Int
  BY <1>1, <1>4
<1> QED
  BY <1>3, <1>4, <1>5

\* A sum of naturals is a natural.
LEMMA SumOverNat ==
    ASSUME NEW S, IsFiniteSet(S), NEW f, NEW D \in SUBSET S,
           \A x \in D : f[x] \in Nat
    PROVE  SumOver(f, D) \in Nat
<1> DEFINE T == {E \in SUBSET D : SumOver(f, E) \notin Nat}
<1> SUFFICES ASSUME T # {} PROVE FALSE
  BY SumOverStep
<1>1. PICK E \in T : \A F \in T : F \subseteq E => F = E
  <2>1. T \in SUBSET SUBSET S
    OBVIOUS
  <2> HIDE DEF T
  <2> QED BY <2>1, SmallestSet
<1>2. E \in SUBSET S
  OBVIOUS
<1>3. SumOver(f, E) = IF E = {} THEN 0
                      ELSE f[Pick(E)] + SumOver(f, E \ {Pick(E)})
  BY <1>2, SumOverStep
<1>4. E # {} => Pick(E) \in E
  BY PickIn
<1>5. E # {} => SumOver(f, E \ {Pick(E)}) \in Nat
  BY <1>1, <1>4
<1> QED
  BY <1>3, <1>4, <1>5

\* The order does not matter: any element can be taken off.
LEMMA SumOverRemove ==
    ASSUME NEW S, IsFiniteSet(S), NEW f, NEW D \in SUBSET S,
           \A x \in D : f[x] \in Int, NEW y \in D
    PROVE  SumOver(f, D) = f[y] + SumOver(f, D \ {y})
<1> DEFINE T == {E \in SUBSET D : \E x \in E :
                     SumOver(f, E) # f[x] + SumOver(f, E \ {x})}
<1> SUFFICES ASSUME T # {} PROVE FALSE
  OBVIOUS
<1>1. PICK E \in T : \A F \in T : F \subseteq E => F = E
  <2>1. T \in SUBSET SUBSET S
    OBVIOUS
  <2> HIDE DEF T
  <2> QED BY <2>1, SmallestSet
<1>2. PICK x \in E : SumOver(f, E) # f[x] + SumOver(f, E \ {x})
  OBVIOUS
<1>3. E \in SUBSET S /\ E # {}
  OBVIOUS
<1> DEFINE p == Pick(E)
<1>4. p \in E
  BY <1>3, PickIn
<1>5. SumOver(f, E) = f[p] + SumOver(f, E \ {p})
  BY <1>3, SumOverStep
<1> HIDE DEF p
<1>6. x # p
  BY <1>2, <1>5
<1>7. SumOver(f, E \ {p}) = f[x] + SumOver(f, (E \ {p}) \ {x})
  <2>1. E \ {p} \notin T
    BY <1>1, <1>4
  <2> QED BY <1>6, <2>1
<1>8. SumOver(f, E \ {x}) = f[p] + SumOver(f, (E \ {p}) \ {x})
  <2>1. E \ {x} \notin T
    BY <1>1, <1>2
  <2>2. SumOver(f, E \ {x}) = f[p] + SumOver(f, (E \ {x}) \ {p})
    BY <1>4, <1>6, <2>1
  <2>3. (E \ {x}) \ {p} = (E \ {p}) \ {x}
    OBVIOUS
  <2> QED BY <2>2, <2>3
<1>9. SumOver(f, (E \ {p}) \ {x}) \in Int
  <2>1. (E \ {p}) \ {x} \in SUBSET S /\ \A z \in (E \ {p}) \ {x} : f[z] \in Int
    OBVIOUS
  <2> QED BY <2>1, SumOverInt
<1>10. f[x] \in Int /\ f[p] \in Int
  BY <1>4
<1> DEFINE r == SumOver(f, (E \ {p}) \ {x})
<1>11. /\ r \in Int
       /\ SumOver(f, E) = f[p] + (f[x] + r)
       /\ SumOver(f, E) # f[x] + (f[p] + r)
  BY <1>2, <1>5, <1>7, <1>8, <1>9
<1> HIDE DEF T, r
<1> QED
  BY <1>10, <1>11

\* The sum reads nothing outside the set.
LEMMA SumOverAgree ==
    ASSUME NEW S, IsFiniteSet(S), NEW f, NEW h, NEW D \in SUBSET S,
           \A x \in D : f[x] = h[x]
    PROVE  SumOver(f, D) = SumOver(h, D)
<1> DEFINE T == {E \in SUBSET D : SumOver(f, E) # SumOver(h, E)}
<1> SUFFICES ASSUME T # {} PROVE FALSE
  OBVIOUS
<1>1. PICK E \in T : \A F \in T : F \subseteq E => F = E
  <2>1. T \in SUBSET SUBSET S
    OBVIOUS
  <2> HIDE DEF T
  <2> QED BY <2>1, SmallestSet
<1>2. E \in SUBSET S
  OBVIOUS
<1>3. \A g : SumOver(g, E) = IF E = {} THEN 0
                             ELSE g[Pick(E)] + SumOver(g, E \ {Pick(E)})
  <2> HIDE DEF T
  <2> QED BY <1>2, SumOverStep
<1>4. E # {} => Pick(E) \in E
  BY PickIn
<1>5. E # {} => SumOver(f, E \ {Pick(E)}) = SumOver(h, E \ {Pick(E)})
  BY <1>1, <1>4
<1> QED
  BY <1>3, <1>4, <1>5

\* The sum of a pointwise sum.
LEMMA SumOverAdd ==
    ASSUME NEW S, IsFiniteSet(S), NEW f, NEW h, NEW k, NEW D \in SUBSET S,
           \A x \in D : f[x] \in Int /\ h[x] \in Int /\ k[x] = f[x] + h[x]
    PROVE  SumOver(k, D) = SumOver(f, D) + SumOver(h, D)
<1> DEFINE T == {E \in SUBSET D : SumOver(k, E) # SumOver(f, E) + SumOver(h, E)}
<1> SUFFICES ASSUME T # {} PROVE FALSE
  OBVIOUS
<1>1. PICK E \in T : \A F \in T : F \subseteq E => F = E
  <2>1. T \in SUBSET SUBSET S
    OBVIOUS
  <2> HIDE DEF T
  <2> QED BY <2>1, SmallestSet
<1>2. E \in SUBSET S
  OBVIOUS
<1> DEFINE F == E \ {Pick(E)}
<1>3. \A g : SumOver(g, E) = IF E = {} THEN 0 ELSE g[Pick(E)] + SumOver(g, F)
  <2> HIDE DEF T
  <2> QED BY <1>2, SumOverStep
<1>4. E # {} => Pick(E) \in E
  BY PickIn
<1>5. E # {} => SumOver(k, F) = SumOver(f, F) + SumOver(h, F)
  BY <1>1, <1>4
<1>6. SumOver(f, F) \in Int /\ SumOver(h, F) \in Int
  <2>1. F \in SUBSET S /\ \A x \in F : f[x] \in Int /\ h[x] \in Int
    OBVIOUS
  <2> HIDE DEF F
  <2> QED BY <2>1, SumOverInt
<1>7. E # {} => k[Pick(E)] = f[Pick(E)] + h[Pick(E)]
                /\ f[Pick(E)] \in Int /\ h[Pick(E)] \in Int
  BY <1>4
<1>8. SumOver(k, E) # SumOver(f, E) + SumOver(h, E)
  OBVIOUS
<1> HIDE DEF F, T
<1> QED
  BY <1>3, <1>5, <1>6, <1>7, <1>8


\* A sum of zeros.
LEMMA SumOverZero ==
    ASSUME NEW S, IsFiniteSet(S), NEW f, NEW D \in SUBSET S, \A x \in D : f[x] = 0
    PROVE  SumOver(f, D) = 0
<1> DEFINE n == SumOver(f, D)
<1>1. \A x \in D : f[x] \in Int /\ f[x] = f[x] + f[x]
  OBVIOUS
<1>2. n = n + n /\ n \in Int
  BY <1>1, SumOverAdd, SumOverInt
<1> HIDE DEF n
<1>3. n = 0
  BY <1>2
<1> QED BY <1>3 DEF n

\* Changing one entry of f moves its sum by the difference.
LEMMA SumOverExcept ==
    ASSUME NEW S, IsFiniteSet(S), NEW f, NEW h, NEW D \in SUBSET S, NEW y \in D,
           \A x \in D : f[x] \in Int /\ h[x] \in Int,
           \A x \in D \ {y} : h[x] = f[x]
    PROVE  SumOver(h, D) + f[y] = SumOver(f, D) + h[y]
<1> DEFINE r == SumOver(f, D \ {y})
<1>1. /\ SumOver(f, D) = f[y] + r
      /\ SumOver(h, D) = h[y] + SumOver(h, D \ {y})
  BY SumOverRemove
<1>2. D \ {y} \in SUBSET S /\ \A x \in D \ {y} : f[x] \in Int
  OBVIOUS
<1>3. SumOver(h, D \ {y}) = r /\ r \in Int
  BY <1>2, SumOverAgree, SumOverInt
<1>4. f[y] \in Int /\ h[y] \in Int
  OBVIOUS
<1> HIDE DEF r
<1> QED BY <1>1, <1>3, <1>4

(***************************************************************************)
(* Sorting the terms of a sum into groups and adding the groups up gives   *)
(* the same sum.                                                           *)
(***************************************************************************)
LEMMA SumOverGroups ==
    ASSUME NEW S, IsFiniteSet(S), NEW A, IsFiniteSet(A), NEW f, NEW w,
           NEW D \in SUBSET S, \A i \in D : f[i] \in Int /\ w[i] \in A
    PROVE  \A part, g :
              (\A a \in A : /\ part[a] \in SUBSET D
                            /\ \A i \in D : i \in part[a] <=> w[i] = a
                            /\ g[a] = SumOver(f, part[a]))
                 => SumOver(g, A) = SumOver(f, D)
<1> DEFINE of(E, a) == {i \in E : w[i] = a}
           group(E) == [a \in A |-> SumOver(f, of(E, a))]
<1>1. SumOver(group(D), A) = SumOver(f, D)
  <2> DEFINE T == {E \in SUBSET D : SumOver(group(E), A) # SumOver(f, E)}
  <2> SUFFICES ASSUME T # {} PROVE FALSE
    OBVIOUS
  <2>1. PICK E \in T : \A F \in T : F \subseteq E => F = E
    <3>1. T \in SUBSET SUBSET S
      OBVIOUS
    <3> HIDE DEF T
    <3> QED BY <3>1, SmallestSet
  <2>2. E \in SUBSET S /\ E \in SUBSET D
    OBVIOUS
  <2>3. \A F \in SUBSET D, a \in A : /\ group(F)[a] = SumOver(f, of(F, a))
                                     /\ of(F, a) \in SUBSET S
                                     /\ \A i \in of(F, a) : f[i] \in Int
    OBVIOUS
  <2>4. \A F \in SUBSET D, a \in A : group(F)[a] \in Int
    <3> HIDE DEF group, of
    <3> QED BY <2>3, SumOverInt
  <2>5. SumOver(group(E), A) # SumOver(f, E)
    OBVIOUS
  <2>6. \A F \in SUBSET D : F \notin T => SumOver(group(F), A) = SumOver(f, F)
    OBVIOUS
  <2> HIDE DEF T, group
  <2>7. CASE E = {}
    <3>1. SumOver(f, {}) = 0
      BY SumOverStep
    <3>2. \A a \in A : of(E, a) = {}
      BY <2>7
    <3> HIDE DEF of
    <3>3. \A a \in A : group(E)[a] = 0
      BY <2>2, <2>3, <3>1, <3>2
    <3>4. SumOver(group(E), A) = 0
      BY <3>3, SumOverZero
    <3> QED BY <2>5, <2>7, <3>1, <3>4
  <2>8. CASE E # {}
    <3> DEFINE p == Pick(E)
               F == E \ {p}
    <3>1. p \in E
      BY <2>8, PickIn
    <3>2. SumOver(f, E) = f[p] + SumOver(f, F)
      BY <2>2, <2>8, SumOverStep
    <3> HIDE DEF p
    <3>3. F \in SUBSET D /\ F \notin T /\ w[p] \in A /\ f[p] \in Int
      BY <2>1, <2>2, <3>1
    <3>4. SumOver(group(F), A) = SumOver(f, F)
      BY <2>6, <3>3
    <3>5. /\ p \in of(E, w[p]) /\ of(E, w[p]) \ {p} = of(F, w[p])
          /\ \A a \in A \ {w[p]} : of(E, a) = of(F, a)
      BY <3>1
    <3> HIDE DEF of, F
    <3>6. group(E)[w[p]] = f[p] + group(F)[w[p]]
      <4>1. SumOver(f, of(E, w[p])) = f[p] + SumOver(f, of(E, w[p]) \ {p})
        BY <2>2, <2>3, <3>3, <3>5, SumOverRemove
      <4> QED BY <2>2, <2>3, <3>3, <3>5, <4>1
    <3>7. \A a \in A \ {w[p]} : group(E)[a] = group(F)[a]
      BY <2>2, <2>3, <3>3, <3>5
    <3>8. SumOver(group(E), A) + group(F)[w[p]] = SumOver(group(F), A) + group(E)[w[p]]
      <4> DEFINE g == group(E)
                 h == group(F)
      <4>1. \A a \in A : g[a] \in Int /\ h[a] \in Int
        BY <2>2, <2>4, <3>3
      <4>2. \A a \in A \ {w[p]} : g[a] = h[a]
        BY <3>7
      <4> HIDE DEF g, h
      <4>3. SumOver(g, A) + h[w[p]] = SumOver(h, A) + g[w[p]]
        BY <3>3, <4>1, <4>2, SumOverExcept
      <4> QED BY <4>3 DEF g, h
    <3>9. /\ group(F)[w[p]] \in Int /\ SumOver(group(F), A) \in Int
          /\ SumOver(group(E), A) \in Int
      <4> DEFINE g == group(E)
                 h == group(F)
      <4>1. \A a \in A : g[a] \in Int /\ h[a] \in Int
        BY <2>2, <2>4, <3>3
      <4> HIDE DEF g, h
      <4>2. SumOver(g, A) \in Int /\ SumOver(h, A) \in Int
        BY <4>1, SumOverInt
      <4> QED BY <3>3, <4>1, <4>2 DEF g, h
    <3> DEFINE x == SumOver(group(E), A)
               y == SumOver(group(F), A)
               u == group(F)[w[p]]
    <3>10. /\ x \in Int /\ y \in Int /\ u \in Int
           /\ x + u = y + (f[p] + u)
           /\ x # f[p] + y
      BY <2>5, <3>2, <3>4, <3>6, <3>8, <3>9
    <3> HIDE DEF x, y, u
    <3> QED BY <3>3, <3>10
  <2> QED BY <2>7, <2>8
<1>2. ASSUME NEW part, NEW g,
             \A a \in A : /\ part[a] \in SUBSET D
                          /\ \A i \in D : i \in part[a] <=> w[i] = a
                          /\ g[a] = SumOver(f, part[a])
      PROVE  SumOver(g, A) = SumOver(group(D), A)
  <2> DEFINE h == group(D)
  <2>1. \A a \in A : part[a] = of(D, a)
    BY <1>2
  <2>2. \A a \in A : g[a] = h[a]
    BY <1>2, <2>1
  <2>3. A \in SUBSET A
    OBVIOUS
  <2> HIDE DEF h
  <2>4. SumOver(g, A) = SumOver(h, A)
    BY <2>2, <2>3, SumOverAgree
  <2> QED BY <2>4 DEF h
<1> HIDE DEF group
<1> QED BY <1>1, <1>2

\* The same of groups and group sums that are given by name.
LEMMA SumByGroups ==
    ASSUME NEW S, IsFiniteSet(S), NEW A, IsFiniteSet(A), NEW f, NEW w,
           \A i \in S : f[i] \in Int, \A i \in S : w[i] \in A,
           NEW part, NEW g,
           \A a \in A : part[a] \in SUBSET S,
           \A a \in A : \A i \in S : i \in part[a] <=> w[i] = a,
           \A a \in A : g[a] = SumOver(f, part[a])
    PROVE  SumOver(g, A) = SumOver(f, S)
<1>1. S \in SUBSET S /\ \A i \in S : f[i] \in Int /\ w[i] \in A
  OBVIOUS
<1>2. \A q, h :
         (\A a \in A : /\ q[a] \in SUBSET S
                       /\ \A i \in S : i \in q[a] <=> w[i] = a
                       /\ h[a] = SumOver(f, q[a]))
            => SumOver(h, A) = SumOver(f, S)
  BY <1>1, SumOverGroups
<1> QED BY <1>2

\* The total of a balance sheet is a natural.
LEMMA SumNat ==
    ASSUME NEW S, IsFiniteSet(S), NEW f \in [S -> Nat]
    PROVE  SumFunction(f) \in Nat
BY SumIsTotal, SumOverNat

\* An empty balance sheet totals zero.
LEMMA SumZero ==
    ASSUME NEW S, IsFiniteSet(S), NEW f \in [S -> Nat], \A x \in S : f[x] = 0
    PROVE  SumFunction(f) = 0
BY SumIsTotal, SumOverZero

\* Crediting a sheet to another adds the totals.
LEMMA SumAdd ==
    ASSUME NEW S, IsFiniteSet(S), NEW f \in [S -> Nat], NEW h \in [S -> Nat],
           NEW k \in [S -> Nat], \A x \in S : k[x] = f[x] + h[x]
    PROVE  SumFunction(k) = SumFunction(f) + SumFunction(h)
<1>1. \A x \in S : f[x] \in Nat /\ h[x] \in Nat /\ k[x] = f[x] + h[x]
  OBVIOUS
<1>2. SumOver(k, S) = SumOver(f, S) + SumOver(h, S)
  BY <1>1, SumOverAdd
<1> QED BY <1>2, SumIsTotal

\* Changing one entry moves the total by the difference.
LEMMA SumExcept ==
    ASSUME NEW S, IsFiniteSet(S), NEW f \in [S -> Nat], NEW h \in [S -> Nat],
           NEW y \in S, \A x \in S \ {y} : h[x] = f[x]
    PROVE  SumFunction(h) + f[y] = SumFunction(f) + h[y]
<1>1. \A x \in S : f[x] \in Int /\ h[x] \in Int
  OBVIOUS
<1>2. SumOver(h, S) + f[y] = SumOver(f, S) + h[y]
  BY <1>1, SumOverExcept
<1> QED BY <1>2, SumIsTotal

\* No entry exceeds the total.
LEMMA SumBound ==
    ASSUME NEW S, IsFiniteSet(S), NEW f \in [S -> Nat], NEW y \in S
    PROVE  f[y] <= SumFunction(f)
<1> DEFINE r == SumOver(f, S \ {y})
<1>1. \A x \in S : f[x] \in Nat
  OBVIOUS
<1>2. r \in Nat
  BY <1>1, SumOverNat
<1>3. SumFunction(f) = f[y] + r
  BY <1>1, SumIsTotal, SumOverRemove
<1> HIDE DEF r
<1> QED BY <1>1, <1>2, <1>3

-----------------------------------------------------------------------------
(***************************************************************************)
(* The nonce discipline, proved once for every module that extends         *)
(* BlockScope: each step such a module takes does one of the things        *)
(* ScopeStep lists to the shared variables.                                *)
(***************************************************************************)
ScopeStep ==
    \/ OpenScope \/ CommitScope \/ DropScope
    \/ \E a \in Address, n \in Nonces : UseNonce(a, n)
    \/ NoNonceUsed
    \/ UNCHANGED scopeVars

\* The initial chain satisfies ScopeInv.
LEMMA ScopeInvInit == ScopeInit => ScopeInv
<1> SUFFICES ASSUME ScopeInit PROVE ScopeInv
  OBVIOUS
<1>1. ScopeTypeOK
  <2>1. applying \in BOOLEAN
    BY Zenon DEF ScopeInit
  <2>2. txs \in 0..MaxTx
    BY ScopeAssumption DEF ScopeInit
  <2> QED BY <2>1, <2>2 DEF ScopeInit, ScopeTypeOK, NoOverlay, NoNonce
<1>2. NonceSpentOnce /\ stNonce = stSeen
  BY DEF ScopeInit, NonceSpentOnce
<1>3. ~applying
  BY DEF ScopeInit
<1> QED BY <1>1, <1>2, <1>3 DEF ScopeInv

(***************************************************************************)
(* Every step preserves ScopeInv: next_expected_nonce reads the overlay    *)
(* first, so a second transaction of an address in one block must carry    *)
(* the nonce after the first one's.                                        *)
(***************************************************************************)
LEMMA ScopeInvStep == ScopeInv /\ ScopeStep => ScopeInv'
<1> SUFFICES ASSUME ScopeInv, ScopeStep PROVE ScopeInv'
  OBVIOUS
<1> USE ScopeAssumption
    DEF ScopeInv, ScopeTypeOK, NonceSpentOnce, NoNonce
<1>1. CASE OpenScope
  BY <1>1 DEF OpenScope, NoOverlay
<1>2. CASE CommitScope
  <2>1. ~applying' /\ NonceSpentOnce' /\ stNonce' = stSeen'
    BY <1>2 DEF CommitScope
  <2>2. applying' \in BOOLEAN
    BY <1>2, Zenon DEF CommitScope
  <2>3. ScopeTypeOK'
    BY <1>2, <2>2 DEF CommitScope
  <2> QED BY <2>1, <2>3
<1>3. CASE DropScope
  <2>1. ~applying' /\ NonceSpentOnce' /\ stNonce' = stSeen'
    BY <1>3 DEF DropScope
  <2>2. applying' \in BOOLEAN
    BY <1>3, Zenon DEF DropScope
  <2>3. ScopeTypeOK'
    BY <1>3, <2>2 DEF DropScope
  <2> QED BY <2>1, <2>3
<1>4. ASSUME NEW a \in Address, NEW n \in Nonces, UseNonce(a, n)
      PROVE  ScopeInv'
  <2>1. /\ applying /\ n = next_expected_nonce(a) /\ n \in Nat
        /\ stNonce' = [stNonce EXCEPT ![a] = n + 1]
        /\ ovNonce' = [ovNonce EXCEPT ![a] = n + 1]
        /\ stSeen' = [stSeen EXCEPT ![a] = @ + 1]
        /\ applying' = applying /\ height' = height /\ txs' \in 0..MaxTx
        /\ nonce' = nonce /\ seen' = seen
    BY <1>4 DEF UseNonce, NextTx, record_applied_nonce, Nonces
  <2>2. n = stNonce[a]
    BY <2>1 DEF next_expected_nonce
  <2>3. stNonce' = stSeen'
    BY <2>1, <2>2
  <2>4. ScopeTypeOK'
    BY <2>1
  <2>5. \A b \in Address : IF ovNonce'[b] = NoNonce
                           THEN stNonce'[b] = nonce'[b]
                           ELSE stNonce'[b] = ovNonce'[b]
    BY <2>1
  <2> QED BY <2>1, <2>3, <2>4, <2>5
<1>5. CASE NoNonceUsed
  BY <1>5 DEF NoNonceUsed, NextTx
<1>6. CASE UNCHANGED scopeVars
  BY <1>6 DEF scopeVars
<1> QED BY <1>1, <1>2, <1>3, <1>4, <1>5, <1>6 DEF ScopeStep

-----------------------------------------------------------------------------
\* Finitely many addresses have finitely many accounts.
LEMMA FiniteAccounts ==
    ASSUME IsFiniteSet(Address)
    PROVE  IsFiniteSet(Account)
<1>1. IsFiniteSet(Maybe)
  BY FS_AddElement DEF Maybe
<1>2. IsFiniteSet({"wallet", "escrow"})
  <2>1. IsFiniteSet({"wallet"} \cup {"escrow"})
    BY FS_Singleton, FS_AddElement
  <2> QED BY <2>1
<1> QED BY <1>1, <1>2, FS_Product DEF Account
=============================================================================
