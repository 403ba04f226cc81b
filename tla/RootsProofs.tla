------------------------------- MODULE RootsProofs -------------------------------
(***************************************************************************)
(* Proofs about Roots, for any number of cells, handles, instances and     *)
(* interned keys: every address Rust refers to is that of a live cell, and *)
(* the Rust value of an instance is dropped once, with the instance, and   *)
(* no protection is lost but by a prototype made twice.                    *)
(*                                                                         *)
(* HeldIsLive does not carry over a step by itself: that the collector     *)
(* keeps a cell depends on its protections being at least as many as its   *)
(* owners, of which one may go while others stay.  A step leaves the       *)
(* difference of the two as it is, in every cell, unless it replaces the   *)
(* class's prototype; the invariant counts how often that can still happen *)
(* by the calls of C::prototype in progress.                               *)
(***************************************************************************)
EXTENDS Roots, Facts, TLAPS

\* The protections of c that no owner will give back.
Balance(c) == protects[c] - Owners(c)
Balances == [c \in Cells |-> Balance(c)]

\* The step leaves them as they are.
Even == \A c \in Cells : Balance(c)' = Balance(c)

\* The protections cover the owners, and only live cells have any.
Covered == \A c \in Cells : Balance(c) >= 0
ProtectedLive == \A c \in Cells : protects[c] > 0 => c \in live

\* An instance that is live has its own Rust value; one that is gone keeps nothing.
OwnValue ==
  /\ \A c \in Cells : private[c] # 0 => c \in live
  /\ \A c, d \in Cells : private[c] = private[d] /\ private[c] # 0 => c = d
  /\ \A i \in Instances \ drops : keeps[i] = NoCell

RootInv ==
  /\ TypeOK /\ reached \subseteq live /\ Covered /\ ProtectedLive
  /\ OwnValue /\ DroppedWithInstance

-----------------------------------------------------------------------------
(* Counting.                                                               *)

AtomsOf(f, c) == Cardinality({k \in Keys : f[k] = c})
Is(x, c) == One(x = c)
Has(S, c) == One(c \in S)
KeptBy(f, c) == Cardinality({i \in Instances : f[i] = c})

LEMMA Bounds ==
  /\ NoCell \notin Cells /\ IsFiniteSet(Keys) /\ IsFiniteSet(Instances)
  /\ MaxEntries \in Nat /\ MaxHandles \in Nat /\ MaxInstances \in Nat
  /\ MaxNesting \in Nat /\ MaxReentered \in Nat
  /\ Instances \subseteq Nat \ {0}
BY RootsAssumption, FS_Interval DEF Instances

LEMMA BalanceNow ==
  ASSUME NEW c \in Cells
  PROVE  Balance(c) = protects[c] - (values[c] + saved[c]
           + Is(pending, c) + Is(helper, c) + Is(prototype, c)
           + Has(functions, c) + AtomsOf(atoms, c) + KeptBy(keeps, c))
BY DEF Balance, Owners, AtomsOf, KeptBy, Is, Has

LEMMA BalanceNext ==
  ASSUME NEW c \in Cells
  PROVE  Balance(c)' = protects'[c] - (values'[c] + saved'[c]
           + Is(pending', c) + Is(helper', c) + Is(prototype', c)
           + Has(functions', c) + AtomsOf(atoms', c) + KeptBy(keeps', c))
BY DEF Balance, Owners, AtomsOf, KeptBy, Is, Has, One

LEMMA IsNat == \A x, c : Is(x, c) \in Nat /\ (Is(x, c) = 0 <=> x # c)
BY DEF Is, One

LEMMA HasNat == \A x, c : Has(x, c) \in Nat /\ (Has(x, c) = 0 <=> c \notin x)
BY DEF Has, One

LEMMA Ones ==
  ASSUME NEW c
  PROVE  /\ Is(pending, c) \in Nat /\ Is(helper, c) \in Nat
         /\ Is(prototype, c) \in Nat /\ Has(functions, c) \in Nat
BY IsNat, HasNat

LEMMA CountsNat ==
  ASSUME NEW f, NEW c
  PROVE  AtomsOf(f, c) \in Nat /\ KeptBy(f, c) \in Nat
<1>1. {k \in Keys : f[k] = c} \subseteq Keys /\ {i \in Instances : f[i] = c} \subseteq Instances
  OBVIOUS
<1> QED  BY <1>1, Bounds, FS_Subset, FS_CardinalityType DEF AtomsOf, KeptBy

\* A key interned, or a Value put in or taken out of a Rust value.
LEMMA AtomAdded ==
  ASSUME NEW f \in [Keys -> Cells \cup {NoCell}], NEW k \in Keys, f[k] = NoCell,
         NEW g, NEW c \in Cells, g[k] \in Cells, \A j \in Keys \ {k} : g[j] = f[j]
  PROVE  AtomsOf(g, c) = AtomsOf(f, c) + Is(g[k], c)
<1> DEFINE S == {j \in Keys : f[j] = c}
           T == {j \in Keys : g[j] = c}
<1>1. IsFiniteSet(S) /\ k \notin S
  BY Bounds, FS_Subset
<1>2. CASE c = g[k]
  <2>1. T = S \cup {k}
    BY <1>2, Bounds
  <2> QED  BY <1>1, <1>2, <2>1, FS_AddElement DEF AtomsOf, Is, Has, One
<1>3. CASE c # g[k]
  <2>1. T = S
    BY <1>3, Bounds
  <2>2. Cardinality(S) \in Nat
    BY <1>1, FS_CardinalityType
  <2> QED  BY <1>3, <2>1, <2>2 DEF AtomsOf, Is, Has, One
<1> QED  BY <1>2, <1>3

LEMMA KeptReplaced ==
  ASSUME NEW f \in [Instances -> Cells \cup {NoCell}], NEW i \in Instances,
         NEW g, NEW c \in Cells, \A j \in Instances \ {i} : g[j] = f[j]
  PROVE  KeptBy(g, c) = KeptBy(f, c) - Is(f[i], c) + Is(g[i], c)
<1> DEFINE S == {j \in Instances : f[j] = c}
           T == {j \in Instances : g[j] = c}
           R == {j \in Instances \ {i} : f[j] = c}
<1>1. IsFiniteSet(R) /\ i \notin R
  BY Bounds, FS_Subset
<1>2. Cardinality(R) \in Nat
  BY <1>1, FS_CardinalityType
<1>3. Cardinality(S) = Cardinality(R) + Is(f[i], c)
  <2>1. CASE f[i] = c
    <3>1. S = R \cup {i}
      BY <2>1
    <3> QED  BY <1>1, <2>1, <3>1, FS_AddElement DEF Is, Has, One
  <2>2. CASE f[i] # c
    <3>1. S = R
      BY <2>2
    <3> QED  BY <1>2, <2>2, <3>1 DEF Is, Has, One
  <2> QED  BY <2>1, <2>2
<1>4. Cardinality(T) = Cardinality(R) + Is(g[i], c)
  <2>1. CASE g[i] = c
    <3>1. T = R \cup {i}
      BY <2>1
    <3>2. Is(g[i], c) = 1
      BY <2>1 DEF Is, One
    <3> QED  BY <1>1, <3>1, <3>2, FS_AddElement
  <2>2. CASE g[i] # c
    <3>1. T = R
      BY <2>2
    <3>2. Is(g[i], c) = 0
      BY <2>2 DEF Is, One
    <3> HIDE DEF T, R
    <3> QED  BY <1>2, <3>1, <3>2
  <2> QED  BY <2>1, <2>2
<1>5. KeptBy(f, c) = Cardinality(S) /\ KeptBy(g, c) = Cardinality(T)
  BY DEF KeptBy
<1>6. Is(f[i], c) \in Nat /\ Is(g[i], c) \in Nat
  BY DEF Is, Has, One
<1> HIDE DEF S, T, R
<1> QED  BY <1>2, <1>3, <1>4, <1>5, <1>6

-----------------------------------------------------------------------------
(* Sums over the cells.  MapThenSumSet is defined by recursion on sets.    *)

\* Among sets of cells there is one that includes no other of them: what is
\* proved of a set from its proper subsets holds of every set of cells.
LEMMA SmallestSet ==
  ASSUME NEW B, B \subseteq SUBSET Cells, B # {}
  PROVE  \E s \in B : \A t \in B : t \subseteq s => t = s
<1>1. IsWellFoundedOn(StrictSubsetOrdering(Cells), SUBSET Cells)
  <2>1. FiniteSubsetsOf(Cells) = SUBSET Cells
    BY RootsAssumption, FS_FiniteSubsetsOfFinite
  <2> QED  BY <2>1, FS_StrictSubsetOrderingWellFounded
<1>2. PICK s \in B : \A t \in B : ~ (<<t, s>> \in StrictSubsetOrdering(Cells))
  BY <1>1, WFMin
<1> QED  BY <1>2 DEF StrictSubsetOrdering

Some(s) == CHOOSE x \in s : TRUE

\* The sum of f over each set of cells.
SumsOf(f, g) ==
  g = [s \in SUBSET Cells |-> IF s = {} THEN 0 ELSE f[Some(s)] + g[s \ {Some(s)}]]

LEMMA SumsExist ==
  ASSUME NEW f \in [Cells -> Int]
  PROVE  \E g \in [SUBSET Cells -> Int] : SumsOf(f, g)
<1> DEFINE Next1(g) == [s \in SUBSET Cells |->
                         IF s = {} THEN 0 ELSE f[Some(s)] + g[s \ {Some(s)}]]
           UpTo(g, n) == \A s \in SUBSET Cells : Cardinality(s) < n => g[s] = Next1(g)[s]
           B == {n \in Nat : ~ \E g \in [SUBSET Cells -> Int] : UpTo(g, n)}
<1>1. \A s \in SUBSET Cells : /\ IsFiniteSet(s) /\ Cardinality(s) \in Nat
                              /\ Cardinality(s) <= Cardinality(Cells)
  BY RootsAssumption, FS_Subset, FS_CardinalityType
<1>2. ASSUME NEW g \in [SUBSET Cells -> Int] PROVE Next1(g) \in [SUBSET Cells -> Int]
  <2>1. ASSUME NEW s \in SUBSET Cells, s # {}
        PROVE  Some(s) \in Cells /\ s \ {Some(s)} \in SUBSET Cells
    BY <2>1 DEF Some
  <2> QED  BY <2>1
<1>3. B = {}
  <2> SUFFICES ASSUME B # {} PROVE FALSE
    OBVIOUS
  <2>1. PICK n \in B : \A m \in B : n <= m
    BY SmallestNat
  <2>2. n # 0
    <3> DEFINE z == [s \in SUBSET Cells |-> 0]
    <3>1. z \in [SUBSET Cells -> Int]
      OBVIOUS
    <3>2. UpTo(z, 0)
      BY <1>1
    <3> HIDE DEF UpTo, z
    <3> QED  BY <2>1, <3>1, <3>2
  <2>3. n - 1 \in Nat /\ n - 1 \notin B
    <3>1. n \in Nat
      BY <2>1
    <3>2. n - 1 \in Nat /\ ~ (n <= n - 1)
      BY <2>2, <3>1
    <3> HIDE DEF B
    <3> QED  BY <2>1, <3>2
  <2>4. PICK g \in [SUBSET Cells -> Int] : UpTo(g, n - 1)
    BY <2>3
  <2>5. ASSUME NEW s \in SUBSET Cells, Cardinality(s) < n
        PROVE  Next1(g)[s] = Next1(Next1(g))[s]
    <3>1. CASE s = {}
      BY <3>1
    <3>2. CASE s # {}
      <4> DEFINE t == s \ {Some(s)}
      <4>1. Some(s) \in s
        BY <3>2 DEF Some
      <4>2. t \in SUBSET Cells /\ Cardinality(t) < n - 1
        <5>1. IsFiniteSet(s) /\ Cardinality(s) \in Nat
          BY <1>1
        <5>2. Cardinality(t) = Cardinality(s) - 1
          BY <4>1, <5>1, FS_RemoveElement
        <5>3. n \in Nat
          BY <2>1
        <5> HIDE DEF t
        <5>4. Cardinality(t) < n - 1
          BY <2>5, <5>1, <5>2, <5>3
        <5> QED  BY <5>4 DEF t
      <4>3. g[t] = Next1(g)[t]
        BY <2>4, <4>2
      <4>4. \A h : Next1(h)[s] = f[Some(s)] + h[t]
        BY <3>2
      <4> HIDE DEF t, Next1
      <4> QED  BY <4>3, <4>4
    <3> QED  BY <3>1, <3>2
  <2>6. UpTo(Next1(g), n)
    BY <2>5
  <2> HIDE DEF UpTo, Next1
  <2> QED  BY <1>2, <2>1, <2>6
<1>4. PICK g \in [SUBSET Cells -> Int] : UpTo(g, Cardinality(Cells) + 1)
  <2>1. Cardinality(Cells) + 1 \in Nat
    BY RootsAssumption, FS_CardinalityType
  <2> HIDE DEF UpTo
  <2> QED  BY <1>3, <2>1
<1>5. \A s \in SUBSET Cells : g[s] = Next1(g)[s]
  <2>1. Cardinality(Cells) \in Nat
    BY RootsAssumption, FS_CardinalityType
  <2> HIDE DEF Next1
  <2> QED  BY <1>1, <1>4, <2>1
<1>6. g = Next1(g)
  BY <1>5
<1> QED  BY <1>6 DEF SumsOf

\* h is f but for d more at c.
More(f, h, c, d) == \A x \in Cells : IF x = c THEN h[x] = f[x] + d ELSE h[x] = f[x]

\* They are unique, and sums of functions that differ by d at c differ by d where c is.
LEMMA SumsDiffer ==
  ASSUME NEW f \in [Cells -> Int], NEW h \in [Cells -> Int], NEW c, NEW d \in Int,
         More(f, h, c, d),
         NEW g, SumsOf(f, g), NEW k, SumsOf(h, k)
  PROVE  \A s \in SUBSET Cells :
           g[s] \in Int /\ IF c \in s THEN k[s] = g[s] + d ELSE k[s] = g[s]
<1> DEFINE Good(t) == g[t] \in Int /\ IF c \in t THEN k[t] = g[t] + d ELSE k[t] = g[t]
           B == {t \in SUBSET Cells : ~ Good(t)}
<1>1. ASSUME B # {} PROVE FALSE
  <2>1. PICK t \in B : \A u \in B : u \subseteq t => u = t
    <3>1. B \subseteq SUBSET Cells
      OBVIOUS
    <3> HIDE DEF B
    <3> QED  BY <1>1, <3>1, SmallestSet
  <2>2. t # {}
    BY DEF SumsOf
  <2> DEFINE x == Some(t)
             u == t \ {x}
  <2>3. x \in t
    BY <2>2 DEF Some
  <2>4. Good(u)
    BY <2>1, <2>3
  <2>5. g[t] = f[x] + g[u] /\ k[t] = h[x] + k[u]
    BY <2>2 DEF SumsOf
  <2>6. /\ f[x] \in Int /\ IF x = c THEN h[x] = f[x] + d ELSE h[x] = f[x]
        /\ c \in t <=> c \in u \/ x = c
        /\ x = c => c \notin u
    BY <2>3 DEF More
  <2> HIDE DEF x, u
  <2>7. Good(t)
    <3>1. CASE x = c
      BY <2>4, <2>5, <2>6, <3>1
    <3>2. CASE x # c /\ c \in u
      BY <2>4, <2>5, <2>6, <3>2
    <3>3. CASE x # c /\ c \notin u
      BY <2>4, <2>5, <2>6, <3>3
    <3> QED  BY <3>1, <3>2, <3>3
  <2> QED  BY <2>7
<1> QED  BY <1>1

\* The sum of no more than zeros.
LEMMA SumsZero ==
  ASSUME NEW f, \A x \in Cells : f[x] = 0, NEW g, SumsOf(f, g), NEW s \in SUBSET Cells
  PROVE  g[s] = 0
<1> DEFINE B == {t \in SUBSET Cells : g[t] # 0}
<1>1. ASSUME B # {} PROVE FALSE
  <2>1. PICK t \in B : \A u \in B : u \subseteq t => u = t
    <3>1. B \subseteq SUBSET Cells
      OBVIOUS
    <3> HIDE DEF B
    <3> QED  BY <1>1, <3>1, SmallestSet
  <2>2. t # {}
    BY DEF SumsOf
  <2>3. Some(t) \in t
    BY <2>2 DEF Some
  <2>4. g[t] = f[Some(t)] + g[t \ {Some(t)}]
    BY <2>2 DEF SumsOf
  <2>5. g[t \ {Some(t)}] = 0 /\ f[Some(t)] = 0
    BY <2>1, <2>3
  <2> QED  BY <2>4, <2>5
<1> QED  BY <1>1

Total(f) == (CHOOSE g : SumsOf(f, g))[Cells]

LEMMA TotalSums ==
  ASSUME NEW f \in [Cells -> Int]
  PROVE  \E g : SumsOf(f, g) /\ Total(f) = g[Cells]
BY SumsExist DEF Total

LEMMA TotalChanges ==
  ASSUME NEW f \in [Cells -> Int], NEW h \in [Cells -> Int], NEW c \in Cells, NEW d \in Int,
         More(f, h, c, d)
  PROVE  Total(f) \in Int /\ Total(h) = Total(f) + d
<1>1. PICK g : SumsOf(f, g) /\ Total(f) = g[Cells]
  BY TotalSums
<1>2. PICK k : SumsOf(h, k) /\ Total(h) = k[Cells]
  BY TotalSums
<1>3. /\ g[Cells] \in Int
      /\ k[Cells] = g[Cells] + d
  <2>1. Cells \in SUBSET Cells
    OBVIOUS
  <2> QED  BY <1>1, <1>2, <2>1, SumsDiffer
<1> QED  BY <1>1, <1>2, <1>3

LEMMA TotalInt ==
  ASSUME NEW f \in [Cells -> Int]
  PROVE  Total(f) \in Int
<1> DEFINE zero == 0
<1>1. PICK g : SumsOf(f, g) /\ Total(f) = g[Cells]
  BY TotalSums
<1>2. More(f, f, NoCell, zero) /\ zero \in Int
  BY RootsAssumption DEF More
<1> HIDE DEF zero
<1>3. \A s \in SUBSET Cells : g[s] \in Int
  BY <1>1, <1>2, SumsDiffer
<1> QED  BY <1>1, <1>3

LEMMA TotalZero ==
  ASSUME NEW f \in [Cells -> Int], \A x \in Cells : f[x] = 0
  PROVE  Total(f) = 0
<1>1. PICK g : SumsOf(f, g) /\ Total(f) = g[Cells]
  BY TotalSums
<1>2. Cells \in SUBSET Cells
  OBVIOUS
<1> QED  BY <1>1, <1>2, SumsZero
  
LEMMA SumIsTotal ==
  ASSUME NEW f \in [Cells -> Int], \A c \in Cells : f[c] = protects[c] - Owners(c)
  PROVE  MapThenSumSet(LAMBDA c : protects[c] - Owners(c), Cells) = Total(f)
<1> DEFINE Step(g) == [s \in SUBSET Cells |->
                         IF s = {} THEN 0
                         ELSE (protects[Some(s)] - Owners(Some(s))) + g[s \ {Some(s)}]]
           It == CHOOSE g : g = Step(g)
<1>1. MapThenSumSet(LAMBDA c : protects[c] - Owners(c), Cells) = It[Cells]
  BY DEF MapThenSumSet, MapThenFoldSet, Some
<1>2. ASSUME NEW g PROVE g = Step(g) <=> SumsOf(f, g)
  <2>1. ASSUME NEW s \in SUBSET Cells, s # {}
        PROVE  f[Some(s)] = protects[Some(s)] - Owners(Some(s))
    <3>1. Some(s) \in Cells
      BY <2>1 DEF Some
    <3> QED  BY <3>1
  <2> HIDE DEF Some
  <2>2. Step(g) = [s \in SUBSET Cells |-> IF s = {} THEN 0 ELSE f[Some(s)] + g[s \ {Some(s)}]]
    BY <2>1
  <2> QED  BY <2>2 DEF SumsOf
<1>3. PICK k : SumsOf(f, k) /\ Total(f) = k[Cells]
  BY TotalSums
<1>4. SumsOf(f, It)
  <2> HIDE DEF Step
  <2>1. \E g : g = Step(g)
    BY <1>2, <1>3
  <2>2. It = Step(It)
    BY <2>1
  <2> QED  BY <1>2, <2>2
<1> HIDE DEF It, Step
<1>5. It[Cells] = k[Cells]
  <2>1. 0 \in Int /\ More(f, f, NoCell, 0)
    BY DEF More
  <2>2. IF NoCell \in Cells THEN It[Cells] = k[Cells] + 0 ELSE It[Cells] = k[Cells]
    BY <1>3, <1>4, <2>1, SumsDiffer
  <2> QED  BY <2>2, RootsAssumption
<1> QED  BY <1>1, <1>3, <1>5

-----------------------------------------------------------------------------
(* What holds of the cell an action is about.                              *)

LEMMA Counts ==
  ASSUME TypeOK, NEW c \in Cells
  PROVE  /\ protects[c] \in Nat /\ values[c] \in Nat /\ saved[c] \in Nat
         /\ AtomsOf(atoms, c) \in Nat /\ KeptBy(keeps, c) \in Nat
         /\ Owners(c) \in Nat /\ Balance(c) \in Int
<1>1. /\ protects[c] \in Nat /\ values[c] \in Nat /\ saved[c] \in Nat
      /\ AtomsOf(atoms, c) \in Nat /\ KeptBy(keeps, c) \in Nat
  BY CountsNat DEF TypeOK
<1>2. Owners(c) \in Nat
  BY <1>1 DEF Owners, Is, Has, One, AtomsOf, KeptBy
<1> QED  BY <1>1, <1>2 DEF Balance

LEMMA CellFacts ==
  ASSUME RootInv, NEW c \in Cells
  PROVE  /\ protects[c] \in Nat /\ values[c] \in Nat /\ saved[c] \in Nat
         /\ AtomsOf(atoms, c) \in Nat /\ KeptBy(keeps, c) \in Nat
         /\ Balance(c) \in Nat
         /\ protects[c] > 0 => c \in live
BY Counts DEF RootInv, Covered, ProtectedLive

LEMMA Owing ==
  ASSUME RootInv, NEW c \in Cells
  PROVE  protects[c] >= values[c] + saved[c]
           + Is(pending, c) + Is(helper, c) + Is(prototype, c)
           + Has(functions, c) + AtomsOf(atoms, c) + KeptBy(keeps, c)
BY CellFacts, BalanceNow DEF Is, Has, One

\* An owner's cell is live, and protected for it.
LEMMA OwnedLive ==
  ASSUME RootInv, NEW c \in Cells,
         \/ values[c] > 0 \/ saved[c] > 0 \/ pending = c \/ helper = c
         \/ prototype = c \/ c \in functions
         \/ \E k \in Keys : atoms[k] = c
         \/ \E i \in Instances : keeps[i] = c
  PROVE  protects[c] > 0 /\ c \in live
<1>1. ASSUME NEW k \in Keys, atoms[k] = c PROVE AtomsOf(atoms, c) > 0
  <2>1. IsFiniteSet({j \in Keys : atoms[j] = c}) /\ k \in {j \in Keys : atoms[j] = c}
    BY <1>1, Bounds, FS_Subset
  <2>2. Cardinality({j \in Keys : atoms[j] = c}) # 0
    BY <2>1, FS_EmptySet
  <2> QED  BY <2>2, CountsNat DEF AtomsOf
<1>2. ASSUME NEW i \in Instances, keeps[i] = c PROVE KeptBy(keeps, c) > 0
  <2>1. /\ IsFiniteSet({j \in Instances : keeps[j] = c})
        /\ i \in {j \in Instances : keeps[j] = c}
    BY <1>2, Bounds, FS_Subset
  <2>2. Cardinality({j \in Instances : keeps[j] = c}) # 0
    BY <2>1, FS_EmptySet
  <2> QED  BY <2>2, CountsNat DEF KeptBy
<1> QED  BY <1>1, <1>2, CellFacts, Owing DEF Is, Has, One

\* The address of a new cell belongs to nobody.
LEMMA NewFacts ==
  ASSUME RootInv, NEW c \in Cells, c \notin live
  PROVE  /\ protects[c] = 0 /\ values[c] = 0 /\ saved[c] = 0
         /\ AtomsOf(atoms, c) = 0 /\ KeptBy(keeps, c) = 0
         /\ pending # c /\ helper # c /\ prototype # c /\ c \notin functions
         /\ private[c] = 0 /\ c \notin reached
<1>1. protects[c] = 0
  BY CellFacts
<1>2. /\ values[c] = 0 /\ saved[c] = 0 /\ AtomsOf(atoms, c) = 0 /\ KeptBy(keeps, c) = 0
      /\ Is(pending, c) = 0 /\ Is(helper, c) = 0 /\ Is(prototype, c) = 0
      /\ Has(functions, c) = 0
  <2>1. 0 >= values[c] + saved[c] + Is(pending, c) + Is(helper, c) + Is(prototype, c)
               + Has(functions, c) + AtomsOf(atoms, c) + KeptBy(keeps, c)
    BY <1>1, Owing
  <2>2. /\ values[c] \in Nat /\ saved[c] \in Nat
        /\ AtomsOf(atoms, c) \in Nat /\ KeptBy(keeps, c) \in Nat
        /\ Is(pending, c) \in Nat /\ Is(helper, c) \in Nat
        /\ Is(prototype, c) \in Nat /\ Has(functions, c) \in Nat
    BY CellFacts, Ones
  <2> DEFINE n1 == values[c]
             n2 == saved[c]
             n3 == Is(pending, c)
             n4 == Is(helper, c)
             n5 == Is(prototype, c)
             n6 == Has(functions, c)
             n7 == AtomsOf(atoms, c)
             n8 == KeptBy(keeps, c)
  <2>3. /\ n1 \in Nat /\ n2 \in Nat /\ n3 \in Nat /\ n4 \in Nat
        /\ n5 \in Nat /\ n6 \in Nat /\ n7 \in Nat /\ n8 \in Nat
        /\ 0 >= n1 + n2 + n3 + n4 + n5 + n6 + n7 + n8
    BY <2>1, <2>2
  <2> HIDE DEF n1, n2, n3, n4, n5, n6, n7, n8
  <2>4. /\ n1 = 0 /\ n2 = 0 /\ n3 = 0 /\ n4 = 0
        /\ n5 = 0 /\ n6 = 0 /\ n7 = 0 /\ n8 = 0
    BY <2>3
  <2> QED  BY <2>4 DEF n1, n2, n3, n4, n5, n6, n7, n8
<1> QED  BY <1>1, <1>2, IsNat, HasNat DEF RootInv, OwnValue

\* A step that leaves the instances alone.
LEMMA StepCovers ==
  ASSUME RootInv, TypeOK', UNCHANGED instanceVars,
         live \subseteq live', reached' \subseteq live',
         \A c \in Cells :
           /\ Balance(c)' \in {Balance(c), Balance(c) + 1}
           /\ protects'[c] > 0 => c \in live'
  PROVE  RootInv'
<1>1. Covered' /\ ProtectedLive'
  <2>1. ASSUME NEW c \in Cells PROVE Balance(c)' >= 0
    BY CellFacts
  <2> QED  BY <2>1 DEF Covered, ProtectedLive
<1>2. OwnValue'
  BY DEF RootInv, OwnValue, instanceVars
<1>3. DroppedWithInstance'
  <2>1. ASSUME NEW i \in Instances, NEW c \in live', private[c] = i
        PROVE  c \in live
    BY <2>1, Bounds DEF RootInv, OwnValue, TypeOK
  <2> QED  BY <2>1 DEF RootInv, DroppedWithInstance, instanceVars
<1> QED  BY <1>1, <1>2, <1>3 DEF RootInv

\* A step that leaves the instances alone, and every balance as it is.
LEMMA StepKeeps ==
  ASSUME RootInv, TypeOK', UNCHANGED instanceVars,
         live \subseteq live', reached' \subseteq live',
         \A c \in Cells : Balance(c)' = Balance(c) /\ (protects'[c] > 0 => c \in live')
  PROVE  RootInv' /\ Even
BY StepCovers DEF Even

-----------------------------------------------------------------------------
(* The steps.                                                              *)

\* What JavaScript can reach changes.
LEMMA ReachStep ==
  ASSUME RootInv, NEW c \in Cells, JsAllocate(c) \/ JsForget(c) \/ Give(c)
  PROVE  RootInv' /\ Even
<1>1. /\ UNCHANGED <<protects, handles, caches, classVars, instanceVars>>
      /\ live \subseteq live' /\ live' \subseteq Cells /\ reached' \subseteq live'
  BY OwnedLive DEF JsAllocate, JsForget, Give, RootInv, TypeOK
<1>2. TypeOK'
  BY <1>1 DEF RootInv, TypeOK, handles, caches, classVars, instanceVars
<1>3. ASSUME NEW d \in Cells
      PROVE  Balance(d)' = Balance(d) /\ (protects'[d] > 0 => d \in live')
  BY <1>1, CellFacts, BalanceNow, BalanceNext DEF handles, caches, classVars, instanceVars
<1> QED  BY <1>1, <1>2, <1>3, StepKeeps
\* A Value or Persistent of a live cell comes or goes, and a protection with it.
LEMMA HandleStep ==
  ASSUME RootInv, NEW c \in Cells,
         \/ FromRaw(c) \/ CloneValue(c) \/ DropValue(c) \/ Save(c)
         \/ ClonePersistent(c) \/ DropPersistent(c) \/ Restore(c)
  PROVE  RootInv' /\ Even
<1>1. UNCHANGED <<live, reached, caches, classVars, instanceVars>>
  BY DEF FromRaw, CloneValue, DropValue, Save, ClonePersistent, DropPersistent, Restore
<1>2. c \in live
  BY OwnedLive DEF FromRaw, CloneValue, DropValue, Save, ClonePersistent, DropPersistent,
    Restore, RootInv
<1>3. /\ protects[c] \in Nat /\ values[c] \in Nat /\ saved[c] \in Nat
      /\ values[c] > 0 \/ saved[c] > 0 => protects[c] > 0
      /\ protects \in [Cells -> Nat] /\ values \in [Cells -> Nat] /\ saved \in [Cells -> Nat]
  BY OwnedLive DEF RootInv, TypeOK
<1>4. /\ protects' \in [Cells -> Nat] /\ values' \in [Cells -> Nat]
      /\ saved' \in [Cells -> Nat]
      /\ \A d \in Cells \ {c} : /\ protects'[d] = protects[d] /\ values'[d] = values[d]
                                /\ saved'[d] = saved[d]
      /\ protects'[c] - protects[c] = values'[c] - values[c] + saved'[c] - saved[c]
  BY <1>3 DEF FromRaw, CloneValue, DropValue, Save, ClonePersistent, DropPersistent,
    Restore, Inc, Dec, Protected, caches, classVars, instanceVars, handles
<1>5. TypeOK'
  BY <1>1, <1>4 DEF RootInv, TypeOK, caches, classVars, instanceVars
<1>6. ASSUME NEW d \in Cells
      PROVE  Balance(d)' = Balance(d) /\ (protects'[d] > 0 => d \in live')
  <2>1. UNCHANGED <<pending, helper, prototype, functions, atoms, keeps, live>>
    BY <1>1 DEF caches, classVars, instanceVars
  <2>2. protects'[d] - protects[d] = values'[d] - values[d] + saved'[d] - saved[d]
    BY <1>4, CellFacts
  <2>3. protects'[d] \in Nat /\ values'[d] \in Nat /\ saved'[d] \in Nat
    BY <1>4
  <2>4. Balance(d)' = Balance(d)
    BY <2>1, <2>2, <2>3, Ones, CellFacts, BalanceNow, BalanceNext
  <2>5. protects'[d] > 0 => d \in live'
    BY <1>2, <1>4, <2>1, CellFacts
  <2> QED  BY <2>4, <2>5
<1> QED  BY <1>1, <1>5, <1>6, StepKeeps DEF RootInv

\* The slot gives its protection up to the next exception, or to a Value.
LEMMA ThrowStep ==
  ASSUME RootInv, NEW c \in Cells, Throw(c)
  PROVE  RootInv' /\ Even
<1>1. /\ UNCHANGED <<live, reached, handles, atoms, helper, functions, classVars,
                     instanceVars>>
      /\ pending' = c /\ protects' = Replaced(c) /\ c \in live
  BY OwnedLive DEF Throw, RootInv
<1>2. protects \in [Cells -> Nat] /\ pending \in Cells \cup {NoCell}
  BY DEF RootInv, TypeOK
<1>3. /\ protects' \in [Cells -> Nat]
      /\ \A d \in Cells : protects'[d] = protects[d] - Is(pending, d) + Is(c, d)
  <2>1. CASE pending = NoCell
    BY <1>1, <1>2, <2>1, Bounds DEF Replaced, Inc, Is, Has, One
  <2>2. CASE pending \in Cells
    <3>1. protects[pending] > 0 /\ pending # NoCell
      BY <2>2, OwnedLive, Bounds
    <3> QED  BY <1>1, <1>2, <2>2, <3>1 DEF Replaced, Inc, Dec, Is, Has, One
  <2> QED  BY <1>2, <2>1, <2>2
<1>4. TypeOK'
  BY <1>1, <1>3 DEF RootInv, TypeOK, handles, classVars, instanceVars
<1>5. ASSUME NEW d \in Cells
      PROVE  Balance(d)' = Balance(d) /\ (protects'[d] > 0 => d \in live')
  BY <1>1, <1>3, CellFacts, BalanceNow, BalanceNext DEF handles, classVars, instanceVars, Is, Has, One
<1> QED  BY <1>1, <1>4, <1>5, StepKeeps DEF RootInv

LEMMA CatchStep ==
  ASSUME RootInv, Catch
  PROVE  RootInv' /\ Even
<1>1. /\ UNCHANGED <<live, reached, protects, saved, atoms, helper, functions,
                     classVars, instanceVars>>
      /\ pending \in Cells /\ pending' = NoCell /\ values' = Inc(values, pending)
      /\ values \in [Cells -> Nat]
  BY DEF Catch, RootInv, TypeOK
<1>2. /\ values' \in [Cells -> Nat]
      /\ \A d \in Cells : values'[d] = values[d] + Is(pending, d) /\ pending' # d
  BY <1>1, Bounds DEF Inc, Is, Has, One
<1>3. TypeOK'
  BY <1>1, <1>2 DEF RootInv, TypeOK, classVars, instanceVars
<1>4. ASSUME NEW d \in Cells
      PROVE  Balance(d)' = Balance(d) /\ (protects'[d] > 0 => d \in live')
  <2>1. UNCHANGED <<protects, saved, helper, prototype, functions, atoms, keeps, live>>
    BY <1>1 DEF classVars, instanceVars
  <2>2. Is(pending', d) = 0
    BY <1>2 DEF Is, Has, One
  <2>3. values'[d] = values[d] + Is(pending, d)
    BY <1>2
  <2> QED  BY <2>1, <2>2, <2>3, Ones, CellFacts, BalanceNow, BalanceNext
<1> QED  BY <1>1, <1>3, <1>4, StepKeeps DEF RootInv

\* A new cell gets a Value, and a protection for whoever else keeps it;
\* the one that p was kept for is not given back.
LEMMA NewOwned ==
  ASSUME RootInv, NEW c \in Cells, NEW extra \in {0, 1}, NEW p \in Cells \cup {NoCell}, New(c, extra),
         UNCHANGED <<reached, saved, pending, helper, instanceVars>>,
         atoms' \in [Keys -> Cells \cup {NoCell}], functions' \subseteq Cells,
         prototype' \in Cells \cup {NoCell}, making' \in 0..MaxNesting,
         reentered' \in 0..MaxReentered,
         \A d \in Cells :
           Is(prototype', d) + Has(functions', d) + AtomsOf(atoms', d)
             = Is(prototype, d) + Has(functions, d) + AtomsOf(atoms, d)
                 + (IF d = c THEN extra ELSE 0) - (IF d = p THEN 1 ELSE 0)
  PROVE  /\ RootInv'
         /\ \A d \in Cells : Balance(d)' = Balance(d) + (IF d = p THEN 1 ELSE 0)
<1>1. /\ c \notin live /\ live' = live \cup {c} /\ values' = Inc(values, c)
      /\ protects' = [protects EXCEPT ![c] = @ + 1 + extra]
      /\ values \in [Cells -> Nat] /\ protects \in [Cells -> Nat]
  BY DEF New, RootInv, TypeOK
<1>2. /\ values' \in [Cells -> Nat] /\ protects' \in [Cells -> Nat]
      /\ \A d \in Cells :
           /\ values'[d] = values[d] + (IF d = c THEN 1 ELSE 0)
           /\ protects'[d] = protects[d] + (IF d = c THEN 1 + extra ELSE 0)
  BY <1>1 DEF Inc
<1>3. TypeOK'
  BY <1>1, <1>2 DEF RootInv, TypeOK, instanceVars
<1>4. ASSUME NEW d \in Cells
      PROVE  /\ Balance(d)' = Balance(d) + (IF d = p THEN 1 ELSE 0)
             /\ protects'[d] > 0 => d \in live'
  <2>1. /\ Is(prototype', d) + Has(functions', d) + AtomsOf(atoms', d)
             = Is(prototype, d) + Has(functions, d) + AtomsOf(atoms, d)
                 + (IF d = c THEN extra ELSE 0) - (IF d = p THEN 1 ELSE 0)
        /\ AtomsOf(atoms', d) \in Nat
    BY CountsNat
  <2>2. UNCHANGED <<saved, pending, helper, keeps>>
    BY DEF instanceVars
  <2>3. /\ values'[d] = values[d] + (IF d = c THEN 1 ELSE 0)
        /\ protects'[d] = protects[d] + (IF d = c THEN 1 + extra ELSE 0)
    BY <1>2
  <2>4. Balance(d)' = Balance(d) + (IF d = p THEN 1 ELSE 0)
    <3> DEFINE one == IF d = c THEN 1 ELSE 0
               more == IF d = c THEN extra ELSE 0
               less == IF d = p THEN 1 ELSE 0
    <3>1. one \in Int /\ more \in Int /\ less \in Int
      OBVIOUS
    <3>2. /\ Is(prototype', d) + Has(functions', d) + AtomsOf(atoms', d)
               = Is(prototype, d) + Has(functions, d) + AtomsOf(atoms, d) + more - less
          /\ values'[d] = values[d] + one /\ protects'[d] = protects[d] + one + more
      BY <2>1, <2>3, CellFacts
    <3>3. /\ Is(prototype', d) \in Nat /\ Has(functions', d) \in Nat
          /\ AtomsOf(atoms', d) \in Nat
      BY <2>1, IsNat, HasNat
    <3> HIDE DEF one, more, less
    <3>4. Balance(d)' = Balance(d) + less
      <4>1. /\ Balance(d) = protects[d] - (values[d] + saved[d]
                 + Is(pending, d) + Is(helper, d) + Is(prototype, d)
                 + Has(functions, d) + AtomsOf(atoms, d) + KeptBy(keeps, d))
            /\ Balance(d)' = protects'[d] - (values'[d] + saved[d]
                 + Is(pending, d) + Is(helper, d) + Is(prototype', d)
                 + Has(functions', d) + AtomsOf(atoms', d) + KeptBy(keeps, d))
        BY <2>2, BalanceNow, BalanceNext
      <4>2. /\ protects[d] \in Nat /\ values[d] \in Nat /\ saved[d] \in Nat
            /\ AtomsOf(atoms, d) \in Nat /\ KeptBy(keeps, d) \in Nat
            /\ Is(pending, d) \in Nat /\ Is(helper, d) \in Nat
            /\ Is(prototype, d) \in Nat /\ Has(functions, d) \in Nat
        BY CellFacts, Ones
      <4> QED  BY <3>1, <3>2, <3>3, <4>1, <4>2
    <3> QED  BY <3>4 DEF less
  <2>5. protects'[d] > 0 => d \in live'
    BY <1>1, <2>3, CellFacts
  <2> QED  BY <2>4, <2>5
<1>5. \A d \in Cells : Balance(d)' \in {Balance(d), Balance(d) + 1}
  BY <1>4, CellFacts
<1>6. live \subseteq live' /\ reached' \subseteq live'
  BY <1>1 DEF RootInv
<1> QED  BY <1>3, <1>4, <1>5, <1>6, StepCovers

LEMMA NewEven ==
  ASSUME RootInv, NEW c \in Cells, NEW extra \in {0, 1}, New(c, extra),
         UNCHANGED <<reached, saved, pending, helper, instanceVars>>,
         atoms' \in [Keys -> Cells \cup {NoCell}], functions' \subseteq Cells,
         prototype' \in Cells \cup {NoCell}, making' \in 0..MaxNesting,
         reentered' \in 0..MaxReentered,
         \A d \in Cells :
           Is(prototype', d) + Has(functions', d) + AtomsOf(atoms', d)
             = Is(prototype, d) + Has(functions, d) + AtomsOf(atoms, d)
                 + (IF d = c THEN extra ELSE 0)
  PROVE  RootInv' /\ Even
<1>1. \A d \in Cells : Balance(d) \in Nat /\ AtomsOf(atoms, d) \in Nat /\ d # NoCell
  BY CellFacts, Bounds
<1>2. \A d \in Cells :
         Is(prototype', d) + Has(functions', d) + AtomsOf(atoms', d)
           = Is(prototype, d) + Has(functions, d) + AtomsOf(atoms, d)
               + (IF d = c THEN extra ELSE 0) - (IF d = NoCell THEN 1 ELSE 0)
  BY <1>1 DEF Is, Has, One
<1> DEFINE p == NoCell
<1>3. \A d \in Cells :
         Is(prototype', d) + Has(functions', d) + AtomsOf(atoms', d)
           = Is(prototype, d) + Has(functions, d) + AtomsOf(atoms, d)
               + (IF d = c THEN extra ELSE 0) - (IF d = p THEN 1 ELSE 0)
  BY <1>2
<1> HIDE DEF p
<1>4. p \in Cells \cup {NoCell}
  BY DEF p
<1>5. /\ RootInv'
      /\ \A d \in Cells : Balance(d)' = Balance(d) + (IF d = p THEN 1 ELSE 0)
  BY <1>3, <1>4, NewOwned
<1> USE DEF p
<1> QED  BY <1>1, <1>5 DEF Even

LEMMA InternStep ==
  ASSUME RootInv, NEW k \in Keys, Intern(k)
  PROVE  RootInv' /\ Even
<1>1. /\ UNCHANGED <<reached, saved, pending, helper, functions, classVars, instanceVars>>
      /\ TypeOK
  BY DEF Intern, RootInv
<1>2. CASE /\ k \in Interned /\ values' = Inc(values, atoms[k])
           /\ protects' = Inc(protects, atoms[k]) /\ UNCHANGED <<live, atoms>>
  <2>1. atoms[k] \in Cells /\ atoms[k] \in live
    <3>1. atoms[k] \in Cells
      BY <1>1, <1>2 DEF Interned, TypeOK
    <3> QED  BY <3>1, OwnedLive
  <2>2. /\ values' \in [Cells -> Nat] /\ protects' \in [Cells -> Nat]
        /\ \A d \in Cells :
             /\ values'[d] = values[d] + (IF d = atoms[k] THEN 1 ELSE 0)
             /\ protects'[d] = protects[d] + (IF d = atoms[k] THEN 1 ELSE 0)
    BY <1>1, <1>2, <2>1 DEF Inc, TypeOK
  <2>3. TypeOK'
    BY <1>1, <1>2, <2>2 DEF TypeOK, classVars, instanceVars
  <2>4. ASSUME NEW d \in Cells
        PROVE  Balance(d)' = Balance(d) /\ (protects'[d] > 0 => d \in live')
    BY <1>1, <1>2, <2>1, <2>2, CellFacts, BalanceNow, BalanceNext DEF classVars, instanceVars, Is, Has, One
  <2> QED  BY <1>1, <1>2, <2>3, <2>4, StepKeeps DEF RootInv
<1>3. ASSUME NEW c \in Cells, k \notin Interned, New(c, 1),
             atoms' = [atoms EXCEPT ![k] = c]
      PROVE  RootInv' /\ Even
  <2>1. atoms \in [Keys -> Cells \cup {NoCell}] /\ atoms[k] = NoCell
    BY <1>1, <1>3 DEF TypeOK, Interned
  <2>2. \A d \in Cells : AtomsOf(atoms', d) = AtomsOf(atoms, d) + Is(c, d)
    <3> SUFFICES ASSUME NEW d \in Cells
                 PROVE  AtomsOf(atoms', d) = AtomsOf(atoms, d) + Is(c, d)
      OBVIOUS
    <3>1. atoms'[k] = c /\ \A j \in Keys \ {k} : atoms'[j] = atoms[j]
      BY <1>3, <2>1
    <3>2. AtomsOf(atoms', d) = AtomsOf(atoms, d) + Is(atoms'[k], d)
      BY <2>1, <3>1, AtomAdded DEF Is, Has, One
    <3> QED  BY <3>1, <3>2
  <2>3. atoms' \in [Keys -> Cells \cup {NoCell}]
    BY <1>3, <2>1
  <2>4. \A d \in Cells :
           Is(prototype', d) + Has(functions', d) + AtomsOf(atoms', d)
             = Is(prototype, d) + Has(functions, d) + AtomsOf(atoms, d)
                 + (IF d = c THEN 1 ELSE 0)
    BY <1>1, <2>2, CountsNat DEF classVars, Is, Has, One
  <2> QED  BY <1>1, <1>3, <2>3, <2>4, NewEven DEF classVars, TypeOK
<1>4. ASSUME NEW c \in Cells, New(c, 0), UNCHANGED atoms
      PROVE  RootInv' /\ Even
  <2>1. \A d \in Cells :
           Is(prototype', d) + Has(functions', d) + AtomsOf(atoms', d)
             = Is(prototype, d) + Has(functions, d) + AtomsOf(atoms, d)
                 + (IF d = c THEN 0 ELSE 0)
    BY <1>1, <1>4, CountsNat DEF classVars, Is, Has, One
  <2> QED  BY <1>1, <1>4, <2>1, NewEven DEF classVars, TypeOK
<1> QED  BY <1>2, <1>3, <1>4 DEF Intern

LEMMA HelperStep ==
  ASSUME RootInv, Helper
  PROVE  RootInv' /\ Even
<1>1. /\ UNCHANGED <<live, reached, saved, pending, atoms, functions, classVars,
                     instanceVars>>
      /\ TypeOK
  BY DEF Helper, RootInv
<1>2. PICK c \in Cells, n \in {0, 1} :
        /\ c \in live /\ helper' = c /\ helper = (IF n = 0 THEN c ELSE NoCell)
        /\ values' = [values EXCEPT ![c] = @ + 1]
        /\ protects' = [protects EXCEPT ![c] = @ + (1 + n)]
  <2>1. ASSUME helper # NoCell, values' = Inc(values, helper),
               protects' = Inc(protects, helper), UNCHANGED helper
        PROVE  \E c \in Cells :
                 /\ c \in live /\ helper' = c /\ helper = c
                 /\ values' = [values EXCEPT ![c] = @ + 1]
                 /\ protects' = [protects EXCEPT ![c] = @ + (1 + 0)]
    <3>1. helper \in Cells
      BY <1>1, <2>1 DEF TypeOK
    <3>2. helper \in live /\ 1 + 0 = 1
      BY <3>1, OwnedLive
    <3> QED  BY <2>1, <3>1, <3>2 DEF Inc
  <2>2. ASSUME NEW c \in reached, helper = NoCell, values' = Inc(values, c),
               protects' = [protects EXCEPT ![c] = @ + 2], helper' = c
        PROVE  /\ c \in live /\ c \in Cells
               /\ values' = [values EXCEPT ![c] = @ + 1]
               /\ protects' = [protects EXCEPT ![c] = @ + (1 + 1)]
    <3>1. 1 + 1 = 2 /\ c \in live /\ c \in Cells
      BY <1>1, <2>2 DEF RootInv, TypeOK
    <3> QED  BY <2>2, <3>1 DEF Inc
  <2>3. CASE helper # NoCell
    BY <2>1, <2>3 DEF Helper
  <2>4. CASE helper = NoCell
    BY <2>2, <2>4 DEF Helper
  <2> QED  BY <2>3, <2>4
<1>3. /\ values' \in [Cells -> Nat] /\ protects' \in [Cells -> Nat]
      /\ \A d \in Cells :
           /\ values'[d] = values[d] + (IF d = c THEN 1 ELSE 0)
           /\ protects'[d] = protects[d] + (IF d = c THEN 1 + n ELSE 0)
           /\ Is(helper', d) = Is(helper, d) + (IF d = c THEN n ELSE 0)
  BY <1>1, <1>2, Bounds DEF TypeOK, Is, Has, One
<1>4. TypeOK'
  BY <1>1, <1>2, <1>3 DEF TypeOK, classVars, instanceVars
<1>5. ASSUME NEW d \in Cells
      PROVE  Balance(d)' = Balance(d) /\ (protects'[d] > 0 => d \in live')
  <2>1. /\ UNCHANGED <<saved, pending, prototype, functions, atoms, keeps, live>>
        /\ c \in live
    BY <1>1, <1>2 DEF classVars, instanceVars
  <2>2. Balance(d)' = Balance(d)
    <3> DEFINE one == IF d = c THEN 1 ELSE 0
               more == IF d = c THEN n ELSE 0
    <3>1. /\ one \in Int /\ more \in Int
          /\ values'[d] = values[d] + one /\ protects'[d] = protects[d] + one + more
          /\ Is(helper', d) = Is(helper, d) + more
      BY <1>3, CellFacts
    <3>2. /\ Balance(d) = protects[d] - (values[d] + saved[d]
               + Is(pending, d) + Is(helper, d) + Is(prototype, d)
               + Has(functions, d) + AtomsOf(atoms, d) + KeptBy(keeps, d))
          /\ Balance(d)' = protects'[d] - (values'[d] + saved[d]
               + Is(pending, d) + Is(helper', d) + Is(prototype, d)
               + Has(functions, d) + AtomsOf(atoms, d) + KeptBy(keeps, d))
      BY <2>1, BalanceNow, BalanceNext
    <3>3. /\ protects[d] \in Nat /\ values[d] \in Nat /\ saved[d] \in Nat
          /\ AtomsOf(atoms, d) \in Nat /\ KeptBy(keeps, d) \in Nat
          /\ Is(pending, d) \in Nat /\ Is(helper, d) \in Nat
          /\ Is(prototype, d) \in Nat /\ Has(functions, d) \in Nat
      BY CellFacts, Ones
    <3> HIDE DEF one, more
    <3> QED  BY <3>1, <3>2, <3>3
  <2> QED  BY <1>3, <2>1, <2>2, CellFacts
<1> QED  BY <1>1, <1>4, <1>5, StepKeeps DEF RootInv

LEMMA MakeFunctionStep ==
  ASSUME RootInv, NEW c \in Cells, MakeFunction(c)
  PROVE  RootInv' /\ Even
<1>1. /\ New(c, 1) /\ functions' = functions \cup {c} /\ TypeOK
      /\ UNCHANGED <<reached, saved, pending, atoms, helper, classVars, instanceVars>>
      /\ c \notin functions
  BY NewFacts DEF MakeFunction, New, RootInv
<1>2. \A d \in Cells :
         Is(prototype', d) + Has(functions', d) + AtomsOf(atoms', d)
           = Is(prototype, d) + Has(functions, d) + AtomsOf(atoms, d)
               + (IF d = c THEN 1 ELSE 0)
  BY <1>1, CountsNat DEF classVars, Is, Has, One
<1> QED  BY <1>1, <1>2, NewEven DEF classVars, TypeOK

\* The calls that begin, and those that end without a prototype, own nothing.
LEMMA PrototypeStep ==
  ASSUME RootInv, CachedPrototype \/ BeginPrototype \/ EndNoPrototype
  PROVE  RootInv' /\ Even
<1>1. TypeOK
  BY DEF RootInv
<1>2. CASE CachedPrototype
  <2>1. /\ prototype \in Cells /\ values' = Inc(values, prototype)
        /\ protects' = Inc(protects, prototype)
        /\ UNCHANGED <<live, reached, saved, caches, classVars, instanceVars>>
    BY <1>1, <1>2 DEF CachedPrototype, TypeOK
  <2>2. prototype \in live
    BY <2>1, OwnedLive
  <2>3. /\ values' \in [Cells -> Nat] /\ protects' \in [Cells -> Nat]
        /\ \A d \in Cells :
             /\ values'[d] = values[d] + (IF d = prototype THEN 1 ELSE 0)
             /\ protects'[d] = protects[d] + (IF d = prototype THEN 1 ELSE 0)
    BY <1>1, <2>1 DEF Inc, TypeOK
  <2>4. TypeOK'
    BY <1>1, <2>1, <2>3 DEF TypeOK, caches, classVars, instanceVars
  <2>5. ASSUME NEW d \in Cells
        PROVE  Balance(d)' = Balance(d) /\ (protects'[d] > 0 => d \in live')
    <3>1. UNCHANGED <<saved, pending, helper, prototype, functions, atoms, keeps, live>>
      BY <2>1 DEF caches, classVars, instanceVars
    <3>2. /\ values'[d] = values[d] + (IF d = prototype THEN 1 ELSE 0)
          /\ protects'[d] = protects[d] + (IF d = prototype THEN 1 ELSE 0)
      BY <2>3
    <3>3. Balance(d)' = Balance(d)
      BY <3>1, <3>2, Ones, CellFacts, BalanceNow, BalanceNext
    <3> QED  BY <2>2, <3>1, <3>2, <3>3, CellFacts
  <2> QED  BY <2>1, <2>4, <2>5, StepKeeps DEF RootInv
<1>3. CASE BeginPrototype \/ EndNoPrototype
  <2>1. /\ UNCHANGED <<live, reached, protects, handles, caches, prototype, instanceVars>>
        /\ making' \in 0..MaxNesting /\ reentered' \in 0..MaxReentered
    BY <1>1, <1>3, Bounds DEF BeginPrototype, EndNoPrototype, Is, Has, One, TypeOK
  <2>2. TypeOK'
    BY <1>1, <2>1 DEF TypeOK, handles, caches, instanceVars
  <2>3. ASSUME NEW d \in Cells
        PROVE  Balance(d)' = Balance(d) /\ (protects'[d] > 0 => d \in live')
    BY <2>1, CellFacts, BalanceNow, BalanceNext DEF handles, caches, instanceVars
  <2> QED  BY <2>1, <2>2, <2>3, StepKeeps DEF handles, caches, instanceVars, RootInv
<1> QED  BY <1>2, <1>3

\* A prototype that replaces another leaves that one its protection.
LEMMA EndPrototypeStep ==
  ASSUME RootInv, NEW c \in Cells, EndPrototype(c)
  PROVE  /\ RootInv'
         /\ \A d \in Cells : Balance(d)' = Balance(d) + (IF d = prototype THEN 1 ELSE 0)
<1>1. /\ New(c, 1) /\ prototype' = c /\ making' \in 0..MaxNesting /\ c # prototype
      /\ UNCHANGED <<reached, saved, caches, reentered, instanceVars>>
      /\ TypeOK
  BY NewFacts, Bounds DEF EndPrototype, New, RootInv, TypeOK
<1>2. \A d \in Cells :
         Is(prototype', d) + Has(functions', d) + AtomsOf(atoms', d)
           = Is(prototype, d) + Has(functions, d) + AtomsOf(atoms, d)
               + (IF d = c THEN 1 ELSE 0) - (IF d = prototype THEN 1 ELSE 0)
  BY <1>1, CountsNat DEF caches, Is, Has, One
<1> QED  BY <1>1, <1>2, NewOwned DEF caches, TypeOK

-----------------------------------------------------------------------------
(* Instances.                                                              *)

\* The finalizer drops the Rust value, and gives its Value's protection back.
LEMMA CollectStep ==
  ASSUME RootInv, NEW c \in Cells, Collect(c)
  PROVE  RootInv' /\ Even
<1> DEFINE i == private[c]
<1>1. /\ c \in live /\ c \notin reached /\ protects[c] = 0 /\ live' = live \ {c}
      /\ private' = [private EXCEPT ![c] = 0]
      /\ UNCHANGED <<reached, handles, caches, classVars>> /\ Finalize(c)
      /\ TypeOK /\ OwnValue /\ DroppedWithInstance /\ reached \subseteq live
  BY DEF Collect, RootInv
<1>2. CASE i \in drops
  <2>1. /\ i \in Instances /\ drops' = drops \ {i} /\ dropped' = [dropped EXCEPT ![i] = @ + 1]
        /\ keeps' = [keeps EXCEPT ![i] = NoCell]
        /\ protects' = IF keeps[i] = NoCell THEN protects
                       ELSE [protects EXCEPT ![keeps[i]] = @ - 1]
    BY <1>1, <1>2 DEF Finalize, Unlisted, Inc, Dec, TypeOK
  <2>2. keeps[i] # NoCell => keeps[i] \in Cells /\ protects[keeps[i]] > 0
    BY <1>1, <2>1, OwnedLive DEF TypeOK
  <2>3. /\ protects' \in [Cells -> Nat]
        /\ \A d \in Cells : protects'[d] = protects[d] - Is(keeps[i], d)
    BY <1>1, <2>1, <2>2, Bounds DEF TypeOK, Is, Has, One
  <2>4. \A d \in Cells : KeptBy(keeps', d) = KeptBy(keeps, d) - Is(keeps[i], d)
    <3>1. ASSUME NEW d \in Cells
          PROVE  KeptBy(keeps', d) = KeptBy(keeps, d) - Is(keeps[i], d) + Is(NoCell, d)
      <4>1. /\ keeps \in [Instances -> Cells \cup {NoCell}] /\ i \in Instances
            /\ keeps'[i] = NoCell /\ \A j \in Instances \ {i} : keeps'[j] = keeps[j]
        BY <1>1, <2>1 DEF TypeOK
      <4> HIDE DEF i
      <4>2. KeptBy(keeps', d) = KeptBy(keeps, d) - Is(keeps[i], d) + Is(keeps'[i], d)
        BY <4>1, KeptReplaced DEF Is, Has, One
      <4> QED  BY <4>1, <4>2
    <3>2. \A d \in Cells : KeptBy(keeps', d) = KeptBy(keeps, d) - Is(keeps[i], d) + 0
      BY <2>1, <3>1, Bounds DEF Is, Has, One
    <3> QED  BY <3>2, CountsNat DEF Is, Has, One
  <2>5. TypeOK'
    <3>1. private' \in [Cells -> 0..MaxInstances] /\ live' \subseteq Cells
      BY <1>1, Bounds DEF TypeOK
    <3>2. /\ drops' \subseteq Instances
          /\ keeps' \in [Instances -> Cells \cup {NoCell}]
      BY <1>1, <2>1 DEF TypeOK
    <3>3. dropped' \in [Instances -> Nat]
      <4>1. dropped \in [Instances -> Nat]
        BY <1>1 DEF TypeOK
      <4> QED  BY <2>1, <4>1
    <3> QED  BY <1>1, <2>3, <3>1, <3>2, <3>3 DEF TypeOK, handles, caches, classVars
  <2>6. Covered' /\ ProtectedLive' /\ Even
    <3>1. ASSUME NEW d \in Cells
          PROVE  Balance(d)' = Balance(d) /\ (protects'[d] > 0 => d \in live')
      <4>1. /\ UNCHANGED <<values, saved, pending, helper, prototype, functions, atoms>>
            /\ Is(keeps[i], d) \in Nat
        BY <1>1 DEF handles, caches, classVars, Is, Has, One
      <4>2. /\ protects'[d] = protects[d] - Is(keeps[i], d)
            /\ KeptBy(keeps', d) = KeptBy(keeps, d) - Is(keeps[i], d)
        BY <2>3, <2>4
      <4> HIDE DEF i
      <4>3. Balance(d)' = Balance(d)
        BY <4>1, <4>2, Ones, CellFacts, BalanceNow, BalanceNext
      <4>4. protects'[d] > 0 => d \in live'
        BY <1>1, <4>1, <4>2, CellFacts
      <4> QED  BY <4>3, <4>4
    <3>2. ASSUME NEW d \in Cells PROVE Balance(d)' >= 0
      BY <3>1, CellFacts
    <3> QED  BY <3>1, <3>2 DEF Covered, ProtectedLive, Even
  <2>7. OwnValue'
    BY <1>1, <2>1 DEF OwnValue, TypeOK
  <2>8. DroppedWithInstance'
    <3>1. ASSUME NEW j \in Instances, j # i
          PROVE  /\ dropped'[j] = dropped[j] /\ (j \in drops' <=> j \in drops)
                 /\ (\E d \in live' : private'[d] = j) <=> (\E d \in live : private[d] = j)
      BY <1>1, <2>1, <3>1, Bounds DEF TypeOK
    <3>2. /\ dropped'[i] = 1 /\ i \notin drops'
          /\ \A d \in live' : private'[d] # i
      <4>1. i # 0 /\ \A d \in live' : d \in Cells /\ d # c /\ private'[d] = private[d]
        BY <1>1, <2>1, Bounds DEF TypeOK
      <4>2. \A d \in Cells : private[d] = i => d = c
        BY <1>1, <4>1 DEF OwnValue
      <4>3. dropped[i] = 0 /\ dropped \in [Instances -> Nat]
        BY <1>1, <1>2, <2>1 DEF DroppedWithInstance, TypeOK
      <4>4. dropped'[i] = 1 /\ i \notin drops'
        BY <2>1, <4>3
      <4> HIDE DEF i
      <4> QED  BY <4>1, <4>2, <4>4
    <3> QED  BY <1>1, <3>1, <3>2 DEF DroppedWithInstance
  <2> QED  BY <1>1, <2>5, <2>6, <2>7, <2>8 DEF RootInv
<1>3. CASE i \notin drops
  <2>1. UNCHANGED <<drops, dropped, keeps, protects>> /\ i = 0
    BY <1>1, <1>3 DEF Finalize, DroppedWithInstance, TypeOK, Instances
  <2>2. private' = private
    BY <1>1, <2>1 DEF TypeOK
  <2>3. TypeOK'
    BY <1>1, <2>1, <2>2 DEF TypeOK, handles, caches, classVars
  <2>4. Covered' /\ ProtectedLive' /\ Even
    <3>1. ASSUME NEW d \in Cells
          PROVE  Balance(d)' = Balance(d) /\ (protects'[d] > 0 => d \in live')
      BY <1>1, <2>1, CellFacts, BalanceNow, BalanceNext DEF handles, caches, classVars
    <3>2. ASSUME NEW d \in Cells PROVE Balance(d)' >= 0
      BY <3>1, CellFacts
    <3> QED  BY <3>1, <3>2 DEF Covered, ProtectedLive, Even
  <2>5. live' \subseteq live /\ \A d \in live : private[d] # 0 => d \in live'
    BY <1>1, <2>1
  <2>6. OwnValue'
    <3>1. OwnValue
      BY <1>1
    <3> QED  BY <2>1, <2>2, <2>5, <3>1 DEF OwnValue
  <2>7. ASSUME NEW j \in Instances
        PROVE  (\E d \in live' : private'[d] = j) <=> (\E d \in live : private[d] = j)
    BY <2>2, <2>5, Bounds DEF Instances
  <2>8. DroppedWithInstance'
    <3>1. DroppedWithInstance
      BY <1>1
    <3> QED  BY <2>1, <2>7, <3>1 DEF DroppedWithInstance
  <2> QED  BY <1>1, <2>3, <2>4, <2>6, <2>8 DEF RootInv
<1> QED  BY <1>2, <1>3

\* A new instance has a Rust value of its own, which may take a Value along.
LEMMA MakeInstanceStep ==
  ASSUME RootInv, NEW c \in Cells, NEW x \in Cells \cup {NoCell}, MakeInstance(c, x)
  PROVE  RootInv' /\ Even
<1> DEFINE i == Fresh
<1>1. /\ c \notin live /\ Unmade # {} /\ (x # NoCell => values[x] > 0)
      /\ private' = [private EXCEPT ![c] = i] /\ drops' = drops \cup {i}
      /\ keeps' = [keeps EXCEPT ![i] = x] /\ live' = live \cup {c}
      /\ values' = [v \in Cells |-> IF v = c THEN values[v] + 1
                                    ELSE IF v = x THEN values[v] - 1 ELSE values[v]]
      /\ protects' = [protects EXCEPT ![c] = @ + 1]
      /\ UNCHANGED <<reached, saved, caches, classVars, dropped>>
      /\ TypeOK /\ OwnValue /\ DroppedWithInstance /\ reached \subseteq live
  BY DEF MakeInstance, Inc, RootInv
<1>2. i \in Instances /\ i \notin drops /\ dropped[i] = 0
  BY <1>1 DEF Fresh, Unmade
<1> HIDE DEF i
<1>3. /\ x # c /\ private[c] = 0 /\ protects[c] = 0 /\ values[c] = 0 /\ c # NoCell
  BY <1>1, NewFacts, Bounds
<1>4. /\ values \in [Cells -> Nat] /\ protects \in [Cells -> Nat]
      /\ keeps \in [Instances -> Cells \cup {NoCell}]
      /\ private \in [Cells -> 0..MaxInstances]
  BY <1>1 DEF TypeOK
<1>5. /\ values' \in [Cells -> Nat] /\ protects' \in [Cells -> Nat]
      /\ \A d \in Cells :
           /\ protects'[d] = protects[d] + (IF d = c THEN 1 ELSE 0)
           /\ values'[d] = values[d] + (IF d = c THEN 1 ELSE 0) - (IF d = x THEN 1 ELSE 0)
  <2>1. /\ protects' \in [Cells -> Nat]
        /\ \A d \in Cells : protects'[d] = protects[d] + (IF d = c THEN 1 ELSE 0)
    BY <1>1, <1>4
  <2>2. ASSUME NEW d \in Cells
        PROVE  /\ values'[d] \in Nat
               /\ values'[d] = values[d] + (IF d = c THEN 1 ELSE 0) - (IF d = x THEN 1 ELSE 0)
    <3>1. /\ values[d] \in Nat /\ d # NoCell
          /\ values'[d] = IF d = c THEN values[d] + 1
                          ELSE IF d = x THEN values[d] - 1 ELSE values[d]
      BY <1>1, <1>4, Bounds
    <3>2. CASE d = c
      BY <1>3, <3>1, <3>2
    <3>3. CASE d # c /\ d = x
      BY <1>1, <3>1, <3>3
    <3>4. CASE d # c /\ d # x
      BY <3>1, <3>4
    <3> QED  BY <3>2, <3>3, <3>4
  <2>3. values' \in [Cells -> Nat]
    <3>1. values' = [v \in Cells |-> values'[v]]
      BY <1>1
    <3> QED  BY <2>2, <3>1
  <2> QED  BY <2>1, <2>2, <2>3
<1>6. ASSUME NEW d \in Cells
      PROVE  KeptBy(keeps', d) = KeptBy(keeps, d) + (IF d = x THEN 1 ELSE 0)
  <2>1. keeps'[i] = x /\ \A j \in Instances \ {i} : keeps'[j] = keeps[j]
    BY <1>1, <1>2, <1>4
  <2>2. KeptBy(keeps', d) = KeptBy(keeps, d) - Is(keeps[i], d) + Is(keeps'[i], d)
    BY <1>2, <1>4, <2>1, KeptReplaced DEF Is, Has, One
  <2>3. keeps[i] = NoCell /\ d # NoCell
    BY <1>1, <1>2, Bounds DEF OwnValue
  <2> QED  BY <2>1, <2>2, <2>3, CountsNat DEF Is, Has, One
<1>7. TypeOK'
  <2>1. private' \in [Cells -> 0..MaxInstances] /\ live' \subseteq Cells
    <3>1. i \in 0..MaxInstances
      BY <1>2, Bounds DEF Instances
    <3>2. live \subseteq Cells
      BY <1>1 DEF TypeOK
    <3> QED  BY <1>1, <1>4, <3>1, <3>2
  <2>2. drops' \subseteq Instances /\ keeps' \in [Instances -> Cells \cup {NoCell}]
    BY <1>1, <1>2, <1>4 DEF TypeOK
  <2> QED  BY <1>1, <1>5, <2>1, <2>2 DEF TypeOK, caches, classVars
<1>8. Covered' /\ ProtectedLive' /\ Even
  <2>1. ASSUME NEW d \in Cells
        PROVE  Balance(d)' = Balance(d) /\ (protects'[d] > 0 => d \in live')
    <3>1. UNCHANGED <<saved, pending, helper, prototype, functions, atoms>>
      BY <1>1 DEF caches, classVars
    <3>2. values'[d] \in Nat /\ protects'[d] \in Nat
      BY <1>5
    <3>3. /\ protects'[d] = protects[d] + (IF d = c THEN 1 ELSE 0)
          /\ values'[d] = values[d] + (IF d = c THEN 1 ELSE 0) - (IF d = x THEN 1 ELSE 0)
          /\ KeptBy(keeps', d) = KeptBy(keeps, d) + (IF d = x THEN 1 ELSE 0)
      BY <1>5, <1>6
    <3>4. Balance(d)' = Balance(d)
      <4> DEFINE new == IF d = c THEN 1 ELSE 0
                 taken == IF d = x THEN 1 ELSE 0
      <4>1. /\ new \in Int /\ taken \in Int
            /\ protects'[d] = protects[d] + new
            /\ values'[d] = values[d] + new - taken
            /\ KeptBy(keeps', d) = KeptBy(keeps, d) + taken
        BY <3>3
      <4>2. /\ Balance(d) = protects[d] - (values[d] + saved[d]
                 + Is(pending, d) + Is(helper, d) + Is(prototype, d)
                 + Has(functions, d) + AtomsOf(atoms, d) + KeptBy(keeps, d))
            /\ Balance(d)' = protects'[d] - (values'[d] + saved[d]
                 + Is(pending, d) + Is(helper, d) + Is(prototype, d)
                 + Has(functions, d) + AtomsOf(atoms, d) + KeptBy(keeps', d))
        BY <3>1, BalanceNow, BalanceNext
      <4>3. /\ protects[d] \in Nat /\ values[d] \in Nat /\ saved[d] \in Nat
            /\ AtomsOf(atoms, d) \in Nat /\ KeptBy(keeps, d) \in Nat
            /\ Is(pending, d) \in Nat /\ Is(helper, d) \in Nat
            /\ Is(prototype, d) \in Nat /\ Has(functions, d) \in Nat
        BY CellFacts, Ones
      <4> HIDE DEF new, taken
      <4> QED  BY <3>2, <4>1, <4>2, <4>3
    <3>5. protects'[d] > 0 => d \in live'
      BY <1>1, <3>3, CellFacts
    <3> QED  BY <3>4, <3>5
  <2>2. ASSUME NEW d \in Cells PROVE Balance(d)' >= 0
    BY <2>1, CellFacts
  <2> QED  BY <2>1, <2>2 DEF Covered, ProtectedLive, Even
<1>9. \A d \in live : private[d] # i
  BY <1>1, <1>2 DEF DroppedWithInstance
<1>10. OwnValue'
  <2>1. \A j \in Instances \ drops' : keeps'[j] = NoCell
    BY <1>1, <1>2, <1>4 DEF OwnValue
  <2> QED  BY <1>1, <1>2, <1>4, <1>9, <2>1 DEF OwnValue
<1>11. DroppedWithInstance'
  <2>1. ASSUME NEW j \in Instances, j # i
        PROVE  (\E d \in live' : private'[d] = j) <=> (\E d \in live : private[d] = j)
    BY <1>1, <1>3, <1>4, <2>1, Bounds DEF TypeOK
  <2>2. \E d \in live' : private'[d] = i
    BY <1>1, <1>4
  <2> QED  BY <1>1, <1>2, <2>1, <2>2 DEF DroppedWithInstance
<1> QED  BY <1>1, <1>7, <1>8, <1>10, <1>11 DEF RootInv

-----------------------------------------------------------------------------
(* The invariant, and what follows from it.                                *)

LEMMA BalanceInit ==
  Init => \A c \in Cells : Balance(c) = 0
<1> SUFFICES ASSUME Init, NEW c \in Cells PROVE Balance(c) = 0
  OBVIOUS
<1>1. {k \in Keys : atoms[k] = c} = {} /\ {i \in Instances : keeps[i] = c} = {}
  BY Bounds DEF Init
<1>2. AtomsOf(atoms, c) = 0 /\ KeptBy(keeps, c) = 0
  BY <1>1, FS_EmptySet DEF AtomsOf, KeptBy
<1>3. /\ values[c] = 0 /\ saved[c] = 0 /\ pending # c /\ helper # c /\ prototype # c
      /\ c \notin functions /\ protects[c] = 0
  BY Bounds DEF Init
<1> QED  BY <1>2, <1>3, BalanceNow DEF Is, Has, One

LEMMA RootInit ==
  Init => RootInv
<1> SUFFICES ASSUME Init PROVE RootInv
  OBVIOUS
<1>1. TypeOK
  BY Bounds DEF Init, TypeOK
<1>2. Covered /\ ProtectedLive
  BY BalanceInit DEF Init, Covered, ProtectedLive
<1>3. OwnValue /\ DroppedWithInstance /\ reached \subseteq live
  BY DEF Init, OwnValue, DroppedWithInstance
<1> QED  BY <1>1, <1>2, <1>3 DEF RootInv

LEMMA RootStutter ==
  ASSUME RootInv, UNCHANGED vars
  PROVE  RootInv' /\ Even
<1>1. TypeOK'
  BY DEF vars, handles, caches, classVars, instanceVars, RootInv, TypeOK
<1>2. ASSUME NEW d \in Cells
      PROVE  Balance(d)' = Balance(d) /\ (protects'[d] > 0 => d \in live')
  <2>1. UNCHANGED <<live, protects, values, saved, pending, helper, prototype, functions,
                    atoms, keeps>>
    BY DEF vars, handles, caches, classVars, instanceVars
  <2> QED  BY <2>1, CellFacts, BalanceNow, BalanceNext
<1> QED  BY <1>1, <1>2, StepKeeps
      DEF vars, handles, caches, classVars, instanceVars, RootInv

LEMMA RootStep ==
  RootInv /\ [Next]_vars => RootInv'
<1> SUFFICES ASSUME RootInv, [Next]_vars PROVE RootInv'
  OBVIOUS
<1>1. CASE UNCHANGED vars
  BY <1>1, RootStutter
<1>2. CASE Js
  BY <1>2, ReachStep, CollectStep DEF Js
<1>3. CASE Host
  BY <1>3, ReachStep, HandleStep, ThrowStep, CatchStep, InternStep, HelperStep,
     MakeFunctionStep, PrototypeStep, EndPrototypeStep, MakeInstanceStep DEF Host
<1> QED  BY <1>1, <1>2, <1>3 DEF Next

LEMMA RootAlways ==
  Spec => []RootInv
BY RootInit, RootStep, PTL DEF Spec

\* The counts and addresses that Rust keeps are of the kinds the code gives them;
\* no protection is given back that was not taken.
THEOREM RootsTyped ==
  Spec => []TypeOK
<1>1. RootInv => TypeOK
  BY DEF RootInv
<1> QED  BY <1>1, RootAlways, PTL

\* value.rs and runtime.rs: an address that a handle, the slot of the exception, a
\* cache, the registry of functions or a Rust value refers to is never that of a
\* collected cell, nor of another that was allocated there since.
THEOREM NoDanglingHandle ==
  Spec => []HeldIsLive
<1>1. RootInv => HeldIsLive
  <2> SUFFICES ASSUME RootInv, NEW c \in Cells, Owners(c) > 0
               PROVE  c \in live /\ protects[c] > 0
    BY DEF HeldIsLive
  <2>1. protects[c] > 0
    BY CellFacts, Counts DEF RootInv, Balance
  <2> QED  BY <2>1, CellFacts
<1> QED  BY <1>1, RootAlways, PTL

\* class.rs, finalize_trampoline: the Rust value of an instance is dropped when
\* the instance is collected, not before and not twice.
THEOREM DroppedOnce ==
  Spec => []DroppedWithInstance
<1>1. RootInv => DroppedWithInstance
  BY DEF RootInv
<1> QED  BY <1>1, RootAlways, PTL

-----------------------------------------------------------------------------
(* Leaks.                                                                  *)

\* Each call of C::prototype in progress, but the first while there is no
\* prototype yet, may still replace a prototype and leave its protection.
LeakInv ==
  Total(Balances) + making <= reentered + One(prototype = NoCell /\ making > 0)

LEMMA BalancesTyped ==
  ASSUME RootInv
  PROVE  /\ Balances \in [Cells -> Int]
         /\ \A c \in Cells : Balances[c] = Balance(c) /\ Balances'[c] = Balance(c)'
         /\ Total(Balances) \in Int
<1>1. Balances \in [Cells -> Int]
  BY CellFacts DEF Balances
<1>2. \A c \in Cells : Balances[c] = Balance(c) /\ Balances'[c] = Balance(c)'
  BY DEF Balances
<1>3. Total(Balances) \in Int
  BY <1>1, TotalInt
<1> QED  BY <1>1, <1>2, <1>3

\* A step that leaves the balances and the calls of C::prototype alone.
LEMMA EvenLeaks ==
  ASSUME RootInv, LeakInv, Even, UNCHANGED classVars
  PROVE  LeakInv'
<1>1. Balances' = Balances
  BY DEF Even, Balances
<1> QED  BY <1>1 DEF LeakInv, classVars

LEMMA PrototypeLeaks ==
  ASSUME RootInv, LeakInv,
         \/ CachedPrototype \/ BeginPrototype \/ EndNoPrototype
         \/ \E c \in Cells : EndPrototype(c)
  PROVE  LeakInv'
<1>1. making \in Nat /\ reentered \in Nat /\ Total(Balances) \in Int
  BY BalancesTyped, Bounds DEF RootInv, TypeOK
<1>2. CASE CachedPrototype
  BY <1>2, PrototypeStep, EvenLeaks DEF CachedPrototype
<1>3. CASE BeginPrototype \/ EndNoPrototype
  <2>1. Balances' = Balances
    BY <1>3, PrototypeStep DEF Even, Balances
  <2>2. CASE BeginPrototype
    BY <1>1, <2>1, <2>2 DEF BeginPrototype, LeakInv, One
  <2>3. CASE EndNoPrototype
    BY <1>1, <2>1, <2>3 DEF EndNoPrototype, LeakInv, One
  <2> QED  BY <1>3, <2>2, <2>3
<1>4. ASSUME NEW c \in Cells, EndPrototype(c) PROVE LeakInv'
  <2>1. /\ \A d \in Cells : Balance(d)' = Balance(d) + (IF d = prototype THEN 1 ELSE 0)
        /\ RootInv' /\ c # NoCell /\ prototype \in Cells \cup {NoCell}
    BY <1>4, EndPrototypeStep, Bounds DEF RootInv, TypeOK
  <2>2. Balances \in [Cells -> Int] /\ Balances' \in [Cells -> Int]
    BY <2>1, CellFacts, BalancesTyped DEF Balances
  <2>3. CASE prototype = NoCell
    <3>1. Balances' = Balances
      BY <2>1, <2>3, CellFacts, Bounds DEF Balances
    <3> QED  BY <1>1, <1>4, <2>1, <2>3, <3>1 DEF EndPrototype, LeakInv, One
  <2>4. CASE prototype \in Cells
    <3>1. \A d \in Cells : IF d = prototype THEN Balances'[d] = Balances[d] + 1
                            ELSE Balances'[d] = Balances[d]
      BY <2>1, BalancesTyped, CellFacts
    <3>2. Total(Balances') = Total(Balances) + 1
      <4> DEFINE one == 1
                 f == Balances
                 h == Balances'
      <4>1. /\ f \in [Cells -> Int] /\ h \in [Cells -> Int] /\ one \in Int
            /\ More(f, h, prototype, one)
        BY <2>2, <3>1 DEF More
      <4> HIDE DEF one, f, h
      <4>2. Total(h) = Total(f) + one
        BY <2>4, <4>1, TotalChanges
      <4> QED  BY <4>2 DEF one, f, h
    <3>3. prototype # NoCell
      BY <2>4, Bounds
    <3> QED  BY <1>1, <1>4, <2>1, <3>2, <3>3 DEF EndPrototype, LeakInv, One
  <2> QED  BY <2>1, <2>3, <2>4
<1> QED  BY <1>2, <1>3, <1>4

LEMMA LeakStep ==
  RootInv /\ LeakInv /\ [Next]_vars => LeakInv'
<1> SUFFICES ASSUME RootInv, LeakInv, [Next]_vars PROVE LeakInv'
  OBVIOUS
<1>1. CASE UNCHANGED vars
  BY <1>1, RootStutter, EvenLeaks DEF vars
<1>2. CASE Js
  BY <1>2, ReachStep, CollectStep, EvenLeaks DEF Js, JsAllocate, JsForget, Collect
<1>3. CASE \/ Catch \/ Helper
           \/ \E k \in Keys : Intern(k)
           \/ \E c \in Cells, x \in Cells \cup {NoCell} : MakeInstance(c, x)
           \/ \E c \in Cells : Give(c) \/ Throw(c) \/ MakeFunction(c)
  BY <1>3, ReachStep, ThrowStep, CatchStep, InternStep, HelperStep, MakeFunctionStep,
     MakeInstanceStep, EvenLeaks
    DEF Give, Throw, Catch, Intern, Helper, MakeFunction, MakeInstance
<1>4. CASE \E c \in Cells :
             \/ FromRaw(c) \/ CloneValue(c) \/ DropValue(c) \/ Save(c)
             \/ ClonePersistent(c) \/ DropPersistent(c) \/ Restore(c)
  BY <1>4, HandleStep, EvenLeaks
    DEF FromRaw, CloneValue, DropValue, Save, ClonePersistent, DropPersistent, Restore
<1>5. CASE \/ CachedPrototype \/ BeginPrototype \/ EndNoPrototype
           \/ \E c \in Cells : EndPrototype(c)
  BY <1>5, PrototypeLeaks
<1> QED  BY <1>1, <1>2, <1>3, <1>4, <1>5 DEF Next, Host

LEMMA LeakInit ==
  Init => LeakInv
<1> SUFFICES ASSUME Init PROVE LeakInv
  OBVIOUS
<1>1. RootInv /\ \A c \in Cells : Balance(c) = 0
  BY RootInit, BalanceInit
<1>2. Total(Balances) = 0
  BY <1>1, BalancesTyped, TotalZero
<1> QED  BY <1>2 DEF Init, LeakInv, One

\* value.rs, class.rs and runtime.rs: each protection is given back by exactly one
\* owner, however handles are cloned, saved, restored, thrown, caught and
\* finalized; only a C::prototype that asks for its own class's prototype leaks,
\* one protection for each such call.
THEOREM BalancedProtections ==
  Spec => []NothingElseLeaks
<1>1. RootInv /\ LeakInv => NothingElseLeaks
  <2> SUFFICES ASSUME RootInv, LeakInv PROVE NothingElseLeaks
    OBVIOUS
  <2>1. \A c \in Cells : protects[c] >= Owners(c)
    BY CellFacts, Counts DEF RootInv, Balance
  <2>2. MapThenSumSet(LAMBDA c : protects[c] - Owners(c), Cells) = Total(Balances)
    BY BalancesTyped, SumIsTotal DEF Balance
  <2>3. Total(Balances) <= reentered
    BY BalancesTyped, Bounds DEF RootInv, TypeOK, LeakInv, One
  <2> QED  BY <2>1, <2>2, <2>3 DEF NothingElseLeaks
<1>2. Spec => [](RootInv /\ LeakInv)
  BY RootInit, RootStep, LeakInit, LeakStep, PTL DEF Spec
<1> QED  BY <1>1, <1>2, PTL
=============================================================================
