--------------------------------- MODULE Facts ---------------------------------
(***************************************************************************)
(* Lemmas that the proofs share: what appending, joining and taking the    *)
(* head do to the elements of a sequence and to their being distinct; the  *)
(* smallest of a set of numbers; recursion on them; powers of two.         *)
(***************************************************************************)
EXTENDS Integers, SequencesExt, FiniteSetTheorems, FunctionTheorems, NaturalsInduction, TLAPS

\* The elements of a vector of futures are futures.
LEMMA ElemsTyped ==
  ASSUME NEW S, NEW s \in Seq(S)
  PROVE  ToSet(s) \subseteq S
BY DEF ToSet

\* A queue is the function of its entries.
LEMMA SeqIsFunction ==
  ASSUME NEW S, NEW s \in Seq(S)
  PROVE  s = [i \in DOMAIN s |-> s[i]]
OBVIOUS

\* An element appended to a sequence, as Executor::spawn does.
LEMMA AppendElems ==
  ASSUME NEW S, NEW s \in Seq(S), NEW e \in S
  PROVE  /\ ToSet(Append(s, e)) = ToSet(s) \cup {e}
         /\ IsInjective(s) /\ e \notin ToSet(s) => IsInjective(Append(s, e))
<1>1. /\ DOMAIN Append(s, e) = DOMAIN s \cup {Len(s) + 1}
      /\ Append(s, e)[Len(s) + 1] = e /\ Len(s) + 1 \notin DOMAIN s
      /\ \A i \in DOMAIN s : Append(s, e)[i] = s[i]
  OBVIOUS
<1>2. ToSet(Append(s, e)) = ToSet(s) \cup {e}
  BY <1>1, Zenon DEF ToSet
<1>3. ASSUME IsInjective(s), e \notin ToSet(s)
      PROVE  IsInjective(Append(s, e))
  BY <1>1, <1>3, Zenon DEF ToSet, IsInjective
<1> QED  BY <1>2, <1>3

\* Two vectors joined, as poll_all does before and after polling.
LEMMA ConcatElems ==
  ASSUME NEW S, NEW s \in Seq(S), NEW t \in Seq(S)
  PROVE  /\ ToSet(s \o t) = ToSet(s) \cup ToSet(t)
         /\ IsInjective(s) /\ IsInjective(t) /\ ToSet(s) \cap ToSet(t) = {}
              => IsInjective(s \o t)
         /\ IsInjective(s \o t) => /\ IsInjective(s) /\ IsInjective(t)
                                /\ ToSet(s) \cap ToSet(t) = {}
<1>1. \A i \in DOMAIN s : (s \o t)[i] = s[i] /\ i \in DOMAIN (s \o t)
  OBVIOUS
<1>2. \A i \in DOMAIN t : /\ (s \o t)[Len(s) + i] = t[i]
                          /\ Len(s) + i \in DOMAIN (s \o t)
  OBVIOUS
<1>3. \A k \in DOMAIN (s \o t) : 
        \/ k \in DOMAIN s
        \/ k - Len(s) \in DOMAIN t /\ k = Len(s) + (k - Len(s))
  OBVIOUS
<1>4. ToSet(s \o t) = ToSet(s) \cup ToSet(t)
  <2>1. ToSet(s) \cup ToSet(t) \subseteq ToSet(s \o t)
    BY <1>1, <1>2, Zenon DEF ToSet
  <2>2. ASSUME NEW k \in DOMAIN (s \o t)
        PROVE  (s \o t)[k] \in ToSet(s) \cup ToSet(t)
    <3>1. CASE k \in DOMAIN s
      BY <3>1, <1>1 DEF ToSet
    <3>2. CASE k - Len(s) \in DOMAIN t /\ k = Len(s) + (k - Len(s))
      <4>1. (s \o t)[k] = t[k - Len(s)]
        BY <3>2, <1>2, Zenon
      <4> QED  BY <4>1, <3>2, Zenon DEF ToSet
    <3> QED  BY <3>1, <3>2, <1>3
  <2> QED  BY <2>1, <2>2, Zenon DEF ToSet
<1>5. ASSUME IsInjective(s), IsInjective(t), ToSet(s) \cap ToSet(t) = {}
      PROVE  IsInjective(s \o t)
  <2> SUFFICES ASSUME NEW i \in DOMAIN (s \o t), NEW j \in DOMAIN (s \o t),
                      (s \o t)[i] = (s \o t)[j]
               PROVE  i = j
    BY DEF IsInjective
  <2>1. CASE i \in DOMAIN s /\ j \in DOMAIN s
    BY <2>1, <1>1, <1>5 DEF IsInjective
  <2>2. CASE i \notin DOMAIN s /\ j \notin DOMAIN s
    <3>1. t[i - Len(s)] = t[j - Len(s)]
      BY <2>2, <1>2, <1>3
    <3> QED  BY <3>1, <2>2, <1>3, <1>5 DEF IsInjective
  <2>3. CASE i \in DOMAIN s /\ j \notin DOMAIN s
    <3>1. s[i] = t[j - Len(s)] /\ j - Len(s) \in DOMAIN t
      BY <2>3, <1>1, <1>2, <1>3
    <3> QED  BY <3>1, <2>3, <1>5, Zenon DEF ToSet
  <2>4. CASE i \notin DOMAIN s /\ j \in DOMAIN s
    <3>1. s[j] = t[i - Len(s)] /\ i - Len(s) \in DOMAIN t
      BY <2>4, <1>1, <1>2, <1>3
    <3> QED  BY <3>1, <2>4, <1>5, Zenon DEF ToSet
  <2> QED  BY <2>1, <2>2, <2>3, <2>4
<1>6. ASSUME IsInjective(s \o t)
      PROVE  IsInjective(s) /\ IsInjective(t) /\ ToSet(s) \cap ToSet(t) = {}
  <2>1. IsInjective(s)
    BY <1>1, <1>6 DEF IsInjective
  <2>2. IsInjective(t)
    <3> SUFFICES ASSUME NEW i \in DOMAIN t, NEW j \in DOMAIN t, t[i] = t[j]
                 PROVE  i = j
      BY DEF IsInjective
    <3>1. Len(s) + i = Len(s) + j
      BY <1>2, <1>6 DEF IsInjective
    <3> QED  BY <3>1
  <2>3. ASSUME NEW i \in DOMAIN s, NEW j \in DOMAIN t, s[i] = t[j]
        PROVE  FALSE
    <3>1. i = Len(s) + j
      BY <2>3, <1>1, <1>2, <1>6 DEF IsInjective
    <3> QED  BY <3>1
  <2> QED  BY <2>1, <2>2, <2>3 DEF ToSet
<1> QED  BY <1>4, <1>5, <1>6

\* The head of a vector polled and removed.
LEMMA TailElems ==
  ASSUME NEW S, NEW s \in Seq(S), s # <<>>
  PROVE  /\ Head(s) \in S /\ Head(s) \in ToSet(s)
         /\ ToSet(s) = {Head(s)} \cup ToSet(Tail(s))
         /\ IsInjective(s) => IsInjective(Tail(s)) /\ Head(s) \notin ToSet(Tail(s))
<1>1. /\ Tail(s) \in Seq(S) /\ Len(Tail(s)) = Len(s) - 1 /\ Head(s) = s[1]
      /\ \A i \in DOMAIN Tail(s) : Tail(s)[i] = s[i + 1] /\ i + 1 \in DOMAIN s
      /\ 1 \in DOMAIN s /\ \A i \in DOMAIN s : i = 1 \/ i - 1 \in DOMAIN Tail(s)
  OBVIOUS
<1>2. ToSet(s) = {Head(s)} \cup ToSet(Tail(s))
  BY <1>1 DEF ToSet
<1>3. ASSUME IsInjective(s)
      PROVE  IsInjective(Tail(s)) /\ Head(s) \notin ToSet(Tail(s))
  BY <1>1, <1>3 DEF IsInjective, ToSet
<1> QED  BY <1>1, <1>2, <1>3 DEF ToSet

\* The head of one vector moved to the end of another before it.
LEMMA MoveHead ==
  ASSUME NEW S, NEW k \in Seq(S), NEW t \in Seq(S), t # <<>>
  PROVE  Append(k, Head(t)) \o Tail(t) = k \o t
  OBVIOUS

\* A stack without its last frame.
LEMMA FrontFacts ==
  ASSUME NEW S, NEW s \in Seq(S), s # <<>>
  PROVE  /\ Len(s) \in Nat \ {0} /\ DOMAIN s = 1..Len(s)
         /\ Last(s) = s[Len(s)] /\ Last(s) \in S
         /\ Front(s) \in Seq(S) /\ Len(Front(s)) = Len(s) - 1
         /\ DOMAIN Front(s) = 1..(Len(s) - 1)
         /\ \A i \in DOMAIN Front(s) : Front(s)[i] = s[i]
<1>1. Len(s) \in Nat \ {0} /\ DOMAIN s = 1..Len(s) /\ s[Len(s)] \in S
  OBVIOUS
<1>2. /\ SubSeq(s, 1, Len(s) - 1) \in Seq(S)
      /\ Len(SubSeq(s, 1, Len(s) - 1)) = Len(s) - 1
      /\ \A i \in 1..(Len(s) - 1) : SubSeq(s, 1, Len(s) - 1)[i] = s[i]
  BY <1>1
<1> QED  BY <1>1, <1>2 DEF Last, Front

-----------------------------------------------------------------------------
(* The natural numbers.                                                    *)

\* A set of numbers has a smallest one: induction is a smallest counterexample
\* and a contradiction.
LEMMA SmallestNat ==
  ASSUME NEW B, B \subseteq Nat, B # {}
  PROVE  \E n \in B : \A m \in B : n <= m
<1>1. PICK n \in B : \A m \in B : ~ (<<m, n>> \in OpToRel(<, Nat))
  BY NatLessThanWellFounded, WFMin
<1>2. \A m \in B : ~ (m < n)
  BY <1>1 DEF OpToRel
<1> QED  BY <1>2

-----------------------------------------------------------------------------
(* Recursion on the natural numbers.                                       *)

\* A function that is defined from its value at n - 1.
Recurs(N, Y, base, step, f) ==
  /\ f \in [0..N -> Y]
  /\ \A n \in 0..N : f[n] = IF n = 0 THEN base ELSE step[<<n, f[n - 1]>>]

LEMMA RecursionExists ==
  ASSUME NEW N \in Nat, NEW Y, NEW base \in Y, NEW step \in [(1..N) \X Y -> Y]
  PROVE  \E f : Recurs(N, Y, base, step, f)
<1> DEFINE F == [0..N -> Y]
           At(f, n) == f[n] = IF n = 0 THEN base ELSE step[<<n, f[n - 1]>>]
           UpTo(f, n) == \A m \in 0..n : At(f, m)
           B == {n \in 0..N : ~ \E f \in F : UpTo(f, n)}
<1>1. B = {}
  <2>1. SUFFICES ASSUME B # {} PROVE FALSE
    OBVIOUS
  <2>2. PICK n \in B : \A m \in B : n <= m
    <3>1. B \subseteq Nat
      OBVIOUS
    <3> HIDE DEF B
    <3> QED  BY <2>1, <3>1, SmallestNat
  <2>3. n \in 0..N /\ ~ \E f \in F : UpTo(f, n)
    OBVIOUS
  <2>4. n # 0
    <3> DEFINE z == [k \in 0..N |-> base]
    <3>1. z \in F /\ z[0] = base
      OBVIOUS
    <3> HIDE DEF z
    <3>2. UpTo(z, 0)
      BY <3>1
    <3> HIDE DEF UpTo, F
    <3> QED  BY <2>3, <3>1, <3>2
  <2>5. n - 1 \in 0..N /\ n - 1 \notin B
    <3>1. n - 1 \in 0..N /\ ~ (n <= n - 1)
      BY <2>3, <2>4
    <3> HIDE DEF B
    <3> QED  BY <2>2, <3>1
  <2>6. PICK f \in F : UpTo(f, n - 1)
    BY <2>5
  <2> DEFINE x == step[<<n, f[n - 1]>>]
             g == [f EXCEPT ![n] = x]
  <2>7. x \in Y
    <3>1. n \in 1..N /\ f[n - 1] \in Y
      BY <2>3, <2>4, <2>5
    <3> QED  BY <3>1
  <2>8. g \in F /\ g[n] = x /\ \A m \in 0..(n - 1) : g[m] = f[m]
    <3> HIDE DEF x
    <3> QED  BY <2>3, <2>7
  <2>9. ASSUME NEW m \in 0..n PROVE At(g, m)
    <3>1. CASE m = n
      <4>1. g[n - 1] = f[n - 1]
        BY <2>3, <2>4, <2>8
      <4> HIDE DEF g
      <4> QED  BY <2>4, <2>8, <3>1, <4>1
    <3>2. CASE m # n
      <4>1. m \in 0..(n - 1) /\ (m # 0 => m - 1 \in 0..(n - 1))
        BY <2>3, <3>2
      <4>2. At(f, m)
        BY <2>6, <4>1
      <4>3. g[m] = f[m] /\ (m # 0 => g[m - 1] = f[m - 1])
        BY <2>8, <4>1
      <4> HIDE DEF g
      <4> QED  BY <4>2, <4>3
    <3> QED  BY <3>1, <3>2
  <2>10. UpTo(g, n)
    <3> HIDE DEF g, At
    <3> QED  BY <2>9
  <2> HIDE DEF g, UpTo, F
  <2> QED  BY <2>3, <2>8, <2>10
<1>2. PICK f \in F : UpTo(f, N)
  <2>1. N \in 0..N /\ N \notin B
    <3> HIDE DEF B
    <3> QED  BY <1>1
  <2> HIDE DEF UpTo, F
  <2> QED  BY <2>1
<1>3. \A n \in 0..N : f[n] = IF n = 0 THEN base ELSE step[<<n, f[n - 1]>>]
  BY <1>2
<1> HIDE DEF UpTo
<1> QED  BY <1>3 DEF Recurs

-----------------------------------------------------------------------------
(* Powers of two: the sizes of the sets of subsets.                        *)

LEMMA PowerIsCount ==
  ASSUME NEW n \in Nat
  PROVE  /\ IsFiniteSet(SUBSET (1..n))
         /\ Cardinality(SUBSET (1..n)) = 2^n
<1>1. IsFiniteSet(1..n) /\ Cardinality(1..n) = n
  BY FS_Interval
<1> QED  BY <1>1, FS_SUBSET

LEMMA PowerTyped ==
  ASSUME NEW n \in Nat
  PROVE  2^n \in Nat \ {0}
<1>1. Cardinality(SUBSET (1..n)) \in Nat
  BY PowerIsCount, FS_CardinalityType
<1>2. SUBSET (1..n) # {}
  BY {} \in SUBSET (1..n)
<1>3. Cardinality(SUBSET (1..n)) # 0
  BY <1>2, PowerIsCount, FS_EmptySet
<1> QED  BY <1>1, <1>3, PowerIsCount

\* Half of the subsets of 1..(n + 1) hold n + 1.
LEMMA NextPower ==
  ASSUME NEW n \in Nat
  PROVE  2^(n + 1) = 2 * 2^n
<1> DEFINE x == n + 1
           B == SUBSET (1..n)
           C == {s \cup {x} : s \in B}
           f == [s \in B |-> s \cup {x}]
<1>1. \A s \in B : x \notin s
  OBVIOUS
<1>2. f \in Bijection(B, C)
  <2>1. f \in [B -> C]
    OBVIOUS
  <2>2. \A s, t \in B : f[s] = f[t] => s = t
    BY <1>1
  <2>3. \A c \in C : \E s \in B : f[s] = c
    OBVIOUS
  <2> QED  BY <2>1, <2>2, <2>3, Fun_IsBij
<1>3. IsFiniteSet(C) /\ Cardinality(C) = Cardinality(B)
  <2>1. ExistsBijection(B, C)
    BY <1>2 DEF ExistsBijection
  <2> QED  BY <2>1, PowerIsCount, FS_Bijection
<1>4. B \cap C = {}
  BY <1>1
<1>5. B \cup C = SUBSET (1..x)
  <2>1. 1..x = (1..n) \cup {x}
    OBVIOUS
  <2>2. ASSUME NEW s \in SUBSET (1..x), x \in s PROVE s \in C
    <3>1. s \ {x} \in B
      BY <2>1
    <3>2. s = (s \ {x}) \cup {x}
      BY <2>2
    <3> QED  BY <3>1, <3>2
  <2>3. ASSUME NEW s \in SUBSET (1..x), x \notin s PROVE s \in B
    BY <2>1, <2>3
  <2>4. B \cup C \subseteq SUBSET (1..x)
    BY <2>1
  <2> QED  BY <2>2, <2>3, <2>4
<1>6. Cardinality(B \cup C) = Cardinality(B) + Cardinality(C) - Cardinality(B \cap C)
  <2>1. IsFiniteSet(B)
    BY PowerIsCount
  <2> HIDE DEF B, C
  <2> QED  BY <1>3, <2>1, FS_Union
<1>7. Cardinality(B) = 2^n /\ Cardinality(SUBSET (1..x)) = 2^x /\ 2^n \in Nat
  BY PowerIsCount, PowerTyped, x \in Nat
<1>8. Cardinality(B \cap C) = 0
  BY <1>4, FS_EmptySet
<1> HIDE DEF B, C, f
<1>9. 2^x = Cardinality(B) + Cardinality(C) - 0
  BY <1>5, <1>6, <1>7, <1>8
<1>10. 2^x = 2 * 2^n
  BY <1>3, <1>7, <1>9
<1> QED  BY <1>10

LEMMA PowerOfSum ==
  ASSUME NEW a \in Nat, NEW b \in Nat
  PROVE  2^(a + b) = 2^a * 2^b
<1> DEFINE B == {k \in Nat : 2^(a + k) # 2^a * 2^k}
<1>1. SUFFICES ASSUME B # {} PROVE FALSE
  OBVIOUS
<1>2. PICK k \in B : \A m \in B : k <= m
  BY <1>1, SmallestNat
<1>3. k \in Nat /\ 2^(a + k) # 2^a * 2^k
  OBVIOUS
<1>4. k # 0
  <2>1. 2^0 = 1 /\ a + 0 = a
    OBVIOUS
  <2>2. 2^a \in Nat
    BY PowerTyped
  <2>3. 2^a * 1 = 2^a
    BY <2>2
  <2>4. 2^(a + 0) = 2^a * 2^0
    BY <2>1, <2>3
  <2> QED  BY <1>3, <2>4
<1>5. k - 1 \in Nat /\ k - 1 \notin B
  BY <1>2, <1>3, <1>4
<1>6. 2^(a + (k - 1)) = 2^a * 2^(k - 1)
  BY <1>5
<1>7. 2^((a + (k - 1)) + 1) = 2 * 2^(a + (k - 1))
  BY <1>5, NextPower, a + (k - 1) \in Nat
<1>8. 2^((k - 1) + 1) = 2 * 2^(k - 1)
  BY <1>5, NextPower
<1>9. (a + (k - 1)) + 1 = a + k /\ (k - 1) + 1 = k
  BY <1>3
<1>10. 2^(k - 1) \in Nat /\ 2^a \in Nat
  BY <1>5, PowerTyped
<1>11. 2 * (2^a * 2^(k - 1)) = 2^a * (2 * 2^(k - 1))
  BY <1>10
<1> QED  BY <1>3, <1>6, <1>7, <1>8, <1>9, <1>11

LEMMA PowersDivide ==
  ASSUME NEW a \in Nat, NEW b \in Nat, a <= b
  PROVE  /\ 2^b = 2^(b - a) * 2^a
         /\ 2^a <= 2^b
<1>1. b - a \in Nat /\ b = (b - a) + a
  OBVIOUS
<1>2. 2^b = 2^(b - a) * 2^a
  BY <1>1, PowerOfSum
<1>3. 2^(b - a) \in Nat \ {0} /\ 2^a \in Nat \ {0}
  BY <1>1, PowerTyped
<1>4. \A p, q \in Nat \ {0} : q <= p * q
  OBVIOUS
<1> QED  BY <1>2, <1>3, <1>4
=============================================================================
