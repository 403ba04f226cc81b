------------------------------ MODULE ModulesProofs ------------------------------
(***************************************************************************)
(* Proofs about Modules, for any names, resolvers and loaders: what the    *)
(* registry refers to stays protected, what it lets go of is unprotected   *)
(* once, and what Bun has loaded is what is declared now.                  *)
(*                                                                         *)
(* The first two follow from how the registry changes alone (RegistryInv). *)
(* The last does not: an import that waits for the definition it evaluates *)
(* delivers it whatever the callback did meanwhile, so the invariant       *)
(* (LoadOK) says which waiting import Bun's entry of a name belongs to.    *)
(***************************************************************************)
EXTENDS Modules, Facts, FiniteSetTheorems, WellFoundedInduction, TLAPS

LEMMA Bounds ==
  /\ MaxDeclares \in Nat /\ MaxImports \in Nat /\ MaxEvals \in Nat
  /\ NoName \notin Names
BY ModulesAssumption

-----------------------------------------------------------------------------
(* What the registry refers to.                                            *)

RegistryTyped ==
  /\ entries \in [Names -> Entry] /\ installed \in BOOLEAN
  /\ protects \in [Values -> Nat] /\ declared \in 0..MaxDeclares
  /\ evals \in Seq(1..MaxDeclares) /\ Len(evals) <= MaxEvals
  /\ late \in Seq(Names)

Named ==
  \A n \in Names : /\ Registered(n) => entries[n].version # 0
                   /\ entries[n].kind = "exports" <=> entries[n].exports # 0

\* No two entries refer to the same value.
Apart == \A m, n \in Names : m # n => Owned(entries[m]) \cap Owned(entries[n]) = {}

Balanced == \A v \in Values : protects[v] \in {0, 1}

\* The values of declarations and evaluations to come are not protected yet.
Unused ==
  /\ \A w \in 1..MaxDeclares : w > declared => protects[Meta(w)] = 0
  /\ \A k \in 1..MaxEvals : k > Len(evals) => protects[Object(k)] = 0

Leaks ==
  /\ Leaked \subseteq {Object(k) : k \in DOMAIN evals}
  /\ Cardinality(Leaked) <= Len(late)

RegistryInv ==
  /\ RegistryTyped /\ Named /\ Apart /\ Balanced /\ Unused
  /\ ProtectedWhileRegistered /\ Leaks

LEMMA OwnedValues ==
  ASSUME RegistryInv, NEW n \in Names
  PROVE  Owned(entries[n]) \subseteq Values
<1>1. /\ entries[n] \in Entry
      /\ entries[n].kind # "none" => entries[n].version \in 1..MaxDeclares
      /\ entries[n].kind = "exports" => entries[n].exports \in 1..MaxEvals
  BY Bounds DEF RegistryInv, RegistryTyped, Named, Registered, Entry
<1> QED  BY <1>1 DEF Owned, Values

LEMMA ValuesFinite == IsFiniteSet(Values)
<1>1. /\ IsFiniteSet({Meta(v) : v \in 1..MaxDeclares})
      /\ IsFiniteSet({Object(k) : k \in 1..MaxEvals})
  <2>1. IsFiniteSet(1..MaxDeclares) /\ IsFiniteSet(1..MaxEvals)
    BY Bounds, FS_Interval
  <2>2. ASSUME NEW S, IsFiniteSet(S)
        PROVE  IsFiniteSet({Meta(v) : v \in S}) /\ IsFiniteSet({Object(v) : v \in S})
    <3>1. [v \in S |-> Meta(v)] \in Surjection(S, {Meta(v) : v \in S})
      BY DEF Surjection
    <3>2. [v \in S |-> Object(v)] \in Surjection(S, {Object(v) : v \in S})
      BY DEF Surjection
    <3> QED  BY <2>2, <3>1, <3>2, FS_Surjection
  <2> QED  BY <2>1, <2>2
<1> QED  BY <1>1, FS_Union DEF Values

\* One entry lets go of some values and takes others.
LEMMA Rebalance ==
  ASSUME RegistryInv, NEW n \in Names, NEW lost, NEW won,
         lost \subseteq Owned(entries[n]), won \subseteq Values,
         \A v \in won : protects[v] = 0,
         protects' = Rebalanced(lost, won),
         \A m \in Names \ {n} : entries'[m] = entries[m],
         Owned(entries'[n]) \subseteq (Owned(entries[n]) \ lost) \cup won
  PROVE  /\ protects' \in [Values -> {0, 1}]
         /\ Apart' /\ Balanced' /\ ProtectedWhileRegistered'
         /\ Leaked' \subseteq
              Leaked \cup (((Owned(entries[n]) \ lost) \cup won) \ Owned(entries'[n]))
         /\ \A v \in Values \ won : protects[v] = 0 => protects'[v] = 0
<1> DEFINE H(m) == Owned(entries[m])
           G(m) == Owned(entries'[m])
<1>1. /\ \A m \in Names : H(m) \subseteq Values /\ \A v \in H(m) : protects[v] = 1
      /\ \A v \in Values : protects[v] \in {0, 1}
      /\ \A m, k \in Names : m # k => H(m) \cap H(k) = {}
  BY OwnedValues DEF RegistryInv, Balanced, ProtectedWhileRegistered, Apart
<1>2. /\ \A m \in Names \ {n} : G(m) = H(m)
      /\ G(n) \subseteq (H(n) \ lost) \cup won
      /\ lost \subseteq H(n)
  OBVIOUS
<1>3. \A v \in Values :
        /\ v \in won => protects'[v] = 1
        /\ v \in lost => protects'[v] = 0
        /\ v \notin won /\ v \notin lost => protects'[v] = protects[v]
  BY <1>1, <1>2 DEF Rebalanced
<1>4. protects' = [v \in Values |-> protects'[v]]
  BY DEF Rebalanced
<1>5. Apart' <=> \A m, k \in Names : m # k => G(m) \cap G(k) = {}
  BY DEF Apart, Owned
<1>6. ProtectedWhileRegistered' <=> \A m \in Names : \A v \in G(m) : protects'[v] >= 1
  BY DEF ProtectedWhileRegistered, Owned
<1>7. /\ Leaked = {v \in Values : protects[v] > 0 /\ \A m \in Names : v \notin H(m)}
      /\ Leaked' = {v \in Values : protects'[v] > 0 /\ \A m \in Names : v \notin G(m)}
  BY DEF Leaked, Owned
<1> HIDE DEF H, G
<1>8. Apart'
  <2>1. ASSUME NEW m \in Names, m # n PROVE H(m) \cap won = {}
    BY <1>1, <2>1
  <2> QED  BY <1>1, <1>2, <1>5, <2>1
<1>9. protects' \in [Values -> {0, 1}] /\ Balanced'
  BY <1>1, <1>2, <1>3, <1>4 DEF Balanced
<1>10. ProtectedWhileRegistered'
  <2>1. ASSUME NEW m \in Names, NEW v \in G(m) PROVE protects'[v] = 1
    <3>1. CASE m # n
      BY <1>1, <1>2, <1>3, <2>1, <3>1
    <3>2. CASE m = n
      BY <1>1, <1>2, <1>3, <2>1, <3>2
    <3> QED  BY <3>1, <3>2
  <2> QED  BY <1>6, <2>1
<1>11. Leaked' \subseteq Leaked \cup (((H(n) \ lost) \cup won) \ G(n))
  BY <1>1, <1>2, <1>3, <1>7
<1>12. \A v \in Values \ won : protects[v] = 0 => protects'[v] = 0
  BY <1>1, <1>2, <1>3
<1> QED  BY <1>8, <1>9, <1>10, <1>11, <1>12 DEF H, G

-----------------------------------------------------------------------------
(* Steps of the registry.                                                  *)

\* Imports, and what they leave alone.
LEMMA RegistryKept ==
  ASSUME RegistryInv, UNCHANGED <<entries, protects, declared, evals, late>>,
         installed' \in BOOLEAN
  PROVE  RegistryInv'
<1>1. RegistryTyped' /\ Balanced' /\ Unused'
  BY DEF RegistryInv, RegistryTyped, Balanced, Unused
<1>2. Named'
  BY DEF RegistryInv, Named, Registered
<1>3. Apart' /\ ProtectedWhileRegistered'
  <2>1. \A n \in Names : Owned(entries'[n]) = Owned(entries[n])
    OBVIOUS
  <2> QED  BY <2>1 DEF RegistryInv, Apart, ProtectedWhileRegistered
<1>4. Leaks'
  <2>1. Leaked' = Leaked
    BY DEF Leaked
  <2> QED  BY <2>1 DEF RegistryInv, Leaks
<1> QED  BY <1>1, <1>2, <1>3, <1>4 DEF RegistryInv

\* Leaks, when nothing new is.
LEMMA NoMoreLeaks ==
  ASSUME RegistryInv, Leaked' \subseteq Leaked, UNCHANGED <<evals, late>>
  PROVE  Leaks'
<1>1. IsFiniteSet(Leaked)
  BY ValuesFinite, FS_Subset DEF Leaked
<1>2. /\ Cardinality(Leaked') <= Cardinality(Leaked)
      /\ Cardinality(Leaked) \in Nat /\ Cardinality(Leaked') \in Nat
  BY <1>1, FS_Subset, FS_CardinalityType
<1>3. Len(late) \in Nat
  BY DEF RegistryInv, RegistryTyped
<1> QED  BY <1>2, <1>3 DEF Leaks, RegistryInv

LEMMA RegisterStep ==
  ASSUME RegistryInv, NEW n \in Names, NEW kind \in Kinds, Register(n, kind),
         UNCHANGED <<installed, evals, late>>
  PROVE  RegistryInv'
<1> DEFINE won == {Meta(declared + 1)}
           new == [kind |-> kind, exports |-> 0, version |-> declared + 1]
<1>1. /\ declared' = declared + 1 /\ declared + 1 \in 1..MaxDeclares
      /\ entries' = [entries EXCEPT ![n] = new]
      /\ protects' = Rebalanced(Owned(entries[n]), won)
      /\ RegistryTyped /\ Named /\ Unused
  BY Bounds DEF Register, RegistryInv, RegistryTyped
<1>2. /\ entries'[n] = new /\ \A m \in Names \ {n} : entries'[m] = entries[m]
      /\ new \in Entry
  BY <1>1, Bounds DEF RegistryTyped, Entry
<1>3. Owned(new) = won
  BY DEF Owned, Kinds
<1>4. won \subseteq Values /\ \A v \in won : protects[v] = 0
  <2>1. Meta(declared + 1) \in Values
    BY <1>1 DEF Values
  <2>2. declared \in Nat
    BY <1>1 DEF RegistryTyped
  <2> QED  BY <1>1, <2>1, <2>2 DEF Unused
<1>5. Owned(entries'[n]) \subseteq (Owned(entries[n]) \ Owned(entries[n])) \cup won
  BY <1>2, <1>3
<1>6. /\ protects' \in [Values -> {0, 1}]
      /\ Apart' /\ Balanced' /\ ProtectedWhileRegistered'
      /\ Leaked' \subseteq Leaked \cup
           (((Owned(entries[n]) \ Owned(entries[n])) \cup won) \ Owned(entries'[n]))
      /\ \A v \in Values \ won : protects[v] = 0 => protects'[v] = 0
  <2>1. /\ protects' = Rebalanced(Owned(entries[n]), won)
        /\ \A m \in Names \ {n} : entries'[m] = entries[m]
    BY <1>1, <1>2
  <2> HIDE DEF won, new
  <2> QED  BY <1>4, <1>5, <2>1, Rebalance
<1>7. Leaks'
  BY <1>2, <1>3, <1>6, NoMoreLeaks
<1>8. Unused'
  <2>1. /\ \A w \in 1..MaxDeclares : Meta(w) \in Values /\ (Meta(w) \in won <=> w = declared + 1)
        /\ \A k \in 1..MaxEvals : Object(k) \in Values \ won
    BY DEF Values, Meta, Object
  <2>2. declared \in Nat
    BY <1>1 DEF RegistryTyped
  <2> HIDE DEF won
  <2> QED  BY <1>1, <1>6, <2>1, <2>2 DEF Unused
<1>9. RegistryTyped'
  <2>1. entries' \in [Names -> Entry]
    BY <1>1, <1>2 DEF RegistryTyped
  <2>2. protects' \in [Values -> Nat]
    BY <1>6
  <2>3. declared' \in 0..MaxDeclares
    BY <1>1
  <2>4. UNCHANGED <<installed, evals, late>>
    OBVIOUS
  <2> HIDE DEF won, new
  <2> QED  BY <1>1, <2>1, <2>2, <2>3, <2>4 DEF RegistryTyped
<1>10. Named'
  BY <1>1, <1>2 DEF Named, Registered, RegistryTyped, Kinds
<1> QED  BY <1>6, <1>7, <1>8, <1>9, <1>10 DEF RegistryInv

LEMMA EvictStep ==
  ASSUME RegistryInv, NEW n \in Names, Evict(n)
  PROVE  RegistryInv'
<1>1. /\ entries' = [entries EXCEPT ![n] = NoEntry]
      /\ protects' = Rebalanced(Owned(entries[n]), {})
      /\ UNCHANGED <<installed, declared, evals, late>>
      /\ RegistryTyped /\ Named /\ Unused
  BY DEF Evict, Dropped, RegistryInv
<1>2. /\ entries'[n] = NoEntry /\ \A m \in Names \ {n} : entries'[m] = entries[m]
      /\ NoEntry \in Entry
  BY <1>1, Bounds DEF RegistryTyped, Entry, NoEntry
<1>3. Owned(entries'[n]) = {}
  BY <1>2 DEF Owned, NoEntry
<1>4. /\ protects' \in [Values -> {0, 1}]
      /\ Apart' /\ Balanced' /\ ProtectedWhileRegistered'
      /\ Leaked' \subseteq Leaked \cup
           (((Owned(entries[n]) \ Owned(entries[n])) \cup {}) \ Owned(entries'[n]))
      /\ \A v \in Values \ {} : protects[v] = 0 => protects'[v] = 0
  <2>1. Owned(entries'[n]) \subseteq (Owned(entries[n]) \ Owned(entries[n])) \cup {}
    BY <1>3
  <2> QED  BY <1>1, <1>2, <2>1, Rebalance
<1>5. Leaks'
  BY <1>1, <1>4, NoMoreLeaks
<1>6. Unused'
  BY <1>1, <1>4 DEF Unused, Values
<1>7. RegistryTyped'
  BY <1>1, <1>2, <1>4 DEF RegistryTyped
<1>8. Named'
  BY <1>1, <1>2 DEF Named, Registered, RegistryTyped, NoEntry
<1> QED  BY <1>4, <1>5, <1>6, <1>7, <1>8 DEF RegistryInv

\* Of an evaluation, whatever the name's entry is by now; `v' is the version of
\* the definition.
LEMMA EvaluateStep ==
  ASSUME RegistryInv, NEW n \in Names, NEW v \in 1..MaxDeclares,
         Len(evals) < MaxEvals,
         evals' = Append(evals, v), protects' = Rooted(Len(evals) + 1),
         entries' = CacheExports(n, Len(evals) + 1),
         late' = IF entries[n].kind = "def" /\ entries[n].version = v THEN late
                 ELSE Append(late, n),
         UNCHANGED <<installed, declared>>
  PROVE  RegistryInv'
<1> DEFINE k == Len(evals) + 1
           won == {Object(k)}
<1>1. /\ k \in 1..MaxEvals /\ Len(evals) \in Nat
      /\ protects' = Rebalanced({}, won)
      /\ RegistryTyped /\ Named /\ Unused /\ Leaks
  BY Bounds DEF Rooted, RegistryInv, RegistryTyped
<1>2. evals' \in Seq(1..MaxDeclares) /\ Len(evals') = k /\ k > Len(evals)
  <2>1. evals \in Seq(1..MaxDeclares) /\ v \in 1..MaxDeclares
    BY <1>1, Bounds DEF RegistryTyped
  <2> QED  BY <1>1, <2>1
<1> HIDE DEF k
<1>3. won \subseteq Values /\ \A x \in won : protects[x] = 0
  BY <1>1, <1>2 DEF Unused, Values
<1>4. /\ \A m \in Names \ {n} : entries'[m] = entries[m]
      /\ entries' \in [Names -> Entry]
      /\ ~Registered(n) => entries'[n] = entries[n]
      /\ Registered(n) => /\ entries'[n].kind = "exports" /\ entries'[n].exports = k
                          /\ entries'[n].version = entries[n].version
  <2>1. entries \in [Names -> Entry] /\ k \in 0..MaxEvals
    BY <1>1, Bounds DEF RegistryTyped, k
  <2>2. entries' = IF entries[n].kind # "none"
                   THEN [entries EXCEPT ![n].kind = "exports", ![n].exports = k]
                   ELSE entries
    BY DEF CacheExports, Registered, k
  <2>3. [entries[n] EXCEPT !.kind = "exports", !.exports = k] \in Entry
    BY <2>1 DEF Entry
  <2>4. ~Registered(n) => entries' = entries
    BY <2>2 DEF Registered
  <2>5. ASSUME Registered(n)
        PROVE  entries' = [entries EXCEPT ![n] = [entries[n] EXCEPT !.kind = "exports", !.exports = k]]
    BY <2>1, <2>2, <2>5 DEF Registered
  <2>6. ASSUME Registered(n)
        PROVE  /\ entries' \in [Names -> Entry]
               /\ \A m \in Names \ {n} : entries'[m] = entries[m]
               /\ entries'[n] = [entries[n] EXCEPT !.kind = "exports", !.exports = k]
    BY <2>1, <2>3, <2>5, <2>6
  <2>7. entries[n] \in Entry
    BY <2>1
  <2> QED  BY <2>1, <2>4, <2>6, <2>7 DEF Entry
<1>5. /\ ~Registered(n) => Owned(entries[n]) = {} /\ Owned(entries'[n]) = {}
      /\ Registered(n) => /\ Owned(entries'[n]) = {Meta(entries[n].version)} \cup won
                          /\ Meta(entries[n].version) \in Owned(entries[n])
  BY <1>4 DEF Owned, Registered
<1>6. Owned(entries'[n]) \subseteq (Owned(entries[n]) \ {}) \cup won
  BY <1>5
<1>7. /\ protects' \in [Values -> {0, 1}]
      /\ Apart' /\ Balanced' /\ ProtectedWhileRegistered'
      /\ Leaked' \subseteq Leaked \cup
           (((Owned(entries[n]) \ {}) \cup won) \ Owned(entries'[n]))
      /\ \A x \in Values \ won : protects[x] = 0 => protects'[x] = 0
  BY <1>1, <1>3, <1>4, <1>6, Rebalance
<1>8. Leaks'
  <2> DEFINE extra == (Owned(entries[n]) \cup won) \ Owned(entries'[n])
  <2>1. Leaked' \subseteq Leaked \cup extra
    BY <1>7
  <2>2. /\ IsFiniteSet(Leaked) /\ Cardinality(Leaked) \in Nat
    BY ValuesFinite, FS_Subset, FS_CardinalityType DEF Leaked
  <2>3. /\ Cardinality(Leaked) <= Len(late) /\ Len(late) \in Nat
        /\ Leaked \subseteq {Object(j) : j \in DOMAIN evals}
    BY <1>1 DEF Leaks, RegistryTyped
  <2>4. {Object(j) : j \in DOMAIN evals'} = {Object(j) : j \in DOMAIN evals} \cup won
    <3>1. DOMAIN evals' = DOMAIN evals \cup {k}
      BY <1>1 DEF RegistryTyped, k
    <3> QED  BY <3>1
  <2>5. CASE entries[n].kind = "def" /\ entries[n].version = v
    <3>1. extra = {} /\ late' = late
      BY <1>5, <2>5 DEF Owned, Registered
    <3>2. Leaked' \subseteq Leaked
      BY <2>1, <3>1
    <3>3. Cardinality(Leaked') <= Cardinality(Leaked) /\ Cardinality(Leaked') \in Nat
      BY <2>2, <3>2, FS_Subset, FS_CardinalityType
    <3> QED  BY <2>2, <2>3, <2>4, <3>1, <3>2, <3>3 DEF Leaks
  <2>6. CASE ~(entries[n].kind = "def" /\ entries[n].version = v)
    <3>1. late' = Append(late, n) /\ Len(late') = Len(late) + 1
      BY <1>1, <2>6 DEF RegistryTyped
    <3>2. PICK x \in {Object(j) : j \in DOMAIN evals'} : extra \subseteq {x}
      <4>1. CASE ~Registered(n)
        BY <1>5, <2>4, <4>1
      <4>2. CASE entries[n].kind = "exports"
        <5>1. entries[n].exports \in 1..MaxEvals
          BY <1>1, <4>2 DEF RegistryTyped, Named, Entry
        <5>2. protects[Object(entries[n].exports)] = 1
          <6>1. Object(entries[n].exports) \in Owned(entries[n])
            BY <4>2 DEF Owned
          <6>2. Object(entries[n].exports) \in Values
            BY <5>1 DEF Values
          <6> QED  BY <6>1, <6>2 DEF RegistryInv, ProtectedWhileRegistered, Balanced
        <5>3. entries[n].exports \in DOMAIN evals
          <6>1. ~(entries[n].exports > Len(evals))
            BY <1>1, <5>1, <5>2 DEF Unused
          <6> QED  BY <1>1, <5>1, <6>1 DEF RegistryTyped
        <5>4. extra \subseteq {Object(entries[n].exports)}
          BY <1>5, <4>2 DEF Owned, Registered
        <5> QED  BY <2>4, <5>3, <5>4
      <4>3. CASE Registered(n) /\ entries[n].kind # "exports"
        <5>1. extra = {}
          BY <1>5, <4>3 DEF Owned, Registered
        <5> QED  BY <2>4, <5>1
      <4> QED  BY <4>1, <4>2, <4>3
    <3>3. Leaked' \subseteq Leaked \cup {x}
      BY <2>1, <3>2
    <3>4. /\ IsFiniteSet(Leaked \cup {x})
          /\ Cardinality(Leaked \cup {x}) <= Cardinality(Leaked) + 1
      <4>1. CASE x \in Leaked
        <5>1. Leaked \cup {x} = Leaked
          BY <4>1
        <5>2. IsFiniteSet(Leaked \cup {x}) /\ Cardinality(Leaked \cup {x}) = Cardinality(Leaked)
          BY <2>2, <5>1, Zenon
        <5> QED  BY <2>2, <5>2
      <4>2. CASE x \notin Leaked
        <5>1. /\ IsFiniteSet(Leaked \cup {x})
              /\ Cardinality(Leaked \cup {x}) = Cardinality(Leaked) + 1
          BY <2>2, <4>2, FS_AddElement, Zenon
        <5> QED  BY <2>2, <5>1
      <4> QED  BY <4>1, <4>2
    <3>5. /\ Cardinality(Leaked') <= Cardinality(Leaked \cup {x})
          /\ Cardinality(Leaked') \in Nat /\ Cardinality(Leaked \cup {x}) \in Nat
      BY <3>3, <3>4, FS_Subset, FS_CardinalityType
    <3>6. Cardinality(Leaked') <= Len(late')
      BY <2>2, <2>3, <3>1, <3>4, <3>5
    <3> QED  BY <2>3, <2>4, <3>2, <3>3, <3>6 DEF Leaks
  <2> QED  BY <2>5, <2>6
<1>9. Unused'
  <2>1. /\ \A w \in 1..MaxDeclares : Meta(w) \in Values \ won
        /\ \A j \in 1..MaxEvals : Object(j) \in Values /\ (Object(j) \in won <=> j = k)
    BY DEF Values, Meta, Object
  <2> HIDE DEF won
  <2> QED  BY <1>1, <1>2, <1>7, <2>1 DEF Unused, k
<1>10. RegistryTyped'
  <2>1. late' \in Seq(Names)
    BY <1>1 DEF RegistryTyped
  <2>2. protects' \in [Values -> Nat]
    BY <1>7
  <2> QED  BY <1>1, <1>2, <1>4, <2>1, <2>2 DEF RegistryTyped
<1>11. Named'
  <2>1. k # 0
    BY <1>1
  <2> QED  BY <1>1, <1>4, <2>1 DEF Named, Registered
<1> QED  BY <1>7, <1>8, <1>9, <1>10, <1>11 DEF RegistryInv

-----------------------------------------------------------------------------
(* Imports that wait, and what Bun has loaded.  Below, c is Bun's registry,*)
(* s the stack, m the imports begun, e the entries, x the versions that    *)
(* made the exports, and l the names whose definition was superseded.      *)

LoadPCs == {"load", "loaded", "evaluate"}

LoadTyped(c, s, m) ==
  c \in [Names -> Cached] /\ s \in Seq(Frame) /\ m \in 0..MaxImports

\* Every import has an id of its own.
OwnIds(c, s, m) ==
  /\ \A i \in DOMAIN s : s[i].id <= m
  /\ \A i, j \in DOMAIN s : s[i].id = s[j].id => i = j
  /\ \A n \in Names : c[n].id <= m /\ (c[n].id = 0 => c[n] = NotCached)

\* The import that Bun's entry of a name belongs to, if it waits, loads that name,
\* none above it does, and the definition it evaluates is still the name's.
Awaited(c, s, e, l) ==
  \A i \in DOMAIN s : \A n \in Names : c[n].id = s[i].id =>
    /\ n = s[i].name /\ c[n] = Loading(s[i].id) /\ s[i].pc \in LoadPCs
    /\ s[i].pc = "evaluate" /\ n \notin l =>
         e[n].kind = "def" /\ e[n].version = s[i].version
    /\ \A j \in DOMAIN s : j > i => ~(s[j].name = n /\ s[j].pc \in LoadPCs)

Evaluating(s) ==
  \A i \in DOMAIN s : s[i].pc = "evaluate" => s[i].version # 0

\* The module that Bun may have of n.
Fits(mod, n, e, l) ==
  mod.version # 0 /\ n \notin l =>
    /\ e[n].kind \in {"source", "exports"}
    /\ mod.version = e[n].version /\ mod.exports = e[n].exports

Delivered(c, e, l) == \A n \in Names : Fits(c[n], n, e, l)

\* Exports are those of the version that is registered.
MadeBy(e, x, l) ==
  \A n \in Names \ l : e[n].kind = "exports" =>
    e[n].exports \in DOMAIN x /\ x[e[n].exports] = e[n].version

LoadOK(c, s, m, e, l) ==
  /\ LoadTyped(c, s, m) /\ OwnIds(c, s, m) /\ Awaited(c, s, e, l)
  /\ Evaluating(s) /\ Delivered(c, e, l)

LEMMA FrameFacts ==
  ASSUME NEW f \in Frame
  PROVE  /\ f.id \in 1..MaxImports /\ f.name \in Names /\ f.version \in 0..MaxDeclares
         /\ f.pc \in ResolverPCs \cup LoaderPCs \cup {"evaluate"}
BY DEF Frame

LEMMA NotCachedFacts ==
  /\ NotCached \in Cached /\ NotCached.id = 0 /\ NotCached.version = 0
  /\ \A i \in 1..MaxImports : /\ Loading(i) \in Cached /\ Loading(i).id = i
                              /\ Loading(i).version = 0 /\ Loading(i) # NotCached
BY Bounds DEF NotCached, Loading, Cached

\* Waiting imports end, or fail, and entries of Bun's registry are forgotten.
LEMMA LoadDropped ==
  ASSUME NEW c, NEW s, NEW m, NEW e, NEW l, LoadOK(c, s, m, e, l),
         NEW d \in [Names -> Cached], NEW t \in Seq(Frame), NEW k \in 0..MaxImports,
         \A n \in Names : d[n] = c[n] \/ d[n] = NotCached,
         Len(t) <= Len(s), \A i \in DOMAIN t : t[i] = s[i], m <= k
  PROVE  LoadOK(d, t, k, e, l)
<1>1. /\ LoadTyped(c, s, m) /\ OwnIds(c, s, m) /\ Awaited(c, s, e, l)
      /\ Evaluating(s) /\ Delivered(c, e, l)
  BY DEF LoadOK
<1>2. /\ DOMAIN t \subseteq DOMAIN s /\ DOMAIN t \subseteq Nat /\ DOMAIN s \subseteq Nat
      /\ \A i \in DOMAIN s : s[i].id \in 1..MaxImports
  BY <1>1, FrameFacts DEF LoadTyped
<1>3. \A n \in Names : c[n].id \in 0..MaxImports
  BY <1>1 DEF LoadTyped, Cached
<1>4. m \in Nat
  BY <1>1 DEF LoadTyped
<1>5. LoadTyped(d, t, k)
  BY DEF LoadTyped
<1>6. OwnIds(d, t, k)
  BY <1>1, <1>2, <1>3, <1>4, NotCachedFacts DEF OwnIds
<1>7. Awaited(d, t, e, l)
  <2> SUFFICES ASSUME NEW i \in DOMAIN t, NEW n \in Names, d[n].id = t[i].id
               PROVE  /\ n = t[i].name /\ d[n] = Loading(t[i].id) /\ t[i].pc \in LoadPCs
                      /\ t[i].pc = "evaluate" /\ n \notin l =>
                           e[n].kind = "def" /\ e[n].version = t[i].version
                      /\ \A j \in DOMAIN t : j > i => ~(t[j].name = n /\ t[j].pc \in LoadPCs)
    BY DEF Awaited
  <2>1. i \in DOMAIN s /\ t[i] = s[i] /\ d[n] = c[n]
    BY <1>2, NotCachedFacts
  <2> QED  BY <1>1, <1>2, <2>1 DEF Awaited
<1>8. Evaluating(t)
  BY <1>1, <1>2 DEF Evaluating
<1>9. Delivered(d, e, l)
  BY <1>1, NotCachedFacts DEF Delivered, Fits
<1> QED  BY <1>5, <1>6, <1>7, <1>8, <1>9 DEF LoadOK

\* An id that no waiting import and no entry has.
NewId(id, c, s) ==
  /\ \A i \in DOMAIN s : s[i].id # id
  /\ \A n \in Names : c[n].id # id

LEMMA AppendFacts ==
  ASSUME NEW s \in Seq(Frame), NEW f \in Frame
  PROVE  /\ Append(s, f) \in Seq(Frame) /\ Len(s) \in Nat
         /\ DOMAIN s = 1..Len(s) /\ DOMAIN Append(s, f) = 1..(Len(s) + 1)
         /\ Append(s, f)[Len(s) + 1] = f
         /\ \A i \in 1..Len(s) : Append(s, f)[i] = s[i]
OBVIOUS

\* An import waits for a callback without having Bun's entry of a name.
LEMMA LoadPushed ==
  ASSUME NEW c, NEW s, NEW m, NEW e, NEW l, LoadOK(c, s, m, e, l),
         NEW f \in Frame, NewId(f.id, c, s), NEW k \in 0..MaxImports, m <= k, f.id <= k,
         f.pc \in LoadPCs => \A i \in DOMAIN s : c[f.name].id # s[i].id,
         f.pc = "evaluate" => f.version # 0
  PROVE  LoadOK(c, Append(s, f), k, e, l)
<1> DEFINE t == Append(s, f)
<1>1. /\ LoadTyped(c, s, m) /\ OwnIds(c, s, m) /\ Awaited(c, s, e, l)
      /\ Evaluating(s) /\ Delivered(c, e, l)
  BY DEF LoadOK
<1>2. /\ t \in Seq(Frame) /\ Len(s) \in Nat /\ DOMAIN s = 1..Len(s)
      /\ DOMAIN t = 1..(Len(s) + 1) /\ t[Len(s) + 1] = f /\ \A i \in 1..Len(s) : t[i] = s[i]
  BY <1>1, AppendFacts DEF LoadTyped
<1>3. /\ \A n \in Names : c[n].id \in 0..MaxImports
      /\ \A i \in DOMAIN s : s[i].id \in 1..MaxImports
      /\ m \in Nat
  BY <1>1, FrameFacts DEF LoadTyped, Cached
<1> HIDE DEF t
<1>4. LoadTyped(c, t, k)
  BY <1>1, <1>2 DEF LoadTyped
<1>5. OwnIds(c, t, k)
  <2>1. \A i \in DOMAIN t : t[i].id <= k
    BY <1>1, <1>2, <1>3 DEF OwnIds
  <2>2. ASSUME NEW i \in DOMAIN t, NEW j \in DOMAIN t, t[i].id = t[j].id PROVE i = j
    BY <1>1, <1>2, <2>2 DEF OwnIds, NewId
  <2> QED  BY <1>1, <1>3, <2>1, <2>2 DEF OwnIds
<1>6. Awaited(c, t, e, l)
  <2> SUFFICES ASSUME NEW i \in DOMAIN t, NEW n \in Names, c[n].id = t[i].id
               PROVE  /\ n = t[i].name /\ c[n] = Loading(t[i].id) /\ t[i].pc \in LoadPCs
                      /\ t[i].pc = "evaluate" /\ n \notin l =>
                           e[n].kind = "def" /\ e[n].version = t[i].version
                      /\ \A j \in DOMAIN t : j > i => ~(t[j].name = n /\ t[j].pc \in LoadPCs)
    BY DEF Awaited
  <2>1. i \in DOMAIN s /\ t[i] = s[i]
    BY <1>2 DEF NewId
  <2> QED  BY <1>1, <1>2, <2>1 DEF Awaited
<1>7. Evaluating(t)
  BY <1>1, <1>2 DEF Evaluating
<1> QED  BY <1>1, <1>4, <1>5, <1>6, <1>7 DEF LoadOK, t

\* An import begins to load a name that Bun does not have.
LEMMA LoadBegun ==
  ASSUME NEW c, NEW s, NEW m, NEW e, NEW l, LoadOK(c, s, m, e, l),
         NEW f \in Frame, NewId(f.id, c, s), NEW k \in 0..MaxImports, m <= k, f.id <= k,
         c[f.name] = NotCached, f.pc \in LoadPCs,
         f.pc = "evaluate" =>
           f.version # 0 /\ e[f.name].kind = "def" /\ e[f.name].version = f.version
  PROVE  LoadOK([c EXCEPT ![f.name] = Loading(f.id)], Append(s, f), k, e, l)
<1> DEFINE t == Append(s, f)
           d == [c EXCEPT ![f.name] = Loading(f.id)]
<1>1. /\ LoadTyped(c, s, m) /\ OwnIds(c, s, m) /\ Awaited(c, s, e, l)
      /\ Evaluating(s) /\ Delivered(c, e, l)
  BY DEF LoadOK
<1>2. /\ t \in Seq(Frame) /\ Len(s) \in Nat /\ DOMAIN s = 1..Len(s)
      /\ DOMAIN t = 1..(Len(s) + 1) /\ t[Len(s) + 1] = f /\ \A i \in 1..Len(s) : t[i] = s[i]
  BY <1>1, AppendFacts DEF LoadTyped
<1>3. /\ \A n \in Names : c[n].id \in 0..MaxImports
      /\ \A i \in DOMAIN s : s[i].id \in 1..MaxImports
      /\ f.id \in 1..MaxImports /\ f.name \in Names /\ m \in Nat
  BY <1>1, FrameFacts DEF LoadTyped, Cached
<1>4. /\ d \in [Names -> Cached] /\ d[f.name] = Loading(f.id) /\ d[f.name].id = f.id
      /\ d[f.name].version = 0 /\ \A n \in Names : n # f.name => d[n] = c[n]
  BY <1>1, <1>3, NotCachedFacts DEF LoadTyped
<1> HIDE DEF t, d
<1>5. LoadTyped(d, t, k)
  BY <1>2, <1>4 DEF LoadTyped
<1>6. OwnIds(d, t, k)
  <2>1. \A i \in DOMAIN t : t[i].id <= k
    BY <1>1, <1>2, <1>3 DEF OwnIds
  <2>2. ASSUME NEW i \in DOMAIN t, NEW j \in DOMAIN t, t[i].id = t[j].id PROVE i = j
    BY <1>1, <1>2, <2>2 DEF OwnIds, NewId
  <2>3. ASSUME NEW n \in Names PROVE d[n].id <= k /\ (d[n].id = 0 => d[n] = NotCached)
    BY <1>1, <1>3, <1>4 DEF OwnIds
  <2> QED  BY <2>1, <2>2, <2>3 DEF OwnIds
<1>7. Awaited(d, t, e, l)
  <2> SUFFICES ASSUME NEW i \in DOMAIN t, NEW n \in Names, d[n].id = t[i].id
               PROVE  /\ n = t[i].name /\ d[n] = Loading(t[i].id) /\ t[i].pc \in LoadPCs
                      /\ t[i].pc = "evaluate" /\ n \notin l =>
                           e[n].kind = "def" /\ e[n].version = t[i].version
                      /\ \A j \in DOMAIN t : j > i => ~(t[j].name = n /\ t[j].pc \in LoadPCs)
    BY DEF Awaited
  <2>1. CASE i = Len(s) + 1
    <3>1. n = f.name
      BY <1>2, <1>4, <2>1 DEF NewId
    <3> QED  BY <1>2, <1>4, <2>1, <3>1
  <2>2. CASE i # Len(s) + 1
    <3>1. i \in DOMAIN s /\ t[i] = s[i]
      BY <1>2, <2>2
    <3>2. n # f.name /\ d[n] = c[n]
      BY <1>4, <3>1 DEF NewId
    <3> QED  BY <1>1, <1>2, <3>1, <3>2 DEF Awaited
  <2> QED  BY <2>1, <2>2
<1>8. Evaluating(t)
  BY <1>1, <1>2 DEF Evaluating
<1>9. Delivered(d, e, l)
  BY <1>1, <1>4 DEF Delivered, Fits
<1> QED  BY <1>5, <1>6, <1>7, <1>8, <1>9 DEF LoadOK, t, d

\* An import gets a module at once.
LEMMA LoadFinished ==
  ASSUME NEW c, NEW s, NEW m, NEW e, NEW l, LoadOK(c, s, m, e, l),
         NEW mod \in Cached, mod.id # 0, NewId(mod.id, c, s),
         NEW k \in 0..MaxImports, m <= k, mod.id <= k,
         NEW n \in Names, Fits(mod, n, e, l)
  PROVE  LoadOK([c EXCEPT ![n] = mod], s, k, e, l)
<1> DEFINE d == [c EXCEPT ![n] = mod]
<1>1. /\ LoadTyped(c, s, m) /\ OwnIds(c, s, m) /\ Awaited(c, s, e, l)
      /\ Evaluating(s) /\ Delivered(c, e, l)
  BY DEF LoadOK
<1>2. /\ \A j \in Names : c[j].id \in 0..MaxImports
      /\ \A i \in DOMAIN s : s[i].id \in 1..MaxImports
      /\ m \in Nat /\ mod.id \in 1..MaxImports
  BY <1>1, FrameFacts DEF LoadTyped, Cached
<1>3. d \in [Names -> Cached] /\ d[n] = mod /\ \A j \in Names \ {n} : d[j] = c[j]
  BY <1>1 DEF LoadTyped
<1> HIDE DEF d
<1>4. LoadTyped(d, s, k)
  BY <1>1, <1>3 DEF LoadTyped
<1>5. OwnIds(d, s, k)
  <2>1. \A j \in Names : d[j].id <= k /\ (d[j].id = 0 => d[j] = NotCached)
    BY <1>1, <1>2, <1>3 DEF OwnIds
  <2>2. \A i \in DOMAIN s : s[i].id <= k
    BY <1>1, <1>2 DEF OwnIds
  <2> QED  BY <1>1, <2>1, <2>2 DEF OwnIds
<1>6. Awaited(d, s, e, l)
  BY <1>1, <1>3 DEF Awaited, NewId
<1>7. Delivered(d, e, l)
  BY <1>1, <1>3 DEF Delivered, Fits
<1> QED  BY <1>1, <1>4, <1>5, <1>6, <1>7 DEF LoadOK, d

\* The innermost import, gone, and the entry it was loading with it.
Without(c, f) == IF c[f.name].id = f.id THEN [c EXCEPT ![f.name] = NotCached] ELSE c

LEMMA LoadPopped ==
  ASSUME NEW c, NEW s, NEW m, NEW e, NEW l, LoadOK(c, s, m, e, l), s # <<>>
  PROVE  LET f == Last(s)
             d == Without(c, f)
         IN  /\ f \in Frame /\ f.id <= m /\ d \in [Names -> Cached]
             /\ LoadOK(d, Front(s), m, e, l) /\ LoadOK(c, Front(s), m, e, l)
             /\ NewId(f.id, d, Front(s))
             /\ f.pc \in LoadPCs =>
                  \A i \in DOMAIN Front(s) : d[f.name].id # Front(s)[i].id
             /\ c[f.name].id = f.id => /\ c = [d EXCEPT ![f.name] = Loading(f.id)]
                                       /\ d[f.name] = NotCached
             /\ f.pc \notin LoadPCs => d = c
             /\ f.pc = "evaluate" => f.version # 0
<1> DEFINE f == Last(s)
           t == Front(s)
           d == Without(c, f)
<1>1. /\ LoadTyped(c, s, m) /\ OwnIds(c, s, m) /\ Awaited(c, s, e, l)
      /\ Evaluating(s) /\ Delivered(c, e, l)
  BY DEF LoadOK
<1>2. /\ Len(s) \in Nat \ {0} /\ DOMAIN s = 1..Len(s) /\ f = s[Len(s)] /\ f \in Frame
      /\ t \in Seq(Frame) /\ Len(t) = Len(s) - 1 /\ DOMAIN t = 1..(Len(s) - 1)
      /\ \A i \in DOMAIN t : t[i] = s[i]
  BY <1>1, FrontFacts DEF LoadTyped
<1>3. /\ c \in [Names -> Cached] /\ m \in 0..MaxImports
      /\ \A n \in Names : c[n].id \in 0..MaxImports
      /\ \A i \in DOMAIN s : s[i].id \in 1..MaxImports
      /\ f.id \in 1..MaxImports /\ f.name \in Names
  BY <1>1, <1>2, FrameFacts DEF LoadTyped, Cached
<1> HIDE DEF f, t
<1>4. /\ d \in [Names -> Cached] /\ \A n \in Names : d[n] = c[n] \/ d[n] = NotCached
      /\ \A n \in Names \ {f.name} : d[n] = c[n]
      /\ c[f.name].id = f.id => d = [c EXCEPT ![f.name] = NotCached] /\ d[f.name] = NotCached
      /\ c[f.name].id # f.id => d = c
  BY <1>3, NotCachedFacts DEF Without
<1> HIDE DEF d
<1>5. LoadOK(d, t, m, e, l)
  BY <1>2, <1>3, <1>4, LoadDropped
<1>6. LoadOK(c, t, m, e, l)
  BY <1>2, <1>3, LoadDropped
<1>7. f.id <= m /\ \A i \in DOMAIN t : i \in DOMAIN s /\ i < Len(s) /\ s[i].id # f.id
  BY <1>1, <1>2 DEF OwnIds
<1>8. \A n \in Names : c[n].id = f.id =>
        /\ n = f.name /\ c[n] = Loading(f.id) /\ f.pc \in LoadPCs
  BY <1>1, <1>2 DEF Awaited
<1>9. NewId(f.id, d, t)
  BY <1>2, <1>3, <1>4, <1>7, <1>8, NotCachedFacts DEF NewId
<1>10. ASSUME f.pc \in LoadPCs, NEW i \in DOMAIN t, d[f.name].id = t[i].id PROVE FALSE
  <2>1. c[f.name].id = s[i].id /\ i \in DOMAIN s /\ Len(s) > i
    BY <1>2, <1>3, <1>4, <1>7, <1>10, NotCachedFacts
  <2>2. Len(s) \in DOMAIN s /\ s[Len(s)].name = f.name /\ s[Len(s)].pc \in LoadPCs
    BY <1>2, <1>10
  <2> QED  BY <1>1, <1>3, <2>1, <2>2 DEF Awaited
<1>11. ASSUME c[f.name].id = f.id
       PROVE  c = [d EXCEPT ![f.name] = Loading(f.id)] /\ d[f.name] = NotCached
  <2>1. c[f.name] = Loading(f.id)
    BY <1>3, <1>8, <1>11
  <2>2. c = [c EXCEPT ![f.name] = Loading(f.id)]
    BY <1>3, <2>1
  <2> QED  BY <1>3, <1>4, <1>11, <2>2
<1>12. f.pc \notin LoadPCs => d = c
  BY <1>3, <1>4, <1>8
<1>13. f.pc = "evaluate" => f.version # 0
  BY <1>1, <1>2 DEF Evaluating
<1> QED  BY <1>2, <1>4, <1>5, <1>6, <1>7, <1>9, <1>10, <1>11, <1>12, <1>13 DEF f, t, d

\* The entry of n changes, and Bun forgets n unless it had nothing of n.
LEMMA LoadEntry ==
  ASSUME NEW c, NEW s, NEW m, NEW e, NEW l, LoadOK(c, s, m, e, l),
         NEW n \in Names, NEW g, \A j \in Names \ {n} : g[j] = e[j],
         NEW d \in [Names -> Cached], \A j \in Names \ {n} : d[j] = c[j],
         d[n] = NotCached \/ (d[n] = c[n] /\ e[n].kind = "none")
  PROVE  LoadOK(d, s, m, g, l)
<1>1. /\ LoadTyped(c, s, m) /\ OwnIds(c, s, m) /\ Awaited(c, s, e, l)
      /\ Evaluating(s) /\ Delivered(c, e, l)
  BY DEF LoadOK
<1>2. /\ \A i \in DOMAIN s : s[i].id \in 1..MaxImports
      /\ m \in Nat
  BY <1>1, FrameFacts DEF LoadTyped
<1>3. LoadTyped(d, s, m) /\ OwnIds(d, s, m)
  BY <1>1, <1>2, NotCachedFacts DEF LoadTyped, OwnIds
<1>4. Awaited(d, s, g, l)
  <2> SUFFICES ASSUME NEW i \in DOMAIN s, NEW j \in Names, d[j].id = s[i].id
               PROVE  /\ j = s[i].name /\ d[j] = Loading(s[i].id) /\ s[i].pc \in LoadPCs
                      /\ s[i].pc = "evaluate" /\ j \notin l =>
                           g[j].kind = "def" /\ g[j].version = s[i].version
                      /\ \A k \in DOMAIN s : k > i => ~(s[k].name = j /\ s[k].pc \in LoadPCs)
    BY DEF Awaited
  <2>1. d[j] = c[j] /\ (j # n \/ e[n].kind = "none")
    BY <1>2, NotCachedFacts
  <2> QED  BY <1>1, <2>1 DEF Awaited
<1>5. Delivered(d, g, l)
  BY <1>1, NotCachedFacts DEF Delivered, Fits
<1> QED  BY <1>1, <1>3, <1>4, <1>5 DEF LoadOK

-----------------------------------------------------------------------------
(* The steps of imports.                                                   *)

Superseding == ToSet(late)

LoadInv ==
  /\ LoadOK(cache, stack, imports, entries, Superseding)
  /\ MadeBy(entries, evals, Superseding)

ModulesInv == RegistryInv /\ LoadInv

LEMMA Reached ==
  ASSUME LoadOK(cache', stack', imports', entries', ToSet(late')),
         MadeBy(entries', evals', ToSet(late'))
  PROVE  LoadInv'
BY DEF LoadInv, LoadOK, LoadTyped, OwnIds, Awaited, Evaluating, Delivered, Fits, MadeBy,
  Superseding, ToSet

LEMMA Typed ==
  ASSUME ModulesInv
  PROVE  /\ cache \in [Names -> Cached] /\ stack \in Seq(Frame)
         /\ imports \in 0..MaxImports /\ entries \in [Names -> Entry]
         /\ evals \in Seq(1..MaxDeclares) /\ late \in Seq(Names)
         /\ Len(evals) \in Nat /\ MaxImports \in Nat
         /\ LoadOK(cache, stack, imports, entries, ToSet(late))
         /\ MadeBy(entries, evals, ToSet(late))
BY Bounds DEF ModulesInv, LoadInv, LoadOK, LoadTyped, RegistryInv, RegistryTyped, Superseding

\* LoadEntry, of the state.
LEMMA EntryChanges ==
  ASSUME ModulesInv, NEW n \in Names, \A j \in Names \ {n} : entries'[j] = entries[j],
         cache' \in [Names -> Cached], \A j \in Names \ {n} : cache'[j] = cache[j],
         cache'[n] = NotCached \/ (cache'[n] = cache[n] /\ entries[n].kind = "none")
  PROVE  LoadOK(cache', stack, imports, entries', ToSet(late))
<1> DEFINE l == ToSet(late)
           d == cache'
           g == entries'
<1>1. LoadOK(cache, stack, imports, entries, l)
  BY Typed
<1>2. /\ \A j \in Names \ {n} : g[j] = entries[j]
      /\ d \in [Names -> Cached] /\ \A j \in Names \ {n} : d[j] = cache[j]
      /\ d[n] = NotCached \/ (d[n] = cache[n] /\ entries[n].kind = "none")
  OBVIOUS
<1> HIDE DEF l, d, g
<1>3. LoadOK(d, stack, imports, g, l)
  BY <1>1, <1>2, LoadEntry
<1> QED  BY <1>3 DEF l, d, g

\* A name's cached exports were made by an evaluation.
LEMMA ExportsMade ==
  ASSUME RegistryInv, NEW n \in Names, entries[n].kind = "exports"
  PROVE  entries[n].exports \in DOMAIN evals /\ Content(entries[n]) \in 1..MaxDeclares
<1>1. entries[n].exports \in 1..MaxEvals
  BY Bounds DEF RegistryInv, RegistryTyped, Named, Entry
<1>2. protects[Object(entries[n].exports)] # 0
  <2>1. Object(entries[n].exports) \in Owned(entries[n])
    BY DEF Owned
  <2> QED  BY <2>1 DEF RegistryInv, ProtectedWhileRegistered
<1>3. entries[n].exports <= Len(evals)
  <2>1. Len(evals) \in Nat
    BY DEF RegistryInv, RegistryTyped
  <2> QED  BY <1>1, <1>2, <2>1 DEF RegistryInv, Unused
<1>4. entries[n].exports \in DOMAIN evals
  BY <1>1, <1>3 DEF RegistryInv, RegistryTyped
<1>5. ASSUME NEW S, NEW s \in Seq(S), NEW i \in DOMAIN s PROVE s[i] \in S
  OBVIOUS
<1>6. evals[entries[n].exports] \in 1..MaxDeclares
  BY <1>4, <1>5 DEF RegistryInv, RegistryTyped
<1> QED  BY <1>4, <1>6 DEF Content

\* What host_load finds is what Bun may have of the name.
LEMMA DeliveredFits ==
  ASSUME ModulesInv, NEW n \in Names, entries[n].kind \in {"source", "exports"},
         NEW id \in 1..MaxImports
  PROVE  LET mod == [id |-> id, exports |-> entries[n].exports,
                     version |-> Content(entries[n])]
         IN  /\ mod \in Cached /\ mod.id = id
             /\ Fits(mod, n, entries, ToSet(late))
<1>1. entries[n] \in Entry /\ RegistryInv /\ MadeBy(entries, evals, ToSet(late))
  BY Typed DEF ModulesInv
<1>2. entries[n].exports \in 0..MaxEvals /\ entries[n].version \in 0..MaxDeclares
  BY <1>1 DEF Entry
<1>3. CASE entries[n].kind = "source"
  BY <1>2, <1>3, Bounds DEF Content, Cached, Fits
<1>4. CASE entries[n].kind = "exports"
  <2>1. /\ Content(entries[n]) \in 1..MaxDeclares
        /\ n \notin ToSet(late) => Content(entries[n]) = entries[n].version
    BY <1>1, <1>4, ExportsMade DEF Content, MadeBy
  <2> HIDE DEF Content
  <2> QED  BY <1>2, <1>4, <2>1, Bounds DEF Cached, Fits
<1> QED  BY <1>3, <1>4

\* host_load answers the import `id', which Bun has an entry for (c is b with it),
\* or had and forgot (c is b).
LEMMA DeliverStep ==
  ASSUME ModulesInv, NEW n \in Names, NEW k \in 0..MaxImports, NEW id \in 1..k,
         NEW below \in Seq(Frame), NEW b, NEW c,
         LoadOK(b, below, k, entries, ToSet(late)), NewId(id, b, below),
         \/ b[n] = NotCached /\ c = [b EXCEPT ![n] = Loading(id)]
         \/ c = b /\ \A i \in DOMAIN below : b[n].id # below[i].id,
         Deliver(id, n, below, c)
  PROVE  LoadOK(cache', stack', k, entries, ToSet(late))
<1>1. /\ b \in [Names -> Cached] /\ k \in Nat /\ id \in 1..MaxImports /\ entries[n] \in Entry
      /\ b[n].id # id /\ RegistryInv
  BY Typed, Bounds DEF LoadOK, LoadTyped, NewId, ModulesInv
<1>2. ASSUME NEW mod \in Cached, mod.id = id
      PROVE  \/ Put(c, id, n, mod) = [b EXCEPT ![n] = mod]
             \/ Put(c, id, n, mod) = b
  BY <1>1, NotCachedFacts DEF Put
<1>3. CASE /\ entries[n].kind \in {"source", "exports"}
           /\ cache' = Put(c, id, n, [id |-> id, exports |-> entries[n].exports,
                                      version |-> Content(entries[n])])
           /\ stack' = below
  <2> DEFINE mod == [id |-> id, exports |-> entries[n].exports,
                     version |-> Content(entries[n])]
  <2>1. mod \in Cached /\ mod.id = id /\ Fits(mod, n, entries, ToSet(late))
    BY <1>1, <1>3, DeliveredFits
  <2>2. cache' = Put(c, id, n, mod) /\ stack' = below
    BY <1>3
  <2> HIDE DEF mod
  <2>3. LoadOK([b EXCEPT ![n] = mod], below, k, entries, ToSet(late))
    <3>1. mod.id # 0 /\ NewId(mod.id, b, below) /\ mod.id <= k /\ k <= k
      BY <1>1, <2>1
    <3> QED  BY <2>1, <3>1, LoadFinished
  <2> QED  BY <1>2, <2>1, <2>2, <2>3
<1>4. CASE /\ entries[n].kind = "def" /\ cache' = c
           /\ stack' = Append(below, NewFrame("evaluate", id, n, entries[n].version))
  <2> DEFINE f == NewFrame("evaluate", id, n, entries[n].version)
  <2>1. /\ f \in Frame /\ f.id = id /\ f.name = n /\ f.pc = "evaluate"
        /\ f.version = entries[n].version
    BY <1>1 DEF NewFrame, Frame, Entry
  <2>2. f.version # 0
    BY <1>1, <1>4, <2>1 DEF RegistryInv, Named, Registered
  <2>3. stack' = Append(below, f) /\ cache' = c
    BY <1>4
  <2> HIDE DEF f
  <2>4. CASE b[n] = NotCached /\ c = [b EXCEPT ![n] = Loading(id)]
    <3>1. LoadOK([b EXCEPT ![f.name] = Loading(f.id)], Append(below, f), k, entries, ToSet(late))
      <4>1. /\ NewId(f.id, b, below) /\ f.id <= k /\ k <= k /\ b[f.name] = NotCached
            /\ entries[f.name].kind = "def" /\ entries[f.name].version = f.version
        BY <1>1, <1>4, <2>1, <2>4
      <4>2. f.pc \in LoadPCs
        BY <2>1 DEF LoadPCs
      <4> QED  BY <2>1, <2>2, <4>1, <4>2, LoadBegun
    <3> QED  BY <2>1, <2>3, <2>4, <3>1
  <2>5. CASE c = b /\ \A i \in DOMAIN below : b[n].id # below[i].id
    BY <1>1, <2>1, <2>2, <2>3, <2>5, LoadPushed
  <2> QED  BY <2>4, <2>5
<1>5. CASE /\ ~Registered(n) /\ cache' = Put(c, id, n, NotCached) /\ stack' = below
  <2>1. cache' = b
    BY <1>1, <1>5, NotCachedFacts DEF Put
  <2> QED  BY <1>5, <2>1
<1> QED  BY <1>3, <1>4, <1>5 DEF Deliver

LEMMA UnwindStep ==
  ASSUME ModulesInv, NEW k \in 0..MaxImports, imports <= k, Unwind
  PROVE  LoadOK(cache', stack', k, entries, ToSet(late))
<1>1. /\ cache' \in [Names -> Cached]
      /\ \A n \in Names : cache'[n] = cache[n] \/ cache'[n] = NotCached
  BY Typed, NotCachedFacts DEF Unwind, Failed
<1>2. stack' = <<>> /\ stack' \in Seq(Frame) /\ Len(stack') <= Len(stack) /\ DOMAIN stack' = {}
  BY Typed DEF Unwind
<1> QED  BY Typed, <1>1, <1>2, LoadDropped

\* The import `id', that nothing waits for any more or yet, is linked.
LEMMA LinkStep ==
  ASSUME ModulesInv, NEW n \in Names, NEW k \in 0..MaxImports, imports <= k,
         NEW id \in 1..k, NEW below \in Seq(Frame),
         LoadOK(cache, below, k, entries, ToSet(late)), NewId(id, cache, below),
         Link(id, n, below)
  PROVE  LoadOK(cache', stack', k, entries, ToSet(late))
<1> DEFINE c == [cache EXCEPT ![n] = Loading(id)]
<1>1. CASE stack' = below /\ UNCHANGED cache
  BY <1>1
<1>2. CASE cache[n] = NotCached /\ Deliver(id, n, below, c)
  BY <1>2, DeliverStep
<1>3. CASE Unwind
  BY <1>3, UnwindStep
<1>4. CASE /\ cache[n] = NotCached /\ cache' = c
           /\ stack' = Append(below, NewFrame("load", id, n, 0))
  <2> DEFINE f == NewFrame("load", id, n, 0)
  <2>1. f \in Frame /\ f.id = id /\ f.name = n /\ f.pc = "load"
    BY Bounds DEF NewFrame, Frame, LoaderPCs
  <2> HIDE DEF f
  <2>2. LoadOK([cache EXCEPT ![f.name] = Loading(f.id)], Append(below, f), k, entries, ToSet(late))
    <3>1. /\ NewId(f.id, cache, below) /\ f.id <= k /\ k <= k /\ cache[f.name] = NotCached
          /\ f.pc # "evaluate"
      BY <1>4, <2>1
    <3>2. f.pc \in LoadPCs
      BY <2>1 DEF LoadPCs
    <3> QED  BY <2>1, <3>1, <3>2, LoadBegun
  <2> QED  BY <1>4, <2>1, <2>2 DEF f
<1> QED  BY <1>1, <1>2, <1>3, <1>4 DEF Link

\* A tuple of loaders answers what one of them answers.
LEMMA FirstExists ==
  ASSUME NEW S, S \subseteq Nat, S # {}
  PROVE  Min(S) \in S
<1>1. \E i \in S : \A j \in S : ~(<<j, i>> \in OpToRel(<, Nat))
  BY NatLessThanWellFounded, WFMin
<1>2. \E i \in S : \A j \in S : i <= j
  <2>1. PICK i \in S : \A j \in S : ~(<<j, i>> \in OpToRel(<, Nat))
    BY <1>1
  <2>2. \A j \in S : j < i => <<j, i>> \in OpToRel(<, Nat)
    BY DEF OpToRel
  <2>3. \A j \in S : ~(j < i)
    BY <2>1, <2>2
  <2> QED  BY <2>3
<1> QED  BY <1>2 DEF Min

LEMMA LoadedKind ==
  ASSUME NEW n \in Names, LoadedAs(n) # "none"
  PROVE  LoadedAs(n) \in Kinds
<1> DEFINE results == [i \in DOMAIN LoaderChain |-> LoaderChain[i][n]]
           ok == {i \in 1..Len(results) : results[i] # "none"}
<1>1. LoaderChain \in Seq([Names -> Kinds \cup {"none"}])
  BY ModulesAssumption
<1>2. \A i \in DOMAIN results : results[i] \in Kinds \cup {"none"}
  BY <1>1
<1>3. DOMAIN results = 1..Len(results) /\ ok \subseteq Nat
  BY <1>1
<1>4. LoadedAs(n) = LET i == IF ok # {} THEN Min(ok) ELSE 0
                    IN  IF i = 0 THEN "none" ELSE results[i]
  BY DEF LoadedAs, FirstOk, SelectInSeq
<1>5. ok # {} /\ LoadedAs(n) = results[Min(ok)]
  BY <1>4
<1>6. Min(ok) \in ok
  BY <1>3, <1>5, FirstExists
<1>7. Min(ok) \in DOMAIN results
  BY <1>3, <1>6
<1> HIDE DEF results, ok
<1> QED  BY <1>2, <1>5, <1>7

\* Declaring a module, by host code or by a loader.
LEMMA RegisterLoads ==
  ASSUME ModulesInv, NEW n \in Names, NEW kind \in Kinds, Register(n, kind)
  PROVE  /\ LoadOK(cache', stack, imports, entries', ToSet(late))
         /\ MadeBy(entries', evals, ToSet(late))
<1>1. /\ entries' = [entries EXCEPT ![n] = [kind |-> kind, exports |-> 0,
                                            version |-> declared + 1]]
      /\ cache' = IF Registered(n) THEN Forget(n) ELSE cache
  BY DEF Register
<1>2. entries'[n].kind = kind /\ \A j \in Names \ {n} : entries'[j] = entries[j]
  BY <1>1, Typed
<1>3. /\ cache' \in [Names -> Cached] /\ \A j \in Names \ {n} : cache'[j] = cache[j]
      /\ cache'[n] = NotCached \/ (cache'[n] = cache[n] /\ entries[n].kind = "none")
  BY <1>1, Typed, NotCachedFacts DEF Forget, Registered
<1>4. LoadOK(cache', stack, imports, entries', ToSet(late))
  BY <1>2, <1>3, EntryChanges, Zenon
<1>5. MadeBy(entries', evals, ToSet(late))
  BY <1>2, Typed DEF MadeBy, Kinds
<1> QED  BY <1>4, <1>5

LEMMA HostStep ==
  ASSUME ModulesInv,
         \/ \E n \in Names : \/ \E kind \in Kinds : Declare(n, kind)
                             \/ Evict(n) \/ EvictKey(n) \/ Import(n)
         \/ SetLoader \/ Panic
  PROVE  ModulesInv'
<1>1. ASSUME NEW n \in Names, NEW kind \in Kinds, Declare(n, kind)
      PROVE  ModulesInv'
  <2>1. Register(n, kind) /\ UNCHANGED <<installed, stack, evals, imports, late>>
    BY <1>1 DEF Declare
  <2>2. LoadInv'
    BY <2>1, RegisterLoads, Reached
  <2> QED  BY <2>1, <2>2, RegisterStep DEF ModulesInv
<1>2. ASSUME NEW n \in Names, Evict(n)
      PROVE  ModulesInv'
  <2>1. /\ entries' = [entries EXCEPT ![n] = NoEntry] /\ cache' = Forget(n)
        /\ UNCHANGED <<installed, stack, declared, evals, imports, late>>
    BY <1>2 DEF Evict, Dropped
  <2>2. entries'[n].kind = "none" /\ \A j \in Names \ {n} : entries'[j] = entries[j]
    BY <2>1, Typed DEF NoEntry
  <2>3. /\ cache' \in [Names -> Cached] /\ \A j \in Names \ {n} : cache'[j] = cache[j]
        /\ cache'[n] = NotCached
    BY <2>1, Typed, NotCachedFacts DEF Forget
  <2>4. LoadOK(cache', stack, imports, entries', ToSet(late))
    BY <2>2, <2>3, EntryChanges, Zenon
  <2>5. MadeBy(entries', evals, ToSet(late))
    BY <2>2, Typed DEF MadeBy
  <2>6. LoadInv'
    BY <2>1, <2>4, <2>5, Reached
  <2> QED  BY <1>2, <2>6, EvictStep DEF ModulesInv
<1>3. ASSUME NEW n \in Names, EvictKey(n)
      PROVE  ModulesInv'
  <2>1. /\ cache' = Forget(n)
        /\ UNCHANGED <<entries, installed, protects, stack, declared, evals, imports, late>>
    BY <1>3 DEF EvictKey
  <2>2. /\ cache' \in [Names -> Cached]
        /\ \A j \in Names : cache'[j] = cache[j] \/ cache'[j] = NotCached
    BY <2>1, Typed, NotCachedFacts DEF Forget
  <2>3. Len(stack) <= Len(stack) /\ imports <= imports
    BY Typed
  <2>4. LoadOK(cache', stack, imports, entries, ToSet(late))
    BY <2>2, <2>3, Typed, LoadDropped
  <2>5. LoadInv'
    BY <2>1, <2>4, Typed, Reached
  <2>6. installed' \in BOOLEAN
    BY <2>1 DEF ModulesInv, RegistryInv, RegistryTyped
  <2> QED  BY <2>1, <2>5, <2>6, RegistryKept DEF ModulesInv
<1>4. ASSUME NEW n \in Names, Import(n)
      PROVE  ModulesInv'
  <2> DEFINE k == imports + 1
  <2>1. /\ imports < MaxImports /\ imports' = k
        /\ UNCHANGED <<entries, installed, protects, declared, evals, late>>
    BY <1>4 DEF Import
  <2>2. k \in 0..MaxImports /\ k \in 1..k /\ imports <= k /\ k <= k /\ k \in 1..MaxImports
    BY <2>1, Typed
  <2>3. /\ Len(stack) <= Len(stack) /\ stack \in Seq(Frame)
        /\ \A j \in Names : cache[j] = cache[j] \/ cache[j] = NotCached
        /\ cache \in [Names -> Cached]
    BY Typed
  <2>4. NewId(k, cache, stack)
    <3>1. /\ \A i \in DOMAIN stack : stack[i].id <= imports /\ stack[i].id \in 1..MaxImports
          /\ \A j \in Names : cache[j].id <= imports /\ cache[j].id \in 0..MaxImports
      BY Typed, FrameFacts DEF LoadOK, OwnIds, Cached
    <3>2. imports \in Nat
      BY Typed
    <3> QED  BY <3>1, <3>2 DEF NewId
  <2> HIDE DEF k
  <2>5. LoadOK(cache, stack, k, entries, ToSet(late))
    BY <2>2, <2>3, Typed, LoadDropped
  <2>6. LoadOK(cache', stack', k, entries, ToSet(late))
    <3>1. CASE Link(k, n, stack)
      BY <2>2, <2>3, <2>4, <2>5, <3>1, LinkStep
    <3>2. CASE UNCHANGED <<stack, cache>>
      BY <2>5, <3>2
    <3>3. CASE Unwind
      BY <2>2, <3>3, UnwindStep
    <3>4. CASE stack' = Append(stack, NewFrame("resolver", k, n, 0)) /\ UNCHANGED cache
      <4> DEFINE f == NewFrame("resolver", k, n, 0)
      <4>1. f \in Frame /\ f.id = k /\ f.pc = "resolver"
        BY <2>2, Bounds DEF NewFrame, Frame, ResolverPCs
      <4>2. f.pc \notin LoadPCs /\ f.pc # "evaluate"
        BY <4>1 DEF LoadPCs
      <4> HIDE DEF f
      <4>3. NewId(f.id, cache, stack) /\ f.id <= k
        BY <2>2, <2>4, <4>1
      <4>4. LoadOK(cache, Append(stack, f), k, entries, ToSet(late))
        BY <2>2, <2>5, <4>1, <4>2, <4>3, LoadPushed
      <4> QED  BY <3>4, <4>4 DEF f
    <3> QED  BY <1>4, <3>1, <3>2, <3>3, <3>4 DEF Import, k
  <2>7. LoadInv'
    BY <2>1, <2>6, Typed, Reached
  <2>8. installed' \in BOOLEAN
    BY <2>1 DEF ModulesInv, RegistryInv, RegistryTyped
  <2> QED  BY <2>1, <2>7, <2>8, RegistryKept DEF ModulesInv
<1>5. CASE SetLoader
  <2>1. installed' = TRUE /\ UNCHANGED <<entries, protects, cache, stack, declared, evals, imports, late>>
    BY <1>5 DEF SetLoader
  <2>2. LoadInv'
    BY <2>1, Typed, Reached
  <2> QED  BY <2>1, <2>2, RegistryKept DEF ModulesInv
<1>6. CASE Panic
  <2>1. Unwind /\ UNCHANGED <<entries, installed, protects, declared, evals, imports, late>>
    BY <1>6 DEF Panic
  <2>2. imports \in 0..MaxImports /\ imports <= imports
    BY Typed
  <2>3. LoadOK(cache', stack', imports, entries, ToSet(late))
    BY <2>1, <2>2, UnwindStep
  <2>4. LoadInv'
    BY <2>1, <2>3, Typed, Reached
  <2>5. installed' \in BOOLEAN
    BY <2>1 DEF ModulesInv, RegistryInv, RegistryTyped
  <2> QED  BY <2>1, <2>4, <2>5, RegistryKept DEF ModulesInv
<1> QED  BY <1>1, <1>2, <1>3, <1>4, <1>5, <1>6

\* What is known of the innermost import when its callback returns.
LEMMA TopFacts ==
  ASSUME ModulesInv, stack # <<>>
  PROVE  /\ Top \in Frame /\ Below \in Seq(Frame) /\ Top.name \in Names
         /\ imports \in 0..MaxImports /\ imports <= imports
         /\ Top.id \in 1..imports
         /\ LoadOK(cache, Below, imports, entries, ToSet(late))
         /\ LET d == Without(cache, Top)
            IN  /\ d \in [Names -> Cached]
                /\ LoadOK(d, Below, imports, entries, ToSet(late))
                /\ NewId(Top.id, d, Below)
                /\ Top.pc \in LoadPCs => \A i \in DOMAIN Below : d[Top.name].id # Below[i].id
                /\ cache[Top.name].id = Top.id =>
                     /\ cache = [d EXCEPT ![Top.name] = Loading(Top.id)]
                     /\ d[Top.name] = NotCached
                /\ cache[Top.name].id # Top.id => d = cache
                /\ Top.pc \notin LoadPCs => d = cache
                /\ Top.pc = "evaluate" => Top.version # 0
<1>1. LoadOK(cache, stack, imports, entries, ToSet(late)) /\ stack \in Seq(Frame)
  BY Typed
<1>2. Below \in Seq(Frame)
  BY <1>1, FrontFacts DEF Below
<1>3. cache[Top.name].id # Top.id => Without(cache, Top) = cache
  BY DEF Without
<1>4. imports \in 0..MaxImports /\ imports <= imports /\ imports \in Nat
  BY Typed
<1>5. Top \in Frame /\ Top.id <= imports
  BY <1>1, LoadPopped DEF Top
<1>6. Top.id \in 1..imports /\ Top.name \in Names
  BY <1>4, <1>5, FrameFacts
<1> QED  BY <1>1, <1>2, <1>3, <1>4, <1>5, <1>6, LoadPopped DEF Top, Below

\* Once the caches are in order, so is the rest: the registry is as it was.
LEMMA CallbackDone ==
  ASSUME ModulesInv,
         UNCHANGED <<entries, installed, protects, declared, evals, imports, late>>,
         LoadOK(cache', stack', imports, entries, ToSet(late))
  PROVE  ModulesInv'
<1>1. LoadInv'
  BY Typed, Reached
<1>2. installed' \in BOOLEAN
  BY DEF ModulesInv, RegistryInv, RegistryTyped
<1> QED  BY <1>1, <1>2, RegistryKept DEF ModulesInv

\* An import that loads nothing waits for the next callback in its place.
LEMMA NextCallback ==
  ASSUME ModulesInv, stack # <<>>, Top.pc \notin LoadPCs,
         NEW f \in Frame, f.id = Top.id, f.pc \notin LoadPCs
  PROVE  LoadOK(cache, Append(Below, f), imports, entries, ToSet(late))
<1>1. /\ imports \in 0..MaxImports /\ imports <= imports /\ f.id <= imports
      /\ NewId(f.id, cache, Below) /\ f.pc # "evaluate"
      /\ LoadOK(cache, Below, imports, entries, ToSet(late))
  BY TopFacts DEF LoadPCs
<1> QED  BY <1>1, LoadPushed

LEMMA ResolverStep ==
  ASSUME ModulesInv, ResolverReturns
  PROVE  ModulesInv'
<1>1. /\ stack # <<>> /\ Top.pc = "resolver" /\ Top.pc \notin LoadPCs
      /\ UNCHANGED <<entries, installed, protects, declared, evals, imports, late>>
  BY DEF ResolverReturns, In, ResolverPCs, LoadPCs
<1>2. LoadOK(cache', stack', imports, entries, ToSet(late))
  <2>1. CASE stack' = Below /\ UNCHANGED cache
    BY <1>1, <2>1, TopFacts
  <2>2. ASSUME NEW r \in Names, Link(Top.id, r, Below)
        PROVE  LoadOK(cache', stack', imports, entries, ToSet(late))
    <3>1. /\ imports \in 0..MaxImports /\ imports <= imports /\ Top.id \in 1..imports
          /\ Below \in Seq(Frame) /\ NewId(Top.id, cache, Below)
          /\ LoadOK(cache, Below, imports, entries, ToSet(late))
      BY <1>1, TopFacts
    <3> QED  BY <2>2, <3>1, LinkStep
  <2>3. CASE Unwind
    BY <2>3, TopFacts, <1>1, UnwindStep
  <2>4. ASSUME NEW r \in Names, stack' = Append(Below, NewFrame("claim", Top.id, r, 0)),
               UNCHANGED cache
        PROVE  LoadOK(cache', stack', imports, entries, ToSet(late))
    <3> DEFINE f == NewFrame("claim", Top.id, r, 0)
    <3>1. f \in Frame /\ f.id = Top.id /\ f.pc = "claim"
      BY <1>1, TopFacts, FrameFacts, Bounds DEF NewFrame, Frame, LoaderPCs
    <3>2. f.pc \notin LoadPCs
      BY <3>1 DEF LoadPCs
    <3> HIDE DEF f
    <3>3. LoadOK(cache, Append(Below, f), imports, entries, ToSet(late))
      BY <1>1, <3>1, <3>2, NextCallback
    <3> QED  BY <2>4, <3>3 DEF f
  <2> DEFINE r == Resolve(Top.name)
  <2>5. \/ r = NoName /\ stack' = Below /\ UNCHANGED cache
        \/ r \in Names /\ Link(Top.id, r, Below)
        \/ Unwind
        \/ r \in Names /\ stack' = Append(Below, NewFrame("claim", Top.id, r, 0)) /\ UNCHANGED cache
    BY DEF ResolverReturns
  <2> HIDE DEF r
  <2> QED  BY <2>1, <2>2, <2>3, <2>4, <2>5
<1> QED  BY <1>1, <1>2, CallbackDone

LEMMA LoaderStep ==
  ASSUME ModulesInv, LoaderFails \/ LoaderReturns
  PROVE  ModulesInv'
<1>1. /\ stack # <<>> /\ Top.pc \in {"claim", "load", "claimed", "loaded"}
      /\ UNCHANGED <<entries, installed, protects, declared, evals, imports, late>>
  BY DEF LoaderFails, LoaderReturns, In
<1>2. /\ imports \in 0..MaxImports /\ imports <= imports /\ Top.id \in 1..imports
      /\ Top.name \in Names /\ Below \in Seq(Frame)
      /\ LoadOK(cache, Below, imports, entries, ToSet(late))
  BY <1>1, TopFacts
<1>3. CASE LoaderFails
  <2>1. stack' = Below /\ (cache' = cache \/ cache' = Put(cache, Top.id, Top.name, NotCached))
    BY <1>3 DEF LoaderFails
  <2>2. cache' = cache \/ cache' = Without(cache, Top)
    BY <2>1 DEF Put, Without
  <2>3. LoadOK(cache', stack', imports, entries, ToSet(late))
    BY <1>1, <2>1, <2>2, TopFacts
  <2> QED  BY <1>1, <2>3, CallbackDone
<1>4. CASE Top.pc = "claimed" /\ Link(Top.id, Top.name, Below)
  <2>1. NewId(Top.id, cache, Below)
    BY <1>1, <1>4, TopFacts DEF LoadPCs
  <2>2. LoadOK(cache', stack', imports, entries, ToSet(late))
    BY <1>2, <1>4, <2>1, LinkStep
  <2> QED  BY <1>1, <2>2, CallbackDone
<1>5. CASE Top.pc = "loaded" /\ Deliver(Top.id, Top.name, Below, cache)
  <2> DEFINE d == Without(cache, Top)
  <2>1. Top.pc \in LoadPCs
    BY <1>5 DEF LoadPCs
  <2>2. /\ LoadOK(d, Below, imports, entries, ToSet(late)) /\ NewId(Top.id, d, Below)
        /\ \/ d[Top.name] = NotCached /\ cache = [d EXCEPT ![Top.name] = Loading(Top.id)]
           \/ cache = d /\ \A i \in DOMAIN Below : d[Top.name].id # Below[i].id
    BY <1>1, <2>1, TopFacts
  <2> HIDE DEF d
  <2>3. LoadOK(cache', stack', imports, entries, ToSet(late))
    BY <1>2, <1>5, <2>2, DeliverStep
  <2> QED  BY <1>1, <2>3, CallbackDone
<1> QED  BY <1>3, <1>4, <1>5 DEF LoaderReturns, In

LEMMA LoaderDeclaresStep ==
  ASSUME ModulesInv, LoaderDeclares
  PROVE  ModulesInv'
<1> DEFINE kind == LoadedAs(Top.name)
           f == [Top EXCEPT !.pc = IF @ = "claim" THEN "claimed" ELSE "loaded"]
           t == Append(Below, f)
<1>1. /\ stack # <<>> /\ Top.pc \in {"claim", "load"} /\ Register(Top.name, kind)
      /\ stack' = t /\ UNCHANGED <<installed, evals, imports, late>>
  BY DEF LoaderDeclares, In
<1>2. Top \in Frame /\ Top.name \in Names /\ stack \in Seq(Frame)
  BY <1>1, TopFacts, Typed
<1>3. kind \in Kinds
  <2>1. kind # "none"
    BY DEF LoaderDeclares
  <2> QED  BY <1>2, <2>1, LoadedKind
<1>4. /\ f \in Frame /\ f.id = Top.id /\ f.name = Top.name
      /\ f.pc = IF Top.pc = "claim" THEN "claimed" ELSE "loaded"
  BY <1>1, <1>2 DEF Frame, LoaderPCs
<1> HIDE DEF kind, f
<1>5. /\ LoadOK(cache', stack, imports, entries', ToSet(late))
      /\ MadeBy(entries', evals, ToSet(late))
  BY <1>1, <1>2, <1>3, RegisterLoads
<1> DEFINE d == Without(cache', Top)
<1>6. /\ LoadOK(d, Below, imports, entries', ToSet(late))
      /\ NewId(Top.id, d, Below) /\ Top.id <= imports
      /\ Top.pc \in LoadPCs => \A i \in DOMAIN Below : d[Top.name].id # Below[i].id
      /\ cache'[Top.name].id = Top.id => /\ cache' = [d EXCEPT ![Top.name] = Loading(Top.id)]
                                         /\ d[Top.name] = NotCached
      /\ Top.pc \notin LoadPCs => d = cache'
  <2>1. LoadOK(cache', stack, imports, entries', ToSet(late)) /\ stack # <<>>
    BY <1>1, <1>5
  <2> QED  BY <2>1, LoadPopped, Zenon DEF Top, Below
<1>7. cache'[Top.name].id # Top.id => d = cache'
  BY DEF Without
<1> HIDE DEF d, t
<1>8. imports \in 0..MaxImports /\ imports <= imports
  BY Typed
<1>9. LoadOK(cache', Append(Below, f), imports, entries', ToSet(late))
  <2>1. CASE Top.pc = "claim"
    <3>1. f.pc \notin LoadPCs /\ f.pc # "evaluate" /\ d = cache' /\ NewId(f.id, d, Below) /\ f.id <= imports
      BY <1>4, <1>6, <2>1 DEF LoadPCs
    <3>2. LoadOK(d, Append(Below, f), imports, entries', ToSet(late))
      BY <1>4, <1>6, <1>8, <3>1, LoadPushed
    <3> QED  BY <3>1, <3>2
  <2>2. CASE Top.pc = "load" /\ cache'[Top.name].id = Top.id
    <3>1. /\ f.pc \in LoadPCs /\ f.pc # "evaluate" /\ NewId(f.id, d, Below) /\ f.id <= imports
          /\ d[f.name] = NotCached /\ cache' = [d EXCEPT ![f.name] = Loading(f.id)]
      BY <1>4, <1>6, <2>2 DEF LoadPCs
    <3>2. LoadOK([d EXCEPT ![f.name] = Loading(f.id)], Append(Below, f), imports, entries', ToSet(late))
      BY <1>4, <1>6, <1>8, <3>1, LoadBegun
    <3> QED  BY <3>1, <3>2
  <2>3. CASE Top.pc = "load" /\ cache'[Top.name].id # Top.id
    <3>1. /\ f.pc # "evaluate" /\ d = cache' /\ NewId(f.id, d, Below) /\ f.id <= imports
          /\ \A i \in DOMAIN Below : d[f.name].id # Below[i].id
      BY <1>4, <1>6, <1>7, <2>3 DEF LoadPCs
    <3>2. LoadOK(d, Append(Below, f), imports, entries', ToSet(late))
      BY <1>4, <1>6, <1>8, <3>1, LoadPushed
    <3> QED  BY <3>1, <3>2
  <2> QED  BY <1>1, <2>1, <2>2, <2>3
<1>10. LoadInv'
  BY <1>1, <1>5, <1>9, Reached DEF t
<1> QED  BY <1>1, <1>2, <1>3, <1>10, RegisterStep DEF ModulesInv

LEMMA EvaluateFailsStep ==
  ASSUME ModulesInv, EvaluateFails
  PROVE  ModulesInv'
<1>1. /\ stack # <<>> /\ stack' = Below
      /\ cache' = Put(cache, Top.id, Top.name, NotCached)
      /\ UNCHANGED <<entries, installed, protects, declared, evals, imports, late>>
  BY DEF EvaluateFails, In
<1>2. cache' = Without(cache, Top)
  BY <1>1 DEF Put, Without
<1>3. LoadOK(cache', stack', imports, entries, ToSet(late))
  BY <1>1, <1>2, TopFacts
<1> QED  BY <1>1, <1>3, CallbackDone

\* The innermost import evaluated a definition.
LEMMA LoadEvaluated ==
  ASSUME LoadOK(cache, stack, imports, entries, ToSet(late)), stack # <<>>,
         Top.pc = "evaluate", NEW k \in 1..MaxEvals,
         NEW g, \A j \in Names \ {Top.name} : g[j] = entries[j],
         entries[Top.name].kind # "none" =>
           /\ g[Top.name].kind = "exports" /\ g[Top.name].exports = k
           /\ g[Top.name].version = entries[Top.name].version,
         NEW h, ToSet(late) \subseteq h, h \subseteq ToSet(late) \cup {Top.name},
         \/ entries[Top.name].kind = "def" /\ entries[Top.name].version = Top.version
         \/ Top.name \in h,
         NEW d, d = Put(cache, Top.id, Top.name,
                        [id |-> Top.id, version |-> Top.version, exports |-> k])
  PROVE  LoadOK(d, Below, imports, g, h)
<1> DEFINE n == Top.name
           mod == [id |-> Top.id, version |-> Top.version, exports |-> k]
<1>1. /\ LoadTyped(cache, stack, imports) /\ OwnIds(cache, stack, imports)
      /\ Awaited(cache, stack, entries, ToSet(late)) /\ Evaluating(stack)
      /\ Delivered(cache, entries, ToSet(late))
  BY DEF LoadOK
<1>2. /\ Len(stack) \in Nat \ {0} /\ DOMAIN stack = 1..Len(stack) /\ Top = stack[Len(stack)] /\ Top \in Frame
      /\ Below \in Seq(Frame) /\ Len(Below) = Len(stack) - 1 /\ DOMAIN Below = 1..(Len(stack) - 1)
      /\ \A i \in DOMAIN Below : Below[i] = stack[i]
  BY <1>1, FrontFacts DEF LoadTyped, Top, Below
<1>3. /\ cache \in [Names -> Cached] /\ imports \in 0..MaxImports
      /\ Top.id \in 1..MaxImports /\ Top.name \in Names /\ Top.version \in 0..MaxDeclares
  <2>1. cache \in [Names -> Cached] /\ imports \in 0..MaxImports
    BY <1>1 DEF LoadTyped
  <2>2. Top \in Frame
    BY <1>2
  <2> QED  BY <2>1, <2>2, FrameFacts
<1>4. Top.pc = "evaluate" /\ Top.version # 0 /\ Top.id <= imports
  BY <1>1, <1>2 DEF Evaluating, OwnIds
<1>5. mod \in Cached /\ mod.id = Top.id /\ mod.version = Top.version /\ mod.exports = k
  BY <1>3, Bounds DEF Cached
<1>6. /\ \A j \in Names \ {n} : g[j] = entries[j]
      /\ entries[n].kind # "none" =>
           g[n].kind = "exports" /\ g[n].exports = k /\ g[n].version = entries[n].version
      /\ ToSet(late) \subseteq h /\ h \subseteq ToSet(late) \cup {n}
      /\ \/ entries[n].kind = "def" /\ entries[n].version = Top.version
         \/ n \in h
  OBVIOUS
<1> HIDE DEF mod
<1>7. /\ d \in [Names -> Cached] /\ \A j \in Names \ {n} : d[j] = cache[j]
      /\ cache[n].id = Top.id => d[n] = mod
      /\ cache[n].id # Top.id => d[n] = cache[n]
  BY <1>3, <1>5 DEF Put, mod
<1>8. LoadTyped(d, Below, imports)
  BY <1>2, <1>3, <1>7 DEF LoadTyped
<1>9. OwnIds(d, Below, imports)
  <2>1. DOMAIN Below \subseteq DOMAIN stack
    BY <1>2
  <2>2. \A j \in Names : d[j].id <= imports /\ (d[j].id = 0 => d[j] = NotCached)
    BY <1>1, <1>3, <1>4, <1>5, <1>7 DEF OwnIds
  <2> QED  BY <1>1, <1>2, <2>1, <2>2 DEF OwnIds
<1>10. Awaited(d, Below, g, h)
  <2> SUFFICES ASSUME NEW i \in DOMAIN Below, NEW j \in Names, d[j].id = Below[i].id
               PROVE  /\ j = Below[i].name /\ d[j] = Loading(Below[i].id) /\ Below[i].pc \in LoadPCs
                      /\ Below[i].pc = "evaluate" /\ j \notin h =>
                           g[j].kind = "def" /\ g[j].version = Below[i].version
                      /\ \A q \in DOMAIN Below : q > i => ~(Below[q].name = j /\ Below[q].pc \in LoadPCs)
    BY DEF Awaited
  <2>1. /\ i \in DOMAIN stack /\ Below[i] = stack[i]
        /\ Len(stack) \in DOMAIN stack /\ Len(stack) > i /\ stack[i].id # Top.id
    <3>1. /\ i \in DOMAIN stack /\ Below[i] = stack[i]
          /\ Len(stack) \in DOMAIN stack /\ Len(stack) > i
      BY <1>2
    <3>2. stack[i].id = stack[Len(stack)].id => i = Len(stack)
      BY <1>1, <3>1 DEF OwnIds
    <3> QED  BY <1>2, <3>1, <3>2
  <2>2. d[j] = cache[j]
    <3>1. d[j].id # Top.id
      BY <2>1
    <3>2. CASE j = n
      BY <1>5, <1>7, <3>1, <3>2
    <3> QED  BY <1>7, <3>2
  <2>3. /\ j = stack[i].name /\ cache[j] = Loading(stack[i].id) /\ stack[i].pc \in LoadPCs
        /\ stack[i].pc = "evaluate" /\ j \notin ToSet(late) =>
             entries[j].kind = "def" /\ entries[j].version = stack[i].version
        /\ \A q \in DOMAIN stack : q > i => ~(stack[q].name = j /\ stack[q].pc \in LoadPCs)
    BY <1>1, <2>1, <2>2 DEF Awaited
  <2>4. j # n
    BY <1>2, <1>4, <2>1, <2>3 DEF LoadPCs
  <2>5. \A q \in DOMAIN Below : q \in DOMAIN stack /\ Below[q] = stack[q]
    BY <1>2
  <2>6. Below[i].pc = "evaluate" /\ j \notin h =>
          g[j].kind = "def" /\ g[j].version = Below[i].version
    BY <1>6, <2>1, <2>3, <2>4
  <2>7. \A q \in DOMAIN Below : q > i => ~(Below[q].name = j /\ Below[q].pc \in LoadPCs)
    BY <2>3, <2>5
  <2> QED  BY <2>1, <2>2, <2>3, <2>6, <2>7
<1>11. Evaluating(Below)
  BY <1>1, <1>2 DEF Evaluating
<1>12. Delivered(d, g, h)
  <2>1. ASSUME NEW j \in Names, j # n PROVE Fits(d[j], j, g, h)
    <3>1. Fits(cache[j], j, entries, ToSet(late))
      BY <1>1 DEF Delivered
    <3>2. d[j] = cache[j] /\ g[j] = entries[j] /\ (j \notin h => j \notin ToSet(late))
      BY <1>6, <1>7, <2>1
    <3> QED  BY <3>1, <3>2 DEF Fits
  <2>2. Fits(d[n], n, g, h)
    BY <1>1, <1>3, <1>5, <1>6, <1>7 DEF Delivered, Fits
  <2> QED  BY <2>1, <2>2 DEF Delivered
<1> QED  BY <1>8, <1>9, <1>10, <1>11, <1>12 DEF LoadOK

LEMMA EvaluateReturnsStep ==
  ASSUME ModulesInv, EvaluateReturns
  PROVE  ModulesInv'
<1> DEFINE k == Len(evals) + 1
           n == Top.name
           mod == [id |-> Top.id, version |-> Top.version, exports |-> k]
<1>1. /\ stack # <<>> /\ Top.pc = "evaluate" /\ Len(evals) < MaxEvals
      /\ evals' = Append(evals, Top.version) /\ protects' = Rooted(k)
      /\ entries' = CacheExports(n, k)
      /\ cache' = Put(cache, Top.id, n, mod)
      /\ late' = IF entries[n].kind = "def" /\ entries[n].version = Top.version THEN late
                 ELSE Append(late, n)
      /\ stack' = Below /\ UNCHANGED <<installed, declared, imports>>
  BY DEF EvaluateReturns, In, Superseded
<1>2. /\ n \in Names /\ Top.version # 0 /\ Top \in Frame /\ late \in Seq(Names)
      /\ entries \in [Names -> Entry] /\ evals \in Seq(1..MaxDeclares)
      /\ MaxEvals \in Nat /\ k \in 1..MaxEvals
  BY <1>1, TopFacts, Typed, Bounds
<1>3. Top.version \in 1..MaxDeclares
  BY <1>2, FrameFacts, Bounds
<1>4. RegistryInv'
  BY <1>1, <1>2, <1>3, EvaluateStep DEF ModulesInv
<1> HIDE DEF k, n
<1>5. ToSet(late') = ToSet(late) \/ ToSet(late') = ToSet(late) \cup {n}
  BY <1>1, <1>2, AppendElems
<1>6. ~(entries[n].kind = "def" /\ entries[n].version = Top.version) => n \in ToSet(late')
  BY <1>1, <1>2, AppendElems
<1>7. /\ \A j \in Names \ {n} : entries'[j] = entries[j]
      /\ entries[n].kind # "none" =>
           /\ entries'[n].kind = "exports" /\ entries'[n].exports = k
           /\ entries'[n].version = entries[n].version
      /\ entries[n].kind = "none" => entries' = entries
  <2>1. entries[n].kind = "none" => entries' = entries
    BY <1>1 DEF CacheExports, Registered
  <2>2. ASSUME entries[n].kind # "none"
        PROVE  entries' = [entries EXCEPT ![n].kind = "exports", ![n].exports = k]
    BY <1>1, <2>2 DEF CacheExports, Registered
  <2>3. entries[n] \in Entry
    BY <1>2
  <2> QED  BY <1>2, <2>1, <2>2, <2>3 DEF Entry
<1>8. LoadOK(cache', stack', imports, entries', ToSet(late'))
  <2>1. LoadOK(cache, stack, imports, entries, ToSet(late))
    BY Typed
  <2>2. ToSet(late) \subseteq ToSet(late') /\ ToSet(late') \subseteq ToSet(late) \cup {n}
    BY <1>5
  <2>3. /\ stack # <<>> /\ Top.pc = "evaluate" /\ k \in 1..MaxEvals
        /\ cache' = Put(cache, Top.id, Top.name,
                        [id |-> Top.id, version |-> Top.version, exports |-> k])
    BY <1>1, <1>2 DEF n
  <2>4. /\ \A j \in Names \ {Top.name} : entries'[j] = entries[j]
        /\ entries[Top.name].kind # "none" =>
             /\ entries'[Top.name].kind = "exports" /\ entries'[Top.name].exports = k
             /\ entries'[Top.name].version = entries[Top.name].version
    BY <1>7 DEF n
  <2>5. /\ ToSet(late) \subseteq ToSet(late') /\ ToSet(late') \subseteq ToSet(late) \cup {Top.name}
        /\ \/ entries[Top.name].kind = "def" /\ entries[Top.name].version = Top.version
           \/ Top.name \in ToSet(late')
    BY <1>6, <2>2 DEF n
  <2>6. LoadOK(cache', Below, imports, entries', ToSet(late'))
    BY <2>1, <2>3, <2>4, <2>5, LoadEvaluated
  <2> QED  BY <1>1, <2>6
<1>9. MadeBy(entries', evals', ToSet(late'))
  <2> SUFFICES ASSUME NEW j \in Names \ ToSet(late'), entries'[j].kind = "exports"
               PROVE  /\ entries'[j].exports \in DOMAIN evals'
                      /\ evals'[entries'[j].exports] = entries'[j].version
    BY DEF MadeBy
  <2>1. /\ DOMAIN evals' = DOMAIN evals \cup {k} /\ evals'[k] = Top.version
        /\ \A i \in DOMAIN evals : evals'[i] = evals[i]
    BY <1>1, <1>2, <1>3 DEF k, ModulesInv, RegistryInv, RegistryTyped
  <2>2. CASE j = n
    <3>1. entries[n].kind = "def" /\ entries[n].version = Top.version
      BY <1>6, <2>2
    <3> QED  BY <1>7, <2>1, <2>2, <3>1
  <2>3. CASE j # n
    <3>1. j \in Names \ ToSet(late) /\ entries'[j] = entries[j]
      BY <1>5, <1>7, <2>3
    <3> QED  BY <2>1, <3>1, Typed DEF MadeBy
  <2> QED  BY <2>2, <2>3
<1>10. LoadInv'
  BY <1>1, <1>8, <1>9, Reached
<1> QED  BY <1>4, <1>10 DEF ModulesInv

-----------------------------------------------------------------------------
(* The invariant, and what follows from it.                                *)

LEMMA ModulesInit ==
  Init => ModulesInv
<1> SUFFICES ASSUME Init PROVE ModulesInv
  OBVIOUS
<1>1. /\ entries = [n \in Names |-> NoEntry] /\ installed = FALSE
      /\ protects = [v \in Values |-> 0] /\ cache = [n \in Names |-> NotCached]
      /\ stack = <<>> /\ declared = 0 /\ evals = <<>> /\ imports = 0 /\ late = <<>>
  BY DEF Init
<1>2. /\ NoEntry \in Entry /\ NoEntry.kind = "none" /\ NoEntry.exports = 0
  BY Bounds DEF NoEntry, Entry
<1>3. RegistryTyped
  <2>1. entries \in [Names -> Entry] /\ protects \in [Values -> Nat]
    BY <1>1, <1>2
  <2>2. evals \in Seq(1..MaxDeclares) /\ Len(evals) <= MaxEvals /\ late \in Seq(Names)
    BY <1>1, Bounds
  <2>3. installed \in BOOLEAN
    BY <1>1
  <2>4. declared \in 0..MaxDeclares
    BY <1>1, Bounds
  <2> QED  BY <2>1, <2>2, <2>3, <2>4, Zenon DEF RegistryTyped
<1>4. Named /\ Balanced
  BY <1>1, <1>2 DEF Named, Registered, Balanced
<1>5. \A n \in Names : Owned(entries[n]) = {}
  BY <1>1, <1>2 DEF Owned
<1>6. Apart /\ ProtectedWhileRegistered
  BY <1>5 DEF Apart, ProtectedWhileRegistered
<1>7. Unused
  BY <1>1 DEF Unused, Values
<1>8. Leaks
  <2>1. Leaked = {}
    BY <1>1 DEF Leaked
  <2> QED  BY <1>1, <2>1, FS_EmptySet DEF Leaks
<1>9. RegistryInv
  BY <1>3, <1>4, <1>6, <1>7, <1>8 DEF RegistryInv
<1>10. /\ cache \in [Names -> Cached] /\ imports \in 0..MaxImports
       /\ \A n \in Names : cache[n].id = 0 /\ cache[n].version = 0 /\ cache[n] = NotCached
  BY <1>1, NotCachedFacts, Bounds
<1>11. stack \in Seq(Frame) /\ DOMAIN stack = {}
  BY <1>1
<1>12. LoadOK(cache, stack, imports, entries, Superseding)
  BY <1>1, <1>10, <1>11
     DEF LoadOK, LoadTyped, OwnIds, Awaited, Evaluating, Delivered, Fits
<1>13. MadeBy(entries, evals, Superseding)
  BY <1>1, <1>2 DEF MadeBy
<1> QED  BY <1>9, <1>12, <1>13 DEF ModulesInv, LoadInv

LEMMA ModulesStep ==
  ModulesInv /\ [Next]_vars => ModulesInv'
<1> SUFFICES ASSUME ModulesInv, [Next]_vars PROVE ModulesInv'
  OBVIOUS
<1>1. CASE UNCHANGED vars
  <2>1. /\ UNCHANGED <<entries, installed, protects, declared, evals, imports, late>>
        /\ UNCHANGED <<cache, stack>>
    BY <1>1 DEF vars
  <2>2. LoadOK(cache', stack', imports, entries, ToSet(late))
    BY <2>1, Typed
  <2> QED  BY <2>1, <2>2, CallbackDone
<1>2. CASE HostCode
  BY <1>2, HostStep DEF HostCode
<1>3. CASE Callback
  BY <1>3, ResolverStep, LoaderDeclaresStep, LoaderStep, EvaluateReturnsStep,
     EvaluateFailsStep DEF Callback
<1> QED  BY <1>1, <1>2, <1>3 DEF Next

LEMMA ModulesAlways ==
  Spec => []ModulesInv
BY ModulesInit, ModulesStep, PTL DEF Spec

\* No protection is given back that was not taken, and every entry, waiting import
\* and cached module is of the kind the code gives it.
THEOREM ModulesTyped ==
  Spec => []TypeOK
<1>1. ModulesInv => TypeOK
  BY DEF ModulesInv, RegistryInv, RegistryTyped, LoadInv, LoadOK, LoadTyped, TypeOK
<1> QED  BY <1>1, ModulesAlways, PTL

\* module.rs:89 and 367: whatever the callbacks of an import replaced or evicted,
\* what an entry refers to is protected.
THEOREM EntriesProtected ==
  Spec => []ProtectedWhileRegistered
<1>1. ModulesInv => ProtectedWhileRegistered
  BY DEF ModulesInv, RegistryInv
<1> QED  BY <1>1, ModulesAlways, PTL

\* module.rs, register and evict: nothing is protected twice, and what is not given
\* back is at most one exports object per late evaluation.
THEOREM EntriesReleased ==
  Spec => []Released
<1>1. ModulesInv => Released
  BY DEF ModulesInv, RegistryInv, Balanced, Leaks, Released
<1> QED  BY <1>1, ModulesAlways, PTL

\* module.rs:98-99 and 382: Bun has of a name what is declared of it now, unless
\* a definition that was replaced while it was evaluated came late.
THEOREM CurrentLoaded ==
  Spec => []LoadedIsCurrent
<1>1. ModulesInv => LoadedIsCurrent
  BY DEF ModulesInv, LoadInv, LoadOK, Delivered, Fits, LoadedIsCurrent, Superseding, Registered
<1> QED  BY <1>1, ModulesAlways, PTL
==================================================================================
