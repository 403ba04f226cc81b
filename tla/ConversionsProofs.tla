---------------------------- MODULE ConversionsProofs ----------------------------
(***************************************************************************)
(* Proofs about Conversions, for any types, values and depth of nesting:   *)
(* which values come back from JavaScript as they were written.            *)
(*                                                                         *)
(* The impl of a type is correct as far as those of its parts are: each    *)
(* type has a lemma that says so, and the depths follow one another.  Sets *)
(* and maps need a second fact, that a value which came back once comes    *)
(* back as it is from then on: so no two members come back as one another. *)
(***************************************************************************)
EXTENDS CrossingProofs

-----------------------------------------------------------------------------
(* The impl that each type has, and what its values hold.                   *)

\* What comes back of x, and that y comes back.
Back(T, x) == From(T, Into(T, x))
Returns(T, x, y) == Back(T, x) = Ok(y)

Scalars == {"unit", "undefined", "null", "bool", "i32", "string", "char", "value", "view",
            "coerced"}
Kinds == {"option", "result", "vec", "set", "tuple", "map", "date"} \cup Pointers \cup Scalars

LEMMA KindsAre ==
  ASSUME NEW T, NEW x, HasType(T, x)
  PROVE  T[1] \in Kinds
<1>1. CASE T[1] \in {"unit", "option"}
  BY <1>1 DEF Kinds, Scalars
<1>2. CASE T[1] \notin Kinds
  <2>1. ~ ContentOK(T, x[2])
    BY <1>2 DEF ContentOK, Kinds, Scalars
  <2> QED  BY <1>2, <2>1 DEF HasType, Kinds, Scalars
<1> QED  BY <1>1, <1>2

LEMMA IntoIs ==
  ASSUME NEW T, NEW x
  PROVE  /\ T[1] = "option" => IntoJs(T, x) = OptionInto(T[2], x)
         /\ T[1] \in {"result"} \cup Pointers => IntoJs(T, x) = Into(T[2], x[2])
         /\ T[1] = "vec" => IntoJs(T, x) = SeqInto(T[2], x[2])
         /\ T[1] = "set" => IntoJs(T, x) = SetInto(T[2], x[2])
         /\ T[1] = "tuple" => IntoJs(T, x) = TupleInto(T[2], x[2])
         /\ T[1] = "map" => IntoJs(T, x) = MapInto(T[2], T[3], x[2])
         /\ T[1] = "date" => IntoJs(T, x) = DateFrom(x[2])
         /\ T[1] = "unit" => IntoJs(T, x) = Undefined
         /\ T[1] = "i32" => IntoJs(T, x) = Num(x[2])
         /\ T[1] \in {"string", "char"} => IntoJs(T, x) = Str(x[2])
         /\ T[1] \in {"bool", "undefined", "null", "value", "view", "coerced"} =>
              IntoJs(T, x) = x[2]
BY DEF IntoJs, Pointers, TextInto

\* The value of a result, with a tag.
Under(tag, r) == IF IsOk(r) THEN Ok(<<tag, r[2]>>) ELSE r

LEMMA FromIs ==
  ASSUME NEW T, NEW v
  PROVE  /\ T[1] = "option" =>
              FromJs(T, v) = IF Nullish(v) THEN Ok(<<"none">>) ELSE Under("some", From(T[2], v))
         /\ T[1] = "result" => FromJs(T, v) = Ok(From(T[2], v))
         /\ T[1] \in Pointers => FromJs(T, v) = Under(T[1], From(T[2], v))
         /\ T[1] = "vec" => FromJs(T, v) = Under("vec", VecFrom(T[2], v))
         /\ T[1] = "set" => FromJs(T, v) = Under("set", SetFrom(T[2], v))
         /\ T[1] = "tuple" =>
              FromJs(T, v) = Under("tuple", TupleFrom(T[2], v))
         /\ T[1] = "map" =>
              FromJs(T, v) = Under("map", EntriesFrom(T[2], T[3], v))
         /\ T[1] = "date" => FromJs(T, v) = TimeFrom(v)
         /\ T[1] = "unit" => FromJs(T, v) = Ok(<<"unit">>)
         /\ T[1] = "value" => FromJs(T, v) = Ok(<<"value", v>>)
         /\ T[1] = "view" => FromJs(T, v) = ViewFrom(T[2], v)
         /\ T[1] = "coerced" => FromJs(T, v) = CoercedFrom(T[2], v)
         /\ T[1] = "char" => FromJs(T, v) = CharFrom(v)
         /\ T[1] = "string" => FromJs(T, v) = TextFrom(v)
         /\ T[1] = "i32" /\ v[1] = "int" => FromJs(T, v) = Ok(<<"i32", v[2]>>)
         /\ T[1] \in {"bool", "undefined", "null"} /\ v[1] = T[1] =>
              FromJs(T, v) = Ok(<<T[1], v>>)
BY DEF FromJs, Pointers, ResultFrom, PointerFrom, OptionFrom, Mapped, Under

LEMMA PartsAre ==
  ASSUME NEW T, NEW x
  PROVE  /\ T[1] = "option" =>
              Parts(T, x) = IF x = <<"none">> THEN {} ELSE {<<T[2], x[2]>>}
         /\ T[1] \in {"result"} \cup Pointers => Parts(T, x) = {<<T[2], x[2]>>}
         /\ T[1] = "vec" => Parts(T, x) = {<<T[2], y>> : y \in ToSet(x[2])}
         /\ T[1] = "set" => Parts(T, x) = {<<T[2], y>> : y \in x[2]}
         /\ T[1] = "tuple" => Parts(T, x) = {<<T[2][i], x[2][i]>> : i \in DOMAIN T[2]}
         /\ T[1] = "map" => Parts(T, x) = {<<T[3], p[2]>> : p \in x[2]}
         /\ T[1] \in Scalars \cup {"date"} => Parts(T, x) = {}
BY DEF Parts, Pointers, Scalars

LEMMA LosslessIs ==
  ASSUME NEW T, NEW x
  PROVE  /\ T[1] = "option" =>
              (Lossless(T, x) <=> (x # <<"none">> => ~Nullish(Into(T[2], x[2]))))
         /\ T[1] = "map" =>
              (Lossless(T, x) <=> \A p \in x[2] : T[2] # "i32" /\ Str(p[1][2]) # Proto)
         /\ T[1] = "date" =>
              (Lossless(T, x) <=> x[2] % 2 = 0 /\ x[2] \in (-2 * MaxDate)..(2 * MaxDate))
         /\ T[1] \in Scalars \cup Pointers \cup {"result", "vec", "set", "tuple"} =>
              Lossless(T, x)
BY DEF Lossless, Pointers, Scalars

\* What a value of a type is.
LEMMA ContentIs ==
  ASSUME NEW T, NEW x, HasType(T, x)
  PROVE  /\ T[1] = "option" => x = <<"none">> \/ x = <<"some", x[2]>>
         /\ T[1] = "result" => x = <<"ok", x[2]>>
         /\ T[1] \in Pointers \cup {"vec", "set", "tuple", "map", "date", "i32", "string",
                                    "char", "bool", "undefined", "null", "value", "view",
                                    "coerced"} =>
              x = <<T[1], x[2]>> /\ ContentOK(T, x[2])
         /\ T[1] = "unit" => x = <<"unit">>
<1>1. T[1] = "unit" => ~ ContentOK(T, x[2])
  BY DEF ContentOK, Pointers
<1> QED  BY <1>1 DEF HasType, Tag, Pointers

LEMMA HeldIs ==
  ASSUME NEW T, NEW h, ContentOK(T, h)
  PROVE  /\ T[1] = "vec" => h \in Seq(ToSet(h))
         /\ T[1] = "set" => IsFiniteSet(h)
         /\ T[1] = "tuple" =>
              /\ T[2] \in Seq(ToSet(T[2])) /\ h \in Seq(ToSet(h)) /\ Len(h) = Len(T[2])
         /\ T[1] = "map" =>
              /\ IsFiniteSet(h)
              /\ \A p \in h : p = <<p[1], p[2]>> /\ p[1] = <<T[2], p[1][2]>>
              /\ \A p, q \in h : p[1] = q[1] => p = q
              /\ \/ T[2] = "string" /\ \A p \in h : IsText(p[1][2])
                 \/ T[2] = "i32" /\ \A p \in h : p[1][2] \in Int
         /\ T[1] \in {"date", "i32"} => h \in Int
         /\ T[1] = "string" => IsText(h)
         /\ T[1] = "char" => IsText(h) /\ Len(h) = 1
         /\ T[1] = "bool" => h \in Bools
         /\ T[1] = "undefined" => h = Undefined
         /\ T[1] = "null" => h = Null
         /\ T[1] = "view" => ViewAccepts(T[2], h)
         /\ T[1] = "coerced" =>
              \/ T[2] = "bool" /\ h \in Bools
              \/ T[2] = "string" /\ h = Str(h[2]) /\ IsText(h[2])
BY DEF ContentOK, Pointers

-----------------------------------------------------------------------------
(* What is collected.                                                      *)

LEMMA AllOkFacts ==
  ASSUME NEW n \in Nat, NEW g, DOMAIN g = 1..n
  PROVE  /\ (\A i \in 1..n : IsOk(g[i])) => AllOk(g) = Ok([i \in 1..n |-> g[i][2]])
         /\ (\E i \in 1..n : ~IsOk(g[i])) => ~IsOk(AllOk(g))
<1> DEFINE bad == {i \in DOMAIN g : ~IsOk(g[i])}
<1>1. AllOk(g) = IF bad = {} THEN Ok([i \in DOMAIN g |-> g[i][2]]) ELSE g[Min(bad)]
  BY DEF AllOk
<1>2. ASSUME bad # {} PROVE ~IsOk(g[Min(bad)])
  <2>1. bad \subseteq Nat
    OBVIOUS
  <2>2. Min(bad) \in bad
    <3> HIDE DEF bad
    <3> QED  BY <1>2, <2>1, SmallestNat DEF Min
  <2> QED  BY <2>2
<1>3. (\A i \in 1..n : IsOk(g[i])) => bad = {}
  OBVIOUS
<1>4. (\E i \in 1..n : ~IsOk(g[i])) => bad # {}
  OBVIOUS
<1> HIDE DEF bad
<1> QED  BY <1>1, <1>2, <1>3, <1>4

\* The members of a set, each once.
LEMMA SetInOrder ==
  ASSUME NEW S, IsFiniteSet(S)
  PROVE  \E n \in Nat : /\ SetToSeq(S) \in [1..n -> S]
                        /\ \A i, j \in 1..n : SetToSeq(S)[i] = SetToSeq(S)[j] => i = j
                        /\ \A x \in S : \E i \in 1..n : SetToSeq(S)[i] = x
<1> DEFINE n == Cardinality(S)
           q == SetToSeq(S)
<1>1. n \in Nat /\ ExistsBijection(1..n, S)
  BY FS_CardinalityType
<1>2. \E f \in [1..n -> S] : IsInjective(f)
  BY <1>1 DEF ExistsBijection, Bijection, Injection, IsInjective
<1>3. q \in [1..n -> S] /\ IsInjective(q)
  BY <1>2 DEF SetToSeq
<1> HIDE DEF q
<1>4. q \in Injection(1..n, S)
  BY <1>3 DEF Injection, IsInjective
<1>5. Cardinality(1..n) = n
  <2> HIDE DEF n
  <2> QED  BY <1>1, FS_Interval
<1>6. q \in Surjection(1..n, S)
  BY <1>4, <1>5, FS_Injection
<1>7. /\ \A i, j \in 1..n : q[i] = q[j] => i = j
      /\ \A x \in S : \E i \in 1..n : q[i] = x
  <2> HIDE DEF n
  <2> QED  BY <1>3, <1>6 DEF IsInjective, Surjection
<1> HIDE DEF n
<1> QED  BY <1>1, <1>3, <1>7 DEF q

\* Elements that are written and read back, from_js of a sequence of them.
LEMMA ElementsBack ==
  ASSUME NEW U, NEW n \in Nat, NEW s, DOMAIN s = 1..n
  PROVE  /\ ArrayFrom(U, s)[1] = "array"
         /\ (\A i \in 1..n : IsOk(Back(U, s[i]))) =>
              VecFrom(U, ArrayFrom(U, s)) = Ok([i \in 1..n |-> Back(U, s[i])[2]])
         /\ (\E i \in 1..n : ~IsOk(Back(U, s[i]))) => ~IsOk(VecFrom(U, ArrayFrom(U, s)))
<1> DEFINE g == [i \in 1..n |-> Back(U, s[i])]
           v == ArrayFrom(U, s)
           t == [i \in 1..n |-> Into(U, s[i])]
<1>1. v = <<"array", t>>
  BY DEF ArrayFrom, Arr
<1>2. VecFrom(U, v) = AllOk([i \in DOMAIN v[2] |-> From(U, v[2][i])])
  BY <1>1 DEF VecFrom, SeqFrom
<1>3. [i \in DOMAIN v[2] |-> From(U, v[2][i])] = g
  BY <1>1 DEF Back
<1> HIDE DEF v
<1>4. VecFrom(U, v) = AllOk(g) /\ v[1] = "array"
  BY <1>1, <1>2, <1>3
<1>5. DOMAIN g = 1..n /\ \A i \in 1..n : g[i] = Back(U, s[i])
  OBVIOUS
<1>6. [i \in 1..n |-> g[i][2]] = [i \in 1..n |-> Back(U, s[i])[2]]
  OBVIOUS
<1> HIDE DEF g
<1>7. /\ (\A i \in 1..n : IsOk(g[i])) => AllOk(g) = Ok([i \in 1..n |-> g[i][2]])
      /\ (\E i \in 1..n : ~IsOk(g[i])) => ~IsOk(AllOk(g))
  BY <1>5, AllOkFacts
<1> QED  BY <1>4, <1>5, <1>6, <1>7 DEF v

-----------------------------------------------------------------------------
(* What comes back, type by type.  P are the values nested one level less   *)
(* deep, Q those of them that survive.                                      *)

\* A value whose parts are in P, converted by the impl of its type.
Crosses(T, x, P) ==
  /\ HasType(T, x) /\ Parts(T, x) \subseteq P
  /\ Into(T, x) = IntoJs(T, x) /\ Back(T, x) = FromJs(T, Into(T, x))

\* What comes back is Ok(some value); it is the value itself when nothing is lost.
Comes(T, x, Q) ==
  /\ IsOk(Back(T, x)) => Returns(T, x, Back(T, x)[2])
  /\ Returns(T, x, x) <=> Lossless(T, x) /\ Parts(T, x) \subseteq Q

\* Once it came back, a value comes back as it is.
Settles(T, x, y) ==
  Returns(T, x, y) =>
    Returns(T, y, y) /\ (Nullish(Into(T, x)) <=> Nullish(Into(T, y)))

\* All of that, of every value in P.
Sound(P, Q) ==
  \A U, z : <<U, z>> \in P =>
    /\ IsOk(Back(U, z)) => Returns(U, z, Back(U, z)[2])
    /\ Returns(U, z, z) <=> <<U, z>> \in Q
    /\ \A y : <<U, y>> \in P => Settles(U, z, y)

LEMMA TextIs ==
  ASSUME NEW chars, IsText(chars)
  PROVE  RustChars(chars) = chars /\ TextFrom(Str(chars)) = Ok(<<"string", chars>>)
<1>1. RustChars(chars) = chars
  <2>1. \A i \in DOMAIN chars : chars[i] # "lone"
    BY DEF IsText, ToSet
  <2>2. chars = [i \in DOMAIN chars |-> chars[i]]
    BY DEF IsText
  <2> QED  BY <2>1, <2>2 DEF RustChars
<1> QED  BY <1>1 DEF TextFrom, Str, Stringified

LEMMA BoolTruth ==
  ASSUME NEW h \in Bools
  PROVE  h[1] = "bool" /\ h = Bool(h[2]) /\ Truthy(h) = h[2]
<1>1. CASE h = <<"bool", FALSE>>
  <2>1. h[1] = "bool" /\ h[2] = FALSE
    BY <1>1
  <2>2. Truthy(h) = FALSE
    BY <1>1, Zenon DEF Truthy, Bool
  <2> QED  BY <1>1, <2>1, <2>2, Zenon DEF Bool
<1>2. CASE h = <<"bool", TRUE>>
  <2>1. h[1] = "bool" /\ h[2] = TRUE
    BY <1>2
  <2>2. h # <<"bool", FALSE>>
    <3>1. SUFFICES ASSUME h = <<"bool", FALSE>> PROVE FALSE
      OBVIOUS
    <3>2. h[2] = FALSE
      BY <3>1
    <3> QED  BY <2>1, <3>2
  <2>3. h \notin {Undefined, Null, Num(0), Big(0), Str(<<>>)}
    BY <2>1 DEF Undefined, Null, Num, Big, Str
  <2>4. Truthy(h) = TRUE
    BY <2>2, <2>3, Zenon DEF Truthy, Bool
  <2> QED  BY <1>2, <2>1, <2>4, Zenon DEF Bool
<1> QED  BY <1>1, <1>2, Zenon DEF Bools, Bool

LEMMA ScalarBack ==
  ASSUME NEW T, T[1] \in Scalars, NEW x, NEW P, Crosses(T, x, P)
  PROVE  Returns(T, x, x)
<1> DEFINE h == x[2]
           v == Into(T, x)
           b == Back(T, x)
<1>1. /\ T[1] # "unit" => x = <<T[1], h>> /\ ContentOK(T, h)
      /\ T[1] = "unit" => x = <<"unit">>
      /\ v = IntoJs(T, x) /\ b = FromJs(T, v)
  BY ContentIs DEF Crosses, Scalars
<1>2. /\ T[1] = "i32" => v = Num(h)
      /\ T[1] \in {"string", "char"} => v = Str(h)
      /\ T[1] \in {"bool", "undefined", "null", "value", "view", "coerced"} => v = h
  BY <1>1, IntoIs
<1> SUFFICES b = Ok(x)
  BY DEF Returns
<1> HIDE DEF v, b
<1>3. CASE T[1] \in {"unit", "value"}
  <2>1. FromJs(T, v) = IF T[1] = "unit" THEN Ok(<<"unit">>) ELSE Ok(<<"value", v>>)
    BY <1>3, FromIs
  <2> HIDE DEF h
  <2>2. CASE T[1] = "unit"
    BY <1>1, <2>1, <2>2
  <2>3. CASE T[1] = "value"
    <3>1. b = Ok(<<"value", h>>) /\ x = <<"value", h>>
      BY <1>1, <1>2, <2>1, <2>3
    <3> QED  BY <3>1
  <2> QED  BY <1>3, <2>2, <2>3
<1>4. CASE T[1] \in {"undefined", "null", "bool"}
  <2>1. \/ h = Undefined /\ T[1] = "undefined"
        \/ h = Null /\ T[1] = "null"
        \/ h \in Bools /\ T[1] = "bool"
    BY <1>1, <1>4, HeldIs
  <2> HIDE DEF h
  <2>2. h[1] = T[1] /\ v = h
    BY <1>2, <1>4, <2>1, BoolTruth DEF Undefined, Null
  <2>3. FromJs(T, v) = Ok(<<T[1], v>>)
    BY <1>4, <2>2, FromIs
  <2>4. x = <<T[1], v>>
    BY <1>1, <1>4, <2>2
  <2> QED  BY <1>1, <2>3, <2>4
<1>5. CASE T[1] = "i32"
  <2> HIDE DEF h
  <2>1. v = <<"int", h>>
    BY <1>2, <1>5 DEF Num
  <2>2. v[1] = "int" /\ v[2] = h
    BY <2>1
  <2>3. FromJs(T, v) = Ok(<<"i32", v[2]>>)
    BY <1>5, <2>2, FromIs
  <2>4. x = <<"i32", v[2]>>
    BY <1>1, <1>5, <2>2
  <2> QED  BY <1>1, <2>3, <2>4
<1>6. CASE T[1] = "string"
  <2>1. IsText(h)
    BY <1>1, <1>6, HeldIs
  <2> HIDE DEF h
  <2>2. TextFrom(v) = Ok(<<"string", h>>)
    BY <1>2, <1>6, <2>1, TextIs
  <2>3. FromJs(T, v) = TextFrom(v)
    BY <1>6, FromIs
  <2>4. x = <<"string", h>>
    BY <1>1, <1>6
  <2> QED  BY <1>1, <2>2, <2>3, <2>4
<1>7. CASE T[1] = "char"
  <2>1. IsText(h) /\ Len(h) = 1
    BY <1>1, <1>7, HeldIs
  <2> HIDE DEF h
  <2>2. TextFrom(v) = Ok(<<"string", h>>)
    BY <1>2, <1>7, <2>1, TextIs
  <2>3. IsOk(TextFrom(v)) /\ TextFrom(v)[2][2] = h
    BY <2>2 DEF Ok, IsOk
  <2>4. CharFrom(v) = Ok(<<"char", h>>)
    BY <2>1, <2>3 DEF CharFrom
  <2>5. FromJs(T, v) = CharFrom(v)
    BY <1>7, FromIs
  <2>6. x = <<"char", h>>
    BY <1>1, <1>7
  <2> QED  BY <1>1, <2>4, <2>5, <2>6
<1>8. CASE T[1] = "view"
  <2>1. ViewAccepts(T[2], h)
    BY <1>1, <1>8, HeldIs
  <2> HIDE DEF h
  <2>2. ViewFrom(T[2], v) = Ok(<<"view", h>>)
    BY <1>2, <1>8, <2>1 DEF ViewFrom
  <2>3. FromJs(T, v) = ViewFrom(T[2], v)
    BY <1>8, FromIs
  <2>4. x = <<"view", h>>
    BY <1>1, <1>8
  <2> QED  BY <1>1, <2>2, <2>3, <2>4
<1>9. CASE T[1] = "coerced"
  <2>1. \/ T[2] = "bool" /\ h \in Bools
        \/ T[2] = "string" /\ h = Str(h[2]) /\ IsText(h[2])
    BY <1>1, <1>9, HeldIs
  <2> HIDE DEF h
  <2>2. ASSUME T[2] = "bool" /\ h \in Bools
        PROVE  CoercedFrom(T[2], h) = Ok(<<"coerced", h>>)
    <3>1. Bool(Truthy(h)) = h
      BY <2>2, BoolTruth, Zenon
    <3> QED  BY <2>2, <3>1 DEF CoercedFrom
  <2>3. ASSUME T[2] = "string", h = Str(h[2]), IsText(h[2])
        PROVE  CoercedFrom(T[2], h) = Ok(<<"coerced", h>>)
    <3>1. h[1] = "string"
      BY <2>3 DEF Str
    <3>2. Stringified(h) = h[2]
      BY <2>3, <3>1, TextIs DEF Stringified
    <3> QED  BY <2>3, <3>2 DEF CoercedFrom
  <2>4. CoercedFrom(T[2], h) = Ok(<<"coerced", h>>)
    BY <2>1, <2>2, <2>3
  <2>5. FromJs(T, v) = CoercedFrom(T[2], v)
    BY <1>9, FromIs, Zenon
  <2>6. x = <<"coerced", h>>
    BY <1>1, <1>9
  <2>7. b = Ok(<<"coerced", h>>)
    BY <1>1, <1>2, <1>9, <2>4, <2>5
  <2> QED  BY <2>6, <2>7
<1> QED  BY <1>3, <1>4, <1>5, <1>6, <1>7, <1>8, <1>9 DEF Scalars

LEMMA OkIs ==
  /\ \A a, b : Ok(a) = Ok(b) => a = b
  /\ \A a : IsOk(Ok(a)) /\ Ok(a)[2] = a
BY DEF Ok, IsOk

LEMMA ScalarSound ==
  ASSUME NEW T, T[1] \in Scalars, NEW x, NEW P, NEW Q, Crosses(T, x, P)
  PROVE  Comes(T, x, Q) /\ \A y : Settles(T, x, y)
<1>1. Returns(T, x, x)
  BY ScalarBack
<1>2. Back(T, x) = Ok(x)
  BY <1>1 DEF Returns
<1>3. Parts(T, x) = {} /\ Lossless(T, x)
  BY PartsAre, LosslessIs
<1>4. Comes(T, x, Q)
  BY <1>1, <1>2, <1>3, OkIs DEF Comes, Returns
<1>5. ASSUME NEW y, Returns(T, x, y) PROVE y = x
  BY <1>2, <1>5, OkIs DEF Returns
<1> QED  BY <1>1, <1>4, <1>5 DEF Settles

LEMMA DateBack ==
  ASSUME NEW T, T[1] = "date", NEW x, NEW P, Crosses(T, x, P)
  PROVE  /\ x = <<"date", x[2]>> /\ x[2] \in Int
         /\ Millis(x[2]) \in Int
         /\ 2 * Millis(x[2]) = x[2] <=> x[2] % 2 = 0
         /\ Into(T, x) = DateFrom(x[2]) /\ ~Nullish(Into(T, x))
         /\ Back(T, x) = IF Millis(x[2]) \in (-MaxDate)..MaxDate
                         THEN Ok(<<"date", 2 * Millis(x[2])>>) ELSE Refuse("Date")
<1>1. /\ x = <<"date", x[2]>> /\ x[2] \in Int
      /\ Into(T, x) = IntoJs(T, x) /\ Back(T, x) = FromJs(T, Into(T, x))
  BY ContentIs, HeldIs DEF Crosses
<1> DEFINE t == x[2]
           v == Into(T, x)
           b == Back(T, x)
<1>2. t \in Int
  BY <1>1
<1>3. v = DateFrom(t) /\ b = TimeFrom(v)
  BY <1>1, IntoIs, FromIs
<1> HIDE DEF t
<1>4. Millis(t) \in Int /\ (2 * Millis(t) = t <=> t % 2 = 0)
  <2>1. CASE t >= 0
    <3>1. t \div 2 \in Int /\ t = 2 * (t \div 2) + (t % 2)
      BY <1>2
    <3> QED  BY <1>2, <2>1, <3>1 DEF Millis
  <2>2. CASE ~(t >= 0)
    <3> DEFINE u == -t
    <3>1. u \in Int /\ u >= 0 /\ t = -u
      BY <1>2, <2>2
    <3>2. Millis(t) = -(u \div 2)
      BY <2>2 DEF Millis
    <3> HIDE DEF u
    <3>3. u \div 2 \in Int /\ u = 2 * (u \div 2) + (u % 2)
      BY <3>1
    <3>4. u % 2 = 0 <=> t % 2 = 0
      BY <3>1
    <3>5. 2 * (-(u \div 2)) = t <=> u % 2 = 0
      BY <3>1, <3>3
    <3>6. -(u \div 2) \in Int
      BY <3>3
    <3> QED  BY <3>2, <3>4, <3>5, <3>6
  <2> QED  BY <2>1, <2>2
<1> HIDE DEF v, b
<1>5. CASE Millis(t) \in (-MaxDate)..MaxDate
  <2>1. v = <<"date", Millis(t)>>
    BY <1>3, <1>5 DEF DateFrom, DateAt
  <2>2. b = Ok(<<"date", 2 * Millis(t)>>)
    BY <1>3, <2>1 DEF TimeFrom
  <2>3. ~Nullish(v)
    <3>1. v[1] = "date"
      BY <2>1
    <3> QED  BY <3>1 DEF Nullish, Undefined, Null
  <2> QED  BY <1>1, <1>3, <1>4, <1>5, <2>2, <2>3 DEF t, v, b
<1>6. CASE Millis(t) \notin (-MaxDate)..MaxDate
  <2>1. v = <<"invalid date">>
    BY <1>3, <1>6 DEF DateFrom, InvalidDate
  <2>2. v[1] = "invalid date"
    BY <2>1
  <2>3. ~Nullish(v)
    <3>1. "invalid date" # "undefined" /\ "invalid date" # "null"
      OBVIOUS
    <3>2. v # Undefined /\ v # Null
      <4>1. Undefined[1] = "undefined" /\ Null[1] = "null"
        BY DEF Undefined, Null
      <4> QED  BY <2>2, <3>1, <4>1
    <3> QED  BY <3>2 DEF Nullish
  <2>4. b = Refuse("Date")
    BY <1>3, <2>2 DEF TimeFrom
  <2> QED  BY <1>1, <1>3, <1>4, <1>6, <2>3, <2>4 DEF t, v, b
<1> QED  BY <1>5, <1>6

LEMMA UnderIs ==
  ASSUME NEW tag, NEW r
  PROVE  /\ IsOk(Under(tag, r)) => Under(tag, r) = Ok(Under(tag, r)[2])
         /\ \A y : r = Ok(y) => Under(tag, r) = Ok(<<tag, y>>)
         /\ (IsOk(r) => r = Ok(r[2])) => \A y : Under(tag, r) = Ok(<<tag, y>>) => r = Ok(y)
<1>1. ASSUME IsOk(Under(tag, r)) PROVE Under(tag, r) = Ok(Under(tag, r)[2])
  BY <1>1, OkIs DEF Under
<1>2. ASSUME NEW y, r = Ok(y) PROVE Under(tag, r) = Ok(<<tag, y>>)
  BY <1>2, OkIs DEF Under
<1>3. ASSUME IsOk(r) => r = Ok(r[2]), NEW y, Under(tag, r) = Ok(<<tag, y>>) PROVE r = Ok(y)
  <2>1. IsOk(r)
    BY <1>3, OkIs DEF Under
  <2>2. Ok(<<tag, r[2]>>) = Ok(<<tag, y>>)
    BY <1>3, <2>1 DEF Under
  <2>3. <<tag, r[2]>> = <<tag, y>>
    BY <2>2, OkIs
  <2>4. r[2] = y
    BY <2>3
  <2> QED  BY <1>3, <2>1, <2>4
<1> QED  BY <1>1, <1>2, <1>3

LEMMA DateSound ==
  ASSUME NEW T, T[1] = "date", NEW x, NEW P, NEW Q, Crosses(T, x, P)
  PROVE  Comes(T, x, Q) /\ \A y : Crosses(T, y, P) => Settles(T, x, y)
<1> DEFINE t == x[2]
           m == Millis(t)
           r == (-MaxDate)..MaxDate
           b == Back(T, x)
<1>1. /\ x = <<"date", t>> /\ t \in Int /\ m \in Int /\ (2 * m = t <=> t % 2 = 0)
      /\ ~Nullish(Into(T, x)) /\ b = IF m \in r THEN Ok(<<"date", 2 * m>>) ELSE Refuse("Date")
  BY DateBack
<1>2. MaxDate \in Nat
  BY ConversionsAssumption
<1>3. /\ Parts(T, x) = {}
      /\ Lossless(T, x) <=> t % 2 = 0 /\ t \in (-2 * MaxDate)..(2 * MaxDate)
  BY PartsAre, LosslessIs
<1> HIDE DEF t, m, b
<1>4. m \notin r => ~IsOk(b)
  BY <1>1 DEF Refuse, IsOk
<1>5. b = Ok(x) <=> m \in r /\ 2 * m = t
  <2>1. ASSUME b = Ok(x) PROVE m \in r /\ 2 * m = t
    <3>1. m \in r
      BY <2>1, <1>4, OkIs
    <3>2. <<"date", 2 * m>> = <<"date", t>>
      BY <1>1, <2>1, <3>1, OkIs
    <3> QED  BY <3>1, <3>2
  <2>2. ASSUME m \in r, 2 * m = t PROVE b = Ok(x)
    BY <1>1, <2>2
  <2> QED  BY <2>1, <2>2
<1>6. m \in r /\ 2 * m = t <=> t % 2 = 0 /\ t \in (-2 * MaxDate)..(2 * MaxDate)
  BY <1>1, <1>2
<1>7. Comes(T, x, Q)
  <2>1. ASSUME IsOk(b) PROVE b = Ok(b[2])
    BY <1>1, <1>4, <2>1, OkIs
  <2>2. b = Ok(x) <=> Lossless(T, x) /\ Parts(T, x) \subseteq Q
    BY <1>3, <1>5, <1>6
  <2> QED  BY <2>1, <2>2 DEF Comes, Returns, b
<1>8. ASSUME NEW y, Crosses(T, y, P), Returns(T, x, y)
      PROVE  Returns(T, y, y) /\ (Nullish(Into(T, x)) <=> Nullish(Into(T, y)))
  <2> DEFINE u == y[2]
             l == Millis(u)
             c == Back(T, y)
  <2>1. /\ y = <<"date", u>> /\ u \in Int /\ l \in Int /\ (2 * l = u <=> u % 2 = 0)
        /\ ~Nullish(Into(T, y)) /\ c = IF l \in r THEN Ok(<<"date", 2 * l>>) ELSE Refuse("Date")
    BY <1>8, DateBack
  <2> HIDE DEF u, l, c
  <2>2. b = Ok(y)
    BY <1>8 DEF Returns, b
  <2>3. m \in r
    BY <1>4, <2>2, OkIs
  <2>4. <<"date", 2 * m>> = <<"date", u>>
    BY <1>1, <2>1, <2>2, <2>3, OkIs
  <2>5. u = 2 * m
    BY <2>4
  <2>6. u % 2 = 0
    BY <1>1, <2>5
  <2>7. 2 * l = u /\ l = m
    BY <1>1, <2>1, <2>5, <2>6
  <2>8. c = Ok(y)
    BY <2>1, <2>3, <2>7
  <2> QED  BY <1>1, <2>1, <2>8 DEF Returns, c
<1> QED  BY <1>7, <1>8 DEF Settles

\* One value inside: the impl of its type settles what comes back.
LEMMA PartIs ==
  ASSUME NEW P, NEW Q, Sound(P, Q), NEW U, NEW z, <<U, z>> \in P
  PROVE  /\ IsOk(Back(U, z)) => Back(U, z) = Ok(Back(U, z)[2])
         /\ Returns(U, z, z) <=> <<U, z>> \in Q
         /\ \A y : <<U, y>> \in P => Settles(U, z, y)
BY DEF Sound, Returns

LEMMA PointerSound ==
  ASSUME NEW T, T[1] \in Pointers, NEW P, NEW Q, Sound(P, Q), NEW x, Crosses(T, x, P)
  PROVE  Comes(T, x, Q) /\ \A y : Crosses(T, y, P) => Settles(T, x, y)
<1> DEFINE U == T[2]
<1>1. ASSUME NEW w, Crosses(T, w, P)
      PROVE  /\ w = <<T[1], w[2]>> /\ Parts(T, w) = {<<U, w[2]>>} /\ <<U, w[2]>> \in P
             /\ Into(T, w) = Into(U, w[2])
             /\ Back(T, w) = Under(T[1], Back(U, w[2]))
  <2>1. w = <<T[1], w[2]>>
    BY <1>1, ContentIs DEF Crosses
  <2>2. Parts(T, w) = {<<U, w[2]>>}
    BY PartsAre
  <2>3. IntoJs(T, w) = Into(U, w[2])
    BY IntoIs
  <2>4. Into(T, w) = Into(U, w[2]) /\ Back(T, w) = FromJs(T, Into(T, w))
    BY <1>1, <2>3 DEF Crosses
  <2>5. FromJs(T, Into(T, w)) = Under(T[1], From(U, Into(T, w)))
    BY FromIs
  <2> QED  BY <1>1, <2>1, <2>2, <2>4, <2>5 DEF Crosses, Back
<1> DEFINE z == x[2]
           b == Back(U, z)
<1>2. /\ x = <<T[1], z>> /\ Parts(T, x) = {<<U, z>>} /\ <<U, z>> \in P
      /\ Into(T, x) = Into(U, z) /\ Back(T, x) = Under(T[1], b)
  BY <1>1
<1>3. /\ IsOk(b) => b = Ok(b[2])
      /\ b = Ok(z) <=> <<U, z>> \in Q
      /\ \A y : <<U, y>> \in P => Settles(U, z, y)
  BY <1>2, PartIs DEF Returns
<1> HIDE DEF z, b
<1>4. ASSUME NEW w, NEW y, w = <<T[1], y>>
      PROVE  Back(T, x) = Ok(w) <=> b = Ok(y)
  BY <1>2, <1>3, <1>4, UnderIs
<1>5. Comes(T, x, Q)
  <2>1. ASSUME IsOk(Back(T, x)) PROVE Back(T, x) = Ok(Back(T, x)[2])
    BY <1>2, <2>1, OkIs DEF Under
  <2>2. Back(T, x) = Ok(x) <=> <<U, z>> \in Q
    BY <1>2, <1>3, <1>4
  <2>3. Lossless(T, x)
    BY LosslessIs
  <2> QED  BY <1>2, <2>1, <2>2, <2>3 DEF Comes, Returns
<1>6. ASSUME NEW y, Crosses(T, y, P), Returns(T, x, y)
      PROVE  Returns(T, y, y) /\ (Nullish(Into(T, x)) <=> Nullish(Into(T, y)))
  <2> DEFINE u == y[2]
  <2>1. /\ y = <<T[1], u>> /\ <<U, u>> \in P
        /\ Into(T, y) = Into(U, u) /\ Back(T, y) = Under(T[1], Back(U, u))
    BY <1>1, <1>6
  <2> HIDE DEF u
  <2>2. Returns(U, z, u)
    BY <1>4, <1>6, <2>1 DEF Returns, b
  <2>3. Returns(U, u, u) /\ (Nullish(Into(U, z)) <=> Nullish(Into(U, u)))
    BY <1>3, <2>1, <2>2 DEF Settles
  <2>4. Back(T, y) = Ok(y)
    BY <2>1, <2>3, OkIs DEF Under, Returns
  <2> QED  BY <1>2, <2>1, <2>3, <2>4 DEF Returns
<1> QED  BY <1>5, <1>6 DEF Settles

LEMMA OptionSound ==
  ASSUME NEW T, T[1] = "option", NEW P, NEW Q, Sound(P, Q), NEW x, Crosses(T, x, P)
  PROVE  Comes(T, x, Q) /\ \A y : Crosses(T, y, P) => Settles(T, x, y)
<1> DEFINE U == T[2]
           none == <<"none">>
<1>1. none[1] = "none" /\ Ok(none)[2] = none /\ \A u : <<"some", u>> # none
  <2>1. \A u : <<"some", u>>[1] # none[1]
    OBVIOUS
  <2> QED  BY <2>1, OkIs
<1>2. ASSUME NEW w, Crosses(T, w, P)
      PROVE  /\ w = none \/ w = <<"some", w[2]>>
             /\ w = none =>
                  Parts(T, w) = {} /\ Nullish(Into(T, w)) /\ Back(T, w) = Ok(none)
             /\ w # none =>
                  /\ Parts(T, w) = {<<U, w[2]>>} /\ <<U, w[2]>> \in P
                  /\ Into(T, w) = Into(U, w[2])
                  /\ Back(T, w) = IF Nullish(Into(T, w)) THEN Ok(none)
                                  ELSE Under("some", Back(U, w[2]))
  <2>1. w = none \/ w = <<"some", w[2]>>
    BY <1>2, ContentIs DEF Crosses
  <2>2. Parts(T, w) = IF w = none THEN {} ELSE {<<U, w[2]>>}
    BY PartsAre
  <2>3. Into(T, w) = IF w = none THEN Undefined ELSE Into(U, w[2])
    <3>1. IntoJs(T, w) = OptionInto(U, w)
      BY IntoIs
    <3>2. Into(T, w) = IntoJs(T, w)
      BY <1>2 DEF Crosses
    <3> QED  BY <3>1, <3>2 DEF OptionInto
  <2>4. Back(T, w) = IF Nullish(Into(T, w)) THEN Ok(none) ELSE Under("some", From(U, Into(T, w)))
    <3>1. Back(T, w) = FromJs(T, Into(T, w))
      BY <1>2 DEF Crosses
    <3> QED  BY <3>1, FromIs
  <2>5. Nullish(Undefined)
    BY DEF Nullish
  <2>6. w # none => <<U, w[2]>> \in P
    BY <1>2, <2>2 DEF Crosses
  <2> QED  BY <2>1, <2>2, <2>3, <2>4, <2>5, <2>6 DEF Back
<1>3. Lossless(T, x) <=> (x # none => ~Nullish(Into(U, x[2])))
  BY LosslessIs
<1> HIDE DEF none
<1>4. CASE x = none
  <2>1. Back(T, x) = Ok(x) /\ Parts(T, x) = {} /\ Nullish(Into(T, x))
    BY <1>2, <1>4
  <2>2. Comes(T, x, Q)
    BY <1>3, <1>4, <2>1, OkIs DEF Comes, Returns
  <2>3. ASSUME NEW y, Returns(T, x, y) PROVE y = x
    BY <2>1, <2>3, OkIs DEF Returns
  <2> QED  BY <2>1, <2>2, <2>3 DEF Settles, Returns
<1>5. CASE x # none
  <2> DEFINE z == x[2]
             b == Back(U, z)
             n == Nullish(Into(T, x))
  <2>1. /\ x = <<"some", z>> /\ Parts(T, x) = {<<U, z>>} /\ <<U, z>> \in P
        /\ Into(T, x) = Into(U, z)
        /\ Back(T, x) = IF n THEN Ok(none) ELSE Under("some", b)
        /\ Lossless(T, x) <=> ~n
    BY <1>2, <1>3, <1>5
  <2>2. /\ IsOk(b) => b = Ok(b[2])
        /\ b = Ok(z) <=> <<U, z>> \in Q
        /\ \A y : <<U, y>> \in P => Settles(U, z, y)
    BY <2>1, PartIs DEF Returns
  <2> HIDE DEF z, b
  <2>3. ASSUME NEW w, NEW y, w = <<"some", y>>
        PROVE  Back(T, x) = Ok(w) <=> ~n /\ b = Ok(y)
    <3>1. ASSUME ~n, b = Ok(y) PROVE Back(T, x) = Ok(w)
      BY <2>1, <2>3, <3>1, OkIs DEF Under
    <3>2. ASSUME Back(T, x) = Ok(w) PROVE ~n /\ b = Ok(y)
      <4>1. ~n
        BY <1>1, <2>1, <2>3, <3>2, OkIs
      <4> QED  BY <2>1, <2>2, <2>3, <3>2, <4>1, UnderIs
    <3> QED  BY <3>1, <3>2
  <2>4. Comes(T, x, Q)
    <3>1. ASSUME IsOk(Back(T, x)) PROVE Back(T, x) = Ok(Back(T, x)[2])
      BY <2>1, <3>1, OkIs DEF Under
    <3>2. Back(T, x) = Ok(x) <=> ~n /\ <<U, z>> \in Q
      BY <2>1, <2>2, <2>3
    <3> QED  BY <2>1, <3>1, <3>2 DEF Comes, Returns
  <2>5. ASSUME NEW y, Crosses(T, y, P), Returns(T, x, y)
        PROVE  Returns(T, y, y) /\ (n <=> Nullish(Into(T, y)))
    <3>1. CASE y = none
      <4>1. Returns(T, y, y) /\ Nullish(Into(T, y))
        BY <1>2, <2>5, <3>1 DEF Returns
      <4>2. n
        <5>1. SUFFICES ASSUME ~n PROVE FALSE
          OBVIOUS
        <5>2. Under("some", b) = Ok(none)
          BY <2>1, <2>5, <3>1, <5>1 DEF Returns
        <5>3. IsOk(b)
          BY <5>2, OkIs DEF Under
        <5>4. <<"some", b[2]>> = none
          BY <5>2, <5>3, OkIs DEF Under
        <5> QED  BY <1>1, <5>4
      <4> QED  BY <4>1, <4>2
    <3>2. CASE y # none
      <4> DEFINE u == y[2]
      <4>1. /\ y = <<"some", u>> /\ <<U, u>> \in P
            /\ Into(T, y) = Into(U, u)
            /\ Back(T, y) = IF Nullish(Into(T, y)) THEN Ok(none) ELSE Under("some", Back(U, u))
        BY <1>2, <2>5, <3>2
      <4> HIDE DEF u
      <4>2. ~n /\ Returns(U, z, u)
        BY <2>3, <2>5, <4>1 DEF Returns, b
      <4>3. Returns(U, u, u) /\ (Nullish(Into(U, z)) <=> Nullish(Into(U, u)))
        BY <2>2, <4>1, <4>2 DEF Settles
      <4>4. ~Nullish(Into(T, y))
        BY <2>1, <4>1, <4>2, <4>3
      <4>5. Back(T, y) = Ok(y)
        BY <4>1, <4>3, <4>4, OkIs DEF Under, Returns
      <4> QED  BY <4>2, <4>4, <4>5 DEF Returns
    <3> QED  BY <3>1, <3>2
  <2> QED  BY <2>4, <2>5 DEF Settles
<1> QED  BY <1>4, <1>5

LEMMA ResultSound ==
  ASSUME NEW T, T[1] = "result", NEW P, NEW Q, Sound(P, Q), NEW x, Crosses(T, x, P)
  PROVE  Comes(T, x, Q) /\ \A y : Crosses(T, y, P) => Settles(T, x, y)
<1> DEFINE U == T[2]
<1>1. ASSUME NEW w, Crosses(T, w, P)
      PROVE  /\ w = Ok(w[2]) /\ Parts(T, w) = {<<U, w[2]>>} /\ <<U, w[2]>> \in P
             /\ Into(T, w) = Into(U, w[2]) /\ Back(T, w) = Ok(Back(U, w[2]))
  <2>1. w = Ok(w[2])
    BY <1>1, ContentIs DEF Crosses, Ok
  <2>2. Parts(T, w) = {<<U, w[2]>>}
    BY PartsAre
  <2>3. IntoJs(T, w) = Into(U, w[2])
    BY IntoIs
  <2>4. Into(T, w) = Into(U, w[2]) /\ Back(T, w) = FromJs(T, Into(T, w))
    BY <1>1, <2>3 DEF Crosses
  <2>5. FromJs(T, Into(T, w)) = Ok(From(U, Into(T, w)))
    BY FromIs
  <2> QED  BY <1>1, <2>1, <2>2, <2>4, <2>5 DEF Crosses, Back
<1> DEFINE z == x[2]
           b == Back(U, z)
<1>2. /\ x = Ok(z) /\ Parts(T, x) = {<<U, z>>} /\ <<U, z>> \in P
      /\ Into(T, x) = Into(U, z) /\ Back(T, x) = Ok(b)
  BY <1>1
<1>3. /\ b = Ok(z) <=> <<U, z>> \in Q
      /\ \A y : <<U, y>> \in P => Settles(U, z, y)
  BY <1>2, PartIs DEF Returns
<1> HIDE DEF z, b
<1>4. Comes(T, x, Q)
  <2>1. Back(T, x) = Ok(Back(T, x)[2])
    BY <1>2, OkIs
  <2>2. Back(T, x) = Ok(x) <=> <<U, z>> \in Q
    BY <1>2, <1>3, OkIs
  <2>3. Lossless(T, x)
    BY LosslessIs
  <2> QED  BY <1>2, <2>1, <2>2, <2>3 DEF Comes, Returns
<1>5. ASSUME NEW y, Crosses(T, y, P), Returns(T, x, y)
      PROVE  Returns(T, y, y) /\ (Nullish(Into(T, x)) <=> Nullish(Into(T, y)))
  <2> DEFINE u == y[2]
  <2>1. /\ y = Ok(u) /\ <<U, u>> \in P
        /\ Into(T, y) = Into(U, u) /\ Back(T, y) = Ok(Back(U, u))
    BY <1>1, <1>5
  <2> HIDE DEF u
  <2>2. Returns(U, z, u)
    BY <1>2, <1>5, <2>1, OkIs DEF Returns, b
  <2>3. Returns(U, u, u) /\ (Nullish(Into(U, z)) <=> Nullish(Into(U, u)))
    BY <1>3, <2>1, <2>2 DEF Settles
  <2> QED  BY <1>2, <2>1, <2>3 DEF Returns
<1> QED  BY <1>4, <1>5 DEF Settles

\* Values in a row, of types of their own, and the result of collecting them.
IsRow(n, s) == s = [i \in 1..n |-> s[i]]
RowBack(n, us, s, r) ==
  /\ (\A i \in 1..n : IsOk(Back(us[i], s[i]))) => r = Ok([i \in 1..n |-> Back(us[i], s[i])[2]])
  /\ (\E i \in 1..n : ~IsOk(Back(us[i], s[i]))) => ~IsOk(r)

LEMMA RowIs ==
  ASSUME NEW n \in Nat, NEW us, NEW s, NEW r, RowBack(n, us, s, r), NEW P, NEW Q, Sound(P, Q),
         \A i \in 1..n : <<us[i], s[i]>> \in P
  PROVE  /\ IsOk(r) => /\ r = Ok(r[2]) /\ IsRow(n, r[2])
                       /\ \A i \in 1..n : Returns(us[i], s[i], r[2][i])
         /\ IsRow(n, s) => (r = Ok(s) <=> \A i \in 1..n : <<us[i], s[i]>> \in Q)
<1> DEFINE g == [i \in 1..n |-> Back(us[i], s[i])]
           c == [i \in 1..n |-> g[i][2]]
<1>1. /\ (\A i \in 1..n : IsOk(g[i])) => r = Ok(c)
      /\ (\E i \in 1..n : ~IsOk(g[i])) => ~IsOk(r)
  <2>1. \A i \in 1..n : g[i] = Back(us[i], s[i])
    OBVIOUS
  <2>2. c = [i \in 1..n |-> Back(us[i], s[i])[2]]
    BY <2>1
  <2> HIDE DEF g, c
  <2> QED  BY <2>1, <2>2 DEF RowBack
<1>2. ASSUME NEW i \in 1..n
      PROVE  /\ IsOk(g[i]) => g[i] = Ok(g[i][2]) /\ Returns(us[i], s[i], g[i][2])
             /\ g[i] = Ok(s[i]) <=> <<us[i], s[i]>> \in Q
  <2>1. g[i] = Back(us[i], s[i])
    OBVIOUS
  <2> HIDE DEF g
  <2>2. /\ IsOk(Back(us[i], s[i])) => Back(us[i], s[i]) = Ok(Back(us[i], s[i])[2])
        /\ Returns(us[i], s[i], s[i]) <=> <<us[i], s[i]>> \in Q
    BY PartIs
  <2> QED  BY <2>1, <2>2 DEF Returns
<1>3. IsRow(n, c) /\ \A i \in 1..n : c[i] = g[i][2]
  BY DEF IsRow
<1> HIDE DEF g, c
<1>4. ASSUME IsOk(r)
      PROVE  /\ r = Ok(c)
             /\ \A i \in 1..n : g[i] = Ok(c[i]) /\ Returns(us[i], s[i], c[i])
  BY <1>1, <1>2, <1>3, <1>4
<1>5. IsOk(r) => /\ r = Ok(r[2]) /\ IsRow(n, r[2])
                 /\ \A i \in 1..n : Returns(us[i], s[i], r[2][i])
  BY <1>3, <1>4, OkIs
<1>6. ASSUME IsRow(n, s)
      PROVE  r = Ok(s) <=> \A i \in 1..n : <<us[i], s[i]>> \in Q
  <2>1. ASSUME r = Ok(s), NEW i \in 1..n PROVE <<us[i], s[i]>> \in Q
    <3>1. c = s
      BY <1>4, <2>1, OkIs
    <3> QED  BY <1>2, <1>4, <2>1, <3>1, OkIs
  <2>2. ASSUME \A i \in 1..n : <<us[i], s[i]>> \in Q PROVE r = Ok(s)
    <3>1. ASSUME NEW i \in 1..n PROVE IsOk(g[i]) /\ c[i] = s[i]
      <4>1. g[i] = Ok(s[i])
        BY <1>2, <2>2
      <4>2. c[i] = g[i][2]
        BY <1>3
      <4> QED  BY <4>1, <4>2, OkIs
    <3>2. c = s
      <4>1. c = [i \in 1..n |-> c[i]] /\ s = [i \in 1..n |-> s[i]]
        BY <1>3, <1>6 DEF IsRow
      <4> QED  BY <3>1, <4>1
    <3> QED  BY <1>1, <3>1, <3>2
  <2> QED  BY <2>1, <2>2
<1> QED  BY <1>5, <1>6

\* What a row of values gives back is given back as it is.
LEMMA RowSettles ==
  ASSUME NEW n \in Nat, NEW us, NEW s, NEW t, NEW P, NEW Q, Sound(P, Q), IsRow(n, t),
         \A i \in 1..n : /\ <<us[i], s[i]>> \in P /\ <<us[i], t[i]>> \in P
                         /\ Returns(us[i], s[i], t[i]),
         NEW r, RowBack(n, us, t, r)
  PROVE  r = Ok(t)
<1>1. ASSUME NEW i \in 1..n PROVE <<us[i], t[i]>> \in Q
  <2>1. Settles(us[i], s[i], t[i])
    BY PartIs
  <2>2. Returns(us[i], t[i], t[i])
    BY <2>1 DEF Settles
  <2> QED  BY <2>2, PartIs
<1>2. \A i \in 1..n : <<us[i], t[i]>> \in P
  OBVIOUS
<1>3. IsRow(n, t) => (r = Ok(t) <=> \A i \in 1..n : <<us[i], t[i]>> \in Q)
  BY <1>2, RowIs, Zenon
<1> QED  BY <1>1, <1>3

LEMMA VecSound ==
  ASSUME NEW T, T[1] = "vec", NEW P, NEW Q, Sound(P, Q), NEW x, Crosses(T, x, P)
  PROVE  Comes(T, x, Q) /\ \A y : Crosses(T, y, P) => Settles(T, x, y)
<1> DEFINE U == T[2]
           Us(n) == [i \in 1..n |-> U]
           R(w) == VecFrom(U, Into(T, w))
<1>1. ASSUME NEW w, Crosses(T, w, P)
      PROVE  /\ w = <<"vec", w[2]>> /\ Len(w[2]) \in Nat /\ IsRow(Len(w[2]), w[2])
             /\ DOMAIN w[2] = 1..Len(w[2])
             /\ Parts(T, w) = {<<U, w[2][i]>> : i \in 1..Len(w[2])}
             /\ \A i \in 1..Len(w[2]) : <<U, w[2][i]>> \in P
             /\ Into(T, w)[1] = "array"
             /\ RowBack(Len(w[2]), Us(Len(w[2])), w[2], R(w))
             /\ Back(T, w) = Under("vec", R(w))
  <2> DEFINE s == w[2]
             n == Len(s)
  <2>1. w = <<"vec", s>> /\ s \in Seq(ToSet(s))
    BY <1>1, ContentIs, HeldIs DEF Crosses
  <2>2. n \in Nat /\ DOMAIN s = 1..n /\ IsRow(n, s)
    <3> HIDE DEF s
    <3> QED  BY <2>1 DEF IsRow
  <2>3. Parts(T, w) = {<<U, y>> : y \in ToSet(s)}
    BY PartsAre
  <2>4. Parts(T, w) = {<<U, s[i]>> : i \in 1..n}
    <3> HIDE DEF s, n
    <3> QED  BY <2>2, <2>3 DEF ToSet
  <2>5. \A i \in 1..n : <<U, s[i]>> \in P
    <3>1. Parts(T, w) \subseteq P
      BY <1>1 DEF Crosses
    <3> HIDE DEF s, n
    <3> QED  BY <2>4, <3>1
  <2>6. IntoJs(T, w) = ArrayFrom(U, s)
    BY IntoIs DEF SeqInto
  <2>7. Into(T, w) = ArrayFrom(U, s) /\ Back(T, w) = FromJs(T, Into(T, w))
    BY <1>1, <2>6 DEF Crosses
  <2>8. FromJs(T, Into(T, w)) = Under("vec", VecFrom(U, Into(T, w)))
    BY FromIs
  <2>9. /\ ArrayFrom(U, s)[1] = "array"
        /\ (\A i \in 1..n : IsOk(Back(U, s[i]))) =>
             VecFrom(U, ArrayFrom(U, s)) = Ok([i \in 1..n |-> Back(U, s[i])[2]])
        /\ (\E i \in 1..n : ~IsOk(Back(U, s[i]))) => ~IsOk(VecFrom(U, ArrayFrom(U, s)))
    <3> HIDE DEF s, n
    <3> QED  BY <2>2, ElementsBack
  <2>10. RowBack(n, Us(n), s, R(w))
    <3> DEFINE us == Us(n)
    <3>1. \A i \in 1..n : us[i] = U
      OBVIOUS
    <3>2. [i \in 1..n |-> Back(us[i], s[i])[2]] = [i \in 1..n |-> Back(U, s[i])[2]]
      BY <3>1
    <3> HIDE DEF s, n, us
    <3>3. RowBack(n, us, s, R(w))
      BY <2>7, <2>9, <3>1, <3>2 DEF RowBack
    <3> QED  BY <3>3 DEF us
  <2> QED  BY <2>1, <2>2, <2>4, <2>5, <2>7, <2>8, <2>9, <2>10
<1> DEFINE s == x[2]
           n == Len(s)
           us == Us(n)
           r == R(x)
<1>2. /\ x = <<"vec", s>> /\ n \in Nat /\ IsRow(n, s)
      /\ Parts(T, x) = {<<U, s[i]>> : i \in 1..n}
      /\ \A i \in 1..n : <<U, s[i]>> \in P
      /\ Into(T, x)[1] = "array"
      /\ RowBack(n, us, s, r) /\ Back(T, x) = Under("vec", r)
  BY <1>1
<1>3. \A i \in 1..n : us[i] = U
  OBVIOUS
<1>4. \A m : m = n => Us(m) = us
  OBVIOUS
<1>5. \A v : v[1] = "array" => ~Nullish(v)
  BY DEF Nullish, Undefined, Null
<1> HIDE DEF s, n, us, r
<1>6. /\ IsOk(r) => /\ r = Ok(r[2]) /\ IsRow(n, r[2])
                    /\ \A i \in 1..n : Returns(U, s[i], r[2][i])
      /\ r = Ok(s) <=> \A i \in 1..n : <<U, s[i]>> \in Q
  <2>1. \A i \in 1..n : <<us[i], s[i]>> \in P
    BY <1>2, <1>3
  <2>2. /\ IsOk(r) => /\ r = Ok(r[2]) /\ IsRow(n, r[2])
                      /\ \A i \in 1..n : Returns(us[i], s[i], r[2][i])
        /\ IsRow(n, s) => (r = Ok(s) <=> \A i \in 1..n : <<us[i], s[i]>> \in Q)
    BY <1>2, <2>1, RowIs
  <2> QED  BY <1>2, <1>3, <2>2
<1>7. ASSUME NEW w, NEW y, w = <<"vec", y>>
      PROVE  Back(T, x) = Ok(w) <=> r = Ok(y)
  BY <1>2, <1>6, <1>7, UnderIs
<1>8. Comes(T, x, Q)
  <2>1. IsOk(Back(T, x)) => Back(T, x) = Ok(Back(T, x)[2])
    BY <1>2, UnderIs
  <2>2. Back(T, x) = Ok(x) <=> \A i \in 1..n : <<U, s[i]>> \in Q
    BY <1>2, <1>6, <1>7
  <2>3. Lossless(T, x)
    BY LosslessIs
  <2>4. Parts(T, x) \subseteq Q <=> \A i \in 1..n : <<U, s[i]>> \in Q
    BY <1>2
  <2> QED  BY <2>1, <2>2, <2>3, <2>4 DEF Comes, Returns
<1>9. ASSUME NEW y, Crosses(T, y, P), Returns(T, x, y)
      PROVE  Returns(T, y, y) /\ (Nullish(Into(T, x)) <=> Nullish(Into(T, y)))
  <2> DEFINE t == y[2]
             m == Len(t)
             q == R(y)
  <2>1. /\ y = <<"vec", t>> /\ DOMAIN t = 1..m /\ m \in Nat /\ IsRow(m, t)
        /\ \A i \in 1..m : <<U, t[i]>> \in P
        /\ Into(T, y)[1] = "array"
        /\ RowBack(m, Us(m), t, q) /\ Back(T, y) = Under("vec", q)
    BY <1>1, <1>9
  <2> HIDE DEF t, m, q, Us
  <2>2. r = Ok(t)
    BY <1>7, <1>9, <2>1 DEF Returns
  <2>3. IsRow(n, t) /\ \A i \in 1..n : Returns(U, s[i], t[i])
    BY <1>6, <2>2, OkIs
  <2>4. m = n
    <3>1. DOMAIN t = 1..n
      BY <2>3 DEF IsRow
    <3>2. 1..m = 1..n
      BY <2>1, <3>1
    <3> QED  BY <1>2, <2>1, <3>2
  <2>5. RowBack(n, us, t, q)
    BY <1>4, <2>1, <2>4
  <2>6. \A i \in 1..n : /\ <<us[i], s[i]>> \in P /\ <<us[i], t[i]>> \in P
                        /\ Returns(us[i], s[i], t[i])
    BY <1>2, <1>3, <2>1, <2>3, <2>4
  <2>7. q = Ok(t)
    BY <1>2, <2>3, <2>5, <2>6, RowSettles
  <2>8. Back(T, y) = Ok(y)
    BY <2>1, <2>7, UnderIs
  <2> QED  BY <1>2, <1>5, <2>1, <2>8 DEF Returns
<1> QED  BY <1>8, <1>9 DEF Settles

LEMMA TupleSound ==
  ASSUME NEW T, T[1] = "tuple", NEW P, NEW Q, Sound(P, Q), NEW x, Crosses(T, x, P)
  PROVE  Comes(T, x, Q) /\ \A y : Crosses(T, y, P) => Settles(T, x, y)
<1> DEFINE us == T[2]
           n == Len(us)
           R(w) == TupleFrom(us, Into(T, w))
<1>1. ASSUME NEW w, Crosses(T, w, P)
      PROVE  /\ us \in Seq(ToSet(us)) /\ w = <<"tuple", w[2]>> /\ IsRow(n, w[2])
             /\ Parts(T, w) = {<<us[i], w[2][i]>> : i \in 1..n}
             /\ \A i \in 1..n : <<us[i], w[2][i]>> \in P
             /\ Into(T, w)[1] = "array"
             /\ RowBack(n, us, w[2], R(w))
             /\ Back(T, w) = Under("tuple", R(w))
  <2> DEFINE s == w[2]
  <2>1. w = <<"tuple", s>> /\ us \in Seq(ToSet(us)) /\ s \in Seq(ToSet(s)) /\ Len(s) = n
    BY <1>1, ContentIs, HeldIs DEF Crosses
  <2>2. n \in Nat /\ DOMAIN s = 1..n /\ DOMAIN us = 1..n /\ IsRow(n, s)
    <3> HIDE DEF s, us
    <3> QED  BY <2>1 DEF IsRow
  <2>3. Parts(T, w) = {<<us[i], s[i]>> : i \in DOMAIN us}
    BY PartsAre
  <2>4. Parts(T, w) = {<<us[i], s[i]>> : i \in 1..n}
    <3> HIDE DEF s, us, n
    <3> QED  BY <2>2, <2>3
  <2>5. \A i \in 1..n : <<us[i], s[i]>> \in P
    <3>1. Parts(T, w) \subseteq P
      BY <1>1 DEF Crosses
    <3> HIDE DEF s, us, n
    <3> QED  BY <2>4, <3>1
  <2> DEFINE e == [i \in 1..n |-> Into(us[i], s[i])]
             g == [i \in 1..n |-> Back(us[i], s[i])]
             v == Into(T, w)
  <2>6. v = <<"array", e>> /\ Back(T, w) = FromJs(T, v)
    <3>1. IntoJs(T, w) = TupleInto(us, s)
      BY IntoIs
    <3>2. v = IntoJs(T, w) /\ Back(T, w) = FromJs(T, v)
      BY <1>1 DEF Crosses
    <3>3. TupleInto(us, s) = <<"array", e>>
      <4> HIDE DEF us, s, n
      <4> QED  BY <2>2 DEF TupleInto, Arr
    <3> QED  BY <3>1, <3>2, <3>3
  <2>7. FromJs(T, v) = Under("tuple", TupleFrom(us, v))
    BY FromIs
  <2>8. \A i \in 1..n : Element(e, i - 1) = Into(us[i], s[i])
    <3> DEFINE S == {Into(us[i], s[i]) : i \in 1..n}
    <3>1. e \in [1..n -> S] /\ \A i \in 1..n : e[i] = Into(us[i], s[i])
      OBVIOUS
    <3> HIDE DEF us, s, n, e, S
    <3>2. Len(e) = n
      BY <2>2, <3>1
    <3>3. ASSUME NEW i \in 1..n PROVE i - 1 < Len(e) /\ (i - 1) + 1 = i
      BY <2>2, <3>2
    <3> QED  BY <3>1, <3>3 DEF Element
  <2>9. TupleFrom(us, v) = AllOk(g)
    <3>1. v[1] = "array" /\ v[2] = e
      <4> HIDE DEF e, v
      <4> QED  BY <2>6
    <3>2. [i \in DOMAIN us |-> From(us[i], Element(v[2], i - 1))] = g
      <4>1. \A i \in 1..n : From(us[i], Element(v[2], i - 1)) = Back(us[i], s[i])
        <5> HIDE DEF us, s, n, e, v
        <5> QED  BY <2>8, <3>1 DEF Back
      <4> HIDE DEF us, s, n, e, v
      <4> QED  BY <2>2, <4>1
    <3> HIDE DEF us, e, v, g
    <3> QED  BY <3>1, <3>2 DEF TupleFrom
  <2>10. RowBack(n, us, s, R(w))
    <3>1. DOMAIN g = 1..n /\ \A i \in 1..n : g[i] = Back(us[i], s[i])
      OBVIOUS
    <3>2. [i \in 1..n |-> g[i][2]] = [i \in 1..n |-> Back(us[i], s[i])[2]]
      OBVIOUS
    <3> HIDE DEF us, s, n, g, v
    <3>3. /\ (\A i \in 1..n : IsOk(g[i])) => AllOk(g) = Ok([i \in 1..n |-> g[i][2]])
          /\ (\E i \in 1..n : ~IsOk(g[i])) => ~IsOk(AllOk(g))
      BY <2>2, <3>1, AllOkFacts
    <3>4. TupleFrom(us, v) = R(w)
      BY DEF v
    <3> QED  BY <2>9, <3>1, <3>2, <3>3, <3>4 DEF RowBack
  <2>11. v[1] = "array"
    <3> HIDE DEF v, e
    <3> QED  BY <2>6
  <2> QED  BY <2>1, <2>2, <2>4, <2>5, <2>6, <2>7, <2>10, <2>11
<1> DEFINE s == x[2]
           r == R(x)
<1>2. /\ x = <<"tuple", s>> /\ us \in Seq(ToSet(us)) /\ IsRow(n, s)
      /\ Parts(T, x) = {<<us[i], s[i]>> : i \in 1..n}
      /\ \A i \in 1..n : <<us[i], s[i]>> \in P
      /\ Into(T, x)[1] = "array"
      /\ RowBack(n, us, s, r) /\ Back(T, x) = Under("tuple", r)
  BY <1>1
<1>3. n \in Nat
  <2> HIDE DEF us
  <2> QED  BY <1>2
<1>4. \A v : v[1] = "array" => ~Nullish(v)
  BY DEF Nullish, Undefined, Null
<1> HIDE DEF s, n, us, r
<1>5. /\ IsOk(r) => /\ r = Ok(r[2]) /\ IsRow(n, r[2])
                    /\ \A i \in 1..n : Returns(us[i], s[i], r[2][i])
      /\ r = Ok(s) <=> \A i \in 1..n : <<us[i], s[i]>> \in Q
  <2>1. /\ IsOk(r) => /\ r = Ok(r[2]) /\ IsRow(n, r[2])
                      /\ \A i \in 1..n : Returns(us[i], s[i], r[2][i])
        /\ IsRow(n, s) => (r = Ok(s) <=> \A i \in 1..n : <<us[i], s[i]>> \in Q)
    BY <1>2, <1>3, RowIs
  <2> QED  BY <1>2, <2>1
<1>6. ASSUME NEW w, NEW y, w = <<"tuple", y>>
      PROVE  Back(T, x) = Ok(w) <=> r = Ok(y)
  BY <1>2, <1>5, <1>6, UnderIs
<1>7. Comes(T, x, Q)
  <2>1. IsOk(Back(T, x)) => Back(T, x) = Ok(Back(T, x)[2])
    BY <1>2, UnderIs
  <2>2. Back(T, x) = Ok(x) <=> \A i \in 1..n : <<us[i], s[i]>> \in Q
    BY <1>2, <1>5, <1>6
  <2>3. Lossless(T, x)
    BY LosslessIs
  <2>4. Parts(T, x) \subseteq Q <=> \A i \in 1..n : <<us[i], s[i]>> \in Q
    BY <1>2
  <2> QED  BY <2>1, <2>2, <2>3, <2>4 DEF Comes, Returns
<1>8. ASSUME NEW y, Crosses(T, y, P), Returns(T, x, y)
      PROVE  Returns(T, y, y) /\ (Nullish(Into(T, x)) <=> Nullish(Into(T, y)))
  <2> DEFINE t == y[2]
             q == R(y)
  <2>1. /\ y = <<"tuple", t>> /\ IsRow(n, t)
        /\ \A i \in 1..n : <<us[i], t[i]>> \in P
        /\ Into(T, y)[1] = "array"
        /\ RowBack(n, us, t, q) /\ Back(T, y) = Under("tuple", q)
    BY <1>1, <1>8 DEF n, us
  <2> HIDE DEF t, q
  <2>2. r = Ok(t)
    BY <1>6, <1>8, <2>1 DEF Returns
  <2>3. \A i \in 1..n : Returns(us[i], s[i], t[i])
    BY <1>5, <2>2, OkIs
  <2>4. q = Ok(t)
    BY <1>2, <1>3, <2>1, <2>3, RowSettles
  <2>5. Back(T, y) = Ok(y)
    BY <2>1, <2>4, UnderIs
  <2> QED  BY <1>2, <1>4, <2>1, <2>5 DEF Returns
<1> QED  BY <1>7, <1>8 DEF Settles

LEMMA SetSound ==
  ASSUME NEW T, T[1] = "set", NEW P, NEW Q, Sound(P, Q), NEW x, Crosses(T, x, P)
  PROVE  Comes(T, x, Q) /\ \A y : Crosses(T, y, P) => Settles(T, x, y)
<1> DEFINE U == T[2]
           R(w) == SetFrom(U, Into(T, w))
\* What comes back of a set is a set of what comes back of its members.
<1>1. ASSUME NEW w, Crosses(T, w, P)
      PROVE  /\ w = <<"set", w[2]>> /\ Parts(T, w) = {<<U, z>> : z \in w[2]}
             /\ \A z \in w[2] : <<U, z>> \in P
             /\ Into(T, w)[1] = "array"
             /\ Back(T, w) = Under("set", R(w))
             /\ IsOk(R(w)) => /\ R(w) = Ok(R(w)[2])
                              /\ \A z \in w[2] : \E c \in R(w)[2] : Returns(U, z, c)
                              /\ \A c \in R(w)[2] : \E z \in w[2] : Returns(U, z, c)
             /\ (\A z \in w[2] : <<U, z>> \in Q) => R(w) = Ok(w[2])
  <2> DEFINE S == w[2]
             q == SetToSeq(S)
             v == Into(T, w)
  <2>1. w = <<"set", S>> /\ IsFiniteSet(S)
    BY <1>1, ContentIs, HeldIs DEF Crosses
  <2>2. PICK n \in Nat : /\ q \in [1..n -> S]
                         /\ \A z \in S : \E i \in 1..n : q[i] = z
    <3> HIDE DEF S
    <3> QED  BY <2>1, SetInOrder
  <2>3. Parts(T, w) = {<<U, z>> : z \in S}
    BY PartsAre
  <2>4. \A z \in S : <<U, z>> \in P
    <3>1. Parts(T, w) \subseteq P
      BY <1>1 DEF Crosses
    <3> HIDE DEF S
    <3> QED  BY <2>3, <3>1
  <2>5. v = ArrayFrom(U, q) /\ Back(T, w) = FromJs(T, v)
    <3>1. IntoJs(T, w) = SetInto(U, S)
      BY IntoIs
    <3> QED  BY <1>1, <3>1 DEF Crosses, SetInto
  <2>6. FromJs(T, v) = Under("set", SetFrom(U, v))
    BY FromIs
  <2> DEFINE us == [i \in 1..n |-> U]
             r == VecFrom(U, v)
  <2>7. v[1] = "array" /\ RowBack(n, us, q, r)
    <3>1. /\ ArrayFrom(U, q)[1] = "array"
          /\ (\A i \in 1..n : IsOk(Back(U, q[i]))) =>
               VecFrom(U, ArrayFrom(U, q)) = Ok([i \in 1..n |-> Back(U, q[i])[2]])
          /\ (\E i \in 1..n : ~IsOk(Back(U, q[i]))) => ~IsOk(VecFrom(U, ArrayFrom(U, q)))
      <4>1. DOMAIN q = 1..n
        BY <2>2
      <4> HIDE DEF q
      <4> QED  BY <4>1, ElementsBack
    <3>2. \A i \in 1..n : us[i] = U
      OBVIOUS
    <3>3. [i \in 1..n |-> Back(us[i], q[i])[2]] = [i \in 1..n |-> Back(U, q[i])[2]]
      BY <3>2
    <3> HIDE DEF q, us, v
    <3> QED  BY <2>5, <3>1, <3>2, <3>3 DEF RowBack
  <2>8. \A i \in 1..n : us[i] = U /\ q[i] \in S
    BY <2>2
  <2>9. SetFrom(U, v) = IF IsOk(r) THEN Ok(ToSet(r[2])) ELSE r
    BY DEF SetFrom, Mapped
  <2>10. IsRow(n, q)
    <3> HIDE DEF q
    <3> QED  BY <2>2 DEF IsRow
  <2> HIDE DEF q, us, r, S
  <2>11. /\ IsOk(r) => /\ r = Ok(r[2]) /\ IsRow(n, r[2])
                       /\ \A i \in 1..n : Returns(us[i], q[i], r[2][i])
         /\ r = Ok(q) <=> \A i \in 1..n : <<us[i], q[i]>> \in Q
    <3>1. \A i \in 1..n : <<us[i], q[i]>> \in P
      BY <2>4, <2>8
    <3>2. /\ IsOk(r) => /\ r = Ok(r[2]) /\ IsRow(n, r[2])
                        /\ \A i \in 1..n : Returns(us[i], q[i], r[2][i])
          /\ IsRow(n, q) => (r = Ok(q) <=> \A i \in 1..n : <<us[i], q[i]>> \in Q)
      BY <2>7, <3>1, RowIs
    <3> QED  BY <2>10, <3>2
  <2>12. R(w) = IF IsOk(r) THEN Ok(ToSet(r[2])) ELSE r
    BY <2>9
  <2>13. ASSUME IsOk(R(w))
         PROVE  /\ R(w) = Ok(R(w)[2])
                /\ \A z \in S : \E c \in R(w)[2] : Returns(U, z, c)
                /\ \A c \in R(w)[2] : \E z \in S : Returns(U, z, c)
    <3> DEFINE f == r[2]
               C == ToSet(f)
    <3>1. IsOk(r)
      BY <2>12, <2>13
    <3>2. R(w) = Ok(C) /\ R(w)[2] = C
      BY <2>12, <3>1, OkIs
    <3>3. /\ DOMAIN f = 1..n
          /\ \A i \in 1..n : Returns(U, q[i], f[i])
      <4>1. IsRow(n, f) /\ \A i \in 1..n : Returns(us[i], q[i], f[i])
        BY <2>11, <3>1
      <4> HIDE DEF f
      <4> QED  BY <2>8, <4>1 DEF IsRow
    <3>4. \A i \in 1..n : f[i] \in C
      <4> HIDE DEF f
      <4> QED  BY <3>3 DEF ToSet
    <3>5. \A c \in C : \E i \in 1..n : c = f[i]
      <4> HIDE DEF f
      <4> QED  BY <3>3 DEF ToSet
    <3> HIDE DEF C, f
    <3>6. \A z \in S : \E c \in C : Returns(U, z, c)
      BY <2>2, <3>3, <3>4
    <3>7. \A c \in C : \E z \in S : Returns(U, z, c)
      BY <2>8, <3>3, <3>5
    <3> QED  BY <3>2, <3>6, <3>7
  <2>14. ASSUME \A z \in S : <<U, z>> \in Q PROVE R(w) = Ok(S)
    <3>1. r = Ok(q)
      BY <2>8, <2>11, <2>14
    <3>2. ToSet(q) = S
      <4>1. DOMAIN q = 1..n
        BY <2>2
      <4> QED  BY <2>2, <4>1 DEF ToSet
    <3> QED  BY <2>12, <3>1, <3>2, OkIs
  <2> QED  BY <2>1, <2>3, <2>4, <2>5, <2>6, <2>7, <2>13, <2>14 DEF S
<1> DEFINE S == x[2]
           r == R(x)
<1>2. /\ x = <<"set", S>> /\ Parts(T, x) = {<<U, z>> : z \in S}
      /\ \A z \in S : <<U, z>> \in P
      /\ Into(T, x)[1] = "array" /\ Back(T, x) = Under("set", r)
      /\ IsOk(r) => /\ r = Ok(r[2])
                    /\ \A z \in S : \E c \in r[2] : Returns(U, z, c)
                    /\ \A c \in r[2] : \E z \in S : Returns(U, z, c)
      /\ (\A z \in S : <<U, z>> \in Q) => r = Ok(S)
  BY <1>1
<1>3. \A v : v[1] = "array" => ~Nullish(v)
  BY DEF Nullish, Undefined, Null
<1> HIDE DEF S, r
<1>4. ASSUME NEW C, r = Ok(C), \A c \in C : <<U, c>> \in P
      PROVE  \A c \in C : <<U, c>> \in Q
  <2>1. SUFFICES ASSUME NEW c \in C PROVE <<U, c>> \in Q
    OBVIOUS
  <2>2. PICK z \in S : Returns(U, z, c)
    BY <1>2, <1>4, OkIs
  <2>3. <<U, z>> \in P /\ <<U, c>> \in P
    BY <1>2, <1>4
  <2>4. Settles(U, z, c)
    BY <2>3, PartIs
  <2>5. Returns(U, c, c)
    BY <2>2, <2>4 DEF Settles
  <2> QED  BY <2>3, <2>5, PartIs
<1>5. r = Ok(S) <=> \A z \in S : <<U, z>> \in Q
  BY <1>2, <1>4
<1>6. ASSUME NEW w, NEW y, w = <<"set", y>>
      PROVE  Back(T, x) = Ok(w) <=> r = Ok(y)
  BY <1>2, <1>6, UnderIs
<1>7. Comes(T, x, Q)
  <2>1. IsOk(Back(T, x)) => Back(T, x) = Ok(Back(T, x)[2])
    BY <1>2, UnderIs
  <2>2. Back(T, x) = Ok(x) <=> \A z \in S : <<U, z>> \in Q
    BY <1>2, <1>5, <1>6
  <2>3. Lossless(T, x)
    BY LosslessIs
  <2>4. Parts(T, x) \subseteq Q <=> \A z \in S : <<U, z>> \in Q
    BY <1>2
  <2> QED  BY <2>1, <2>2, <2>3, <2>4 DEF Comes, Returns
<1>8. ASSUME NEW y, Crosses(T, y, P), Returns(T, x, y)
      PROVE  Returns(T, y, y) /\ (Nullish(Into(T, x)) <=> Nullish(Into(T, y)))
  <2> DEFINE C == y[2]
             q == R(y)
  <2>1. /\ y = <<"set", C>> /\ \A z \in C : <<U, z>> \in P
        /\ Into(T, y)[1] = "array" /\ Back(T, y) = Under("set", q)
        /\ (\A z \in C : <<U, z>> \in Q) => q = Ok(C)
    BY <1>1, <1>8
  <2> HIDE DEF C, q
  <2>2. r = Ok(C)
    BY <1>6, <1>8, <2>1 DEF Returns
  <2>3. q = Ok(C)
    BY <1>4, <2>1, <2>2
  <2>4. Back(T, y) = Ok(y)
    BY <2>1, <2>3, UnderIs
  <2> QED  BY <1>2, <1>3, <2>1, <2>4 DEF Returns
<1> QED  BY <1>7, <1>8 DEF Settles

-----------------------------------------------------------------------------
(* Maps.                                                                   *)

\* A property that was assigned: for everybody to see.
Stored(key, v) == <<key, v, TRUE>>

LEMMA StoredIs ==
  ASSUME NEW key, NEW v
  PROVE  Stored(key, v)[1] = key /\ Stored(key, v)[2] = v /\ Stored(key, v)[3] = TRUE
BY DEF Stored

LEMMA StoredKey ==
  ASSUME NEW key, NEW v
  PROVE  Stored(key, v)[1] = key
BY DEF Stored

LEMMA StoredValue ==
  ASSUME NEW key, NEW v
  PROVE  Stored(key, v)[2] = v
BY DEF Stored

\* Properties that were assigned, with strings for keys.
Shown(props) == \A p \in ToSet(props) : p[3] = TRUE /\ p[1][1] = "string" /\ p[1] # Proto

LEMMA AssignShows ==
  ASSUME NEW props, PropsMade(props), Shown(props), NEW key, key[1] = "string", NEW v
  PROVE  /\ PropsMade(SetProperty(props, key, v)) /\ Shown(SetProperty(props, key, v))
         /\ key = Proto => SetProperty(props, key, v) = props
         /\ key # Proto => ToSet(SetProperty(props, key, v)) =
                             {p \in ToSet(props) : p[1] # key} \cup {Stored(key, v)}
<1> DEFINE r == SetProperty(props, key, v)
           e == <<key, v, TRUE>>
<1>1. /\ DOMAIN props = 1..Len(props) /\ Len(props) \in Nat
      /\ KeysOf(props) = {p[1] : p \in ToSet(props)}
      /\ \A i \in DOMAIN props : props[i] \in ToSet(props)
      /\ \A i, j \in DOMAIN props : props[i][1] = props[j][1] => i = j
  BY KeysAre
<1>2. PropsMade(r)
  BY AssignMade
<1>3. key = Proto => r = props
  BY DEF SetProperty
<1>4. ASSUME key # Proto PROVE ToSet(r) = {p \in ToSet(props) : p[1] # key} \cup {e}
  <2>1. ToSet(props) = {props[i] : i \in DOMAIN props}
    BY DEF ToSet
  <2>2. CASE key \in KeysOf(props)
    <3>1. r = [i \in DOMAIN props |->
               IF props[i][1] = key THEN <<key, v, props[i][3]>> ELSE props[i]]
      BY <1>4, <2>2 DEF SetProperty
    <3>2. PICK k \in DOMAIN props : props[k][1] = key
      BY <2>2 DEF KeysOf
    <3>3. props[k][3] = TRUE
      BY <1>1, <3>2 DEF Shown
    <3>4. /\ DOMAIN r = DOMAIN props
          /\ r[k] = e
          /\ \A i \in DOMAIN props : i # k => r[i] = props[i] /\ props[i][1] # key
      <4>1. r[k] = <<key, v, props[k][3]>>
        BY <3>1, <3>2
      <4>2. \A i \in DOMAIN props : i # k => props[i][1] # key
        BY <1>1, <3>2
      <4>3. \A i \in DOMAIN props : i # k => r[i] = props[i]
        BY <3>1, <4>2
      <4>4. r[k] = e
        BY <3>3, <4>1, Zenon
      <4> HIDE DEF r, e
      <4> QED  BY <3>1, <4>2, <4>3, <4>4
    <3>5. ToSet(r) = {r[i] : i \in DOMAIN props}
      BY <3>4 DEF ToSet
    <3> HIDE DEF r, e
    <3> QED  BY <2>1, <3>2, <3>4, <3>5
  <2>3. CASE key \notin KeysOf(props)
    <3>1. r = Append(props, e)
      BY <1>4, <2>3 DEF SetProperty
    <3> DEFINE X == ToSet(props) \cup {e}
    <3>2. props \in Seq(X) /\ e \in X
      <4> DEFINE Y == ToSet(props)
      <4>1. props \in Seq(Y) /\ Y \subseteq X
        BY DEF PropsMade
      <4> HIDE DEF X, Y
      <4>2. props \in Seq(X)
        BY <4>1, SeqGrows
      <4> QED  BY <4>2 DEF X
    <3>3. ToSet(r) = ToSet(props) \cup {e}
      <4> HIDE DEF X, e, r
      <4> QED  BY <3>1, <3>2, AppendElems
    <3>4. \A p \in ToSet(props) : p[1] # key
      BY <1>1, <2>3
    <3> HIDE DEF r, e
    <3> QED  BY <3>3, <3>4
  <2> QED  BY <2>2, <2>3
<1>5. Shown(r)
  <2>1. CASE key = Proto
    BY <1>3, <2>1
  <2>2. CASE key # Proto
    <3>1. e[1] = key /\ e[3] = TRUE
      OBVIOUS
    <3> HIDE DEF e, r
    <3>2. SUFFICES ASSUME NEW p \in ToSet(r) PROVE p[3] = TRUE /\ p[1][1] = "string" /\ p[1] # Proto
      BY DEF Shown
    <3>3. CASE p = e
      BY <2>2, <3>1, <3>3
    <3>4. CASE p \in ToSet(props)
      BY <3>4 DEF Shown
    <3> QED  BY <1>4, <2>2, <3>3, <3>4
  <2> QED  BY <2>1, <2>2
<1>6. e = Stored(key, v)
  BY DEF Stored
<1> HIDE DEF r, e
<1> QED  BY <1>2, <1>3, <1>4, <1>5, <1>6 DEF r

\* Keys that are assigned one after the other, to an object without properties.
Assigned(n, kk, vv, f) ==
  f = [m \in 0..n |-> IF m = 0 THEN <<>> ELSE SetProperty(f[m - 1], kk[m], vv[m])]
Remain(n, kk, vv) == {Stored(kk[i], vv[i]) : i \in {j \in 1..n : kk[j] # Proto}}

LEMMA AssignedExists ==
  ASSUME NEW n \in Nat, NEW kk, NEW vv, \A i \in 1..n : kk[i][1] = "string"
  PROVE  \E f : Assigned(n, kk, vv, f) /\ \A m \in 0..n : PropsMade(f[m]) /\ Shown(f[m])
<1> DEFINE yes == TRUE
           X == {kk[i] : i \in {k \in 1..n : kk[k] # Proto}} \X {vv[i] : i \in 1..n} \X {yes}
           Y == {p \in Seq(X) : PropsMade(p)}
           base == <<>>
           step == [w \in (1..n) \X Y |-> SetProperty(w[2], kk[w[1]], vv[w[1]])]
<1>1. \A p \in Y : PropsMade(p) /\ Shown(p)
  <2>1. \A x \in X : x[3] = TRUE /\ x[1][1] = "string" /\ x[1] # Proto
    <3> SUFFICES ASSUME NEW x \in X
                 PROVE  x[3] = TRUE /\ x[1][1] = "string" /\ x[1] # Proto
      <4> HIDE DEF X
      <4> QED  OBVIOUS
    <3>1. x[1] \in {kk[i] : i \in {k \in 1..n : kk[k] # Proto}} /\ x[3] = yes
      <4> HIDE DEF yes
      <4> QED  OBVIOUS
    <3> QED  BY <3>1 DEF yes
  <2>2. ASSUME NEW p \in Y PROVE ToSet(p) \subseteq X
    <3>1. p \in Seq(X)
      OBVIOUS
    <3> HIDE DEF X
    <3> QED  BY <3>1, ElemsTyped
  <2> HIDE DEF X
  <2> QED  BY <2>1, <2>2 DEF Shown
<1>2. ASSUME NEW m \in 1..n, NEW p \in Y PROVE SetProperty(p, kk[m], vv[m]) \in Y
  <2> DEFINE r == SetProperty(p, kk[m], vv[m])
  <2>1. /\ PropsMade(p) /\ Shown(p) /\ kk[m][1] = "string" /\ p \in Seq(X)
    <3>1. p \in Seq(X)
      OBVIOUS
    <3> HIDE DEF Y, X
    <3> QED  BY <1>1, <3>1
  <2>2. /\ PropsMade(r)
        /\ kk[m] = Proto => r = p
        /\ kk[m] # Proto => ToSet(r) =
             {x \in ToSet(p) : x[1] # kk[m]} \cup {Stored(kk[m], vv[m])}
    <3> HIDE DEF Y, X
    <3> QED  BY <2>1, AssignShows
  <2>3. kk[m] # Proto => Stored(kk[m], vv[m]) \in X
    BY DEF Stored
  <2>4. ToSet(p) \subseteq X
    <3> HIDE DEF X
    <3> QED  BY <2>1, ElemsTyped
  <2> HIDE DEF r, X
  <2>5. r \in Seq(X)
    <3>1. CASE kk[m] = Proto
      BY <2>1, <2>2, <3>1
    <3>2. CASE kk[m] # Proto
      <4>1. ToSet(r) \subseteq X
        BY <2>2, <2>3, <2>4, <3>2
      <4>2. r \in Seq(ToSet(r))
        BY <2>2 DEF PropsMade
      <4> QED  BY <4>1, <4>2, SeqGrows
    <3> QED  BY <3>1, <3>2
  <2> QED  BY <2>2, <2>5 DEF r
<1>3. base \in Y
  <2>1. PropsMade(base)
    BY DEF PropsMade, ToSet, OwnFirsts
  <2> HIDE DEF X
  <2> QED  BY <2>1
<1>4. /\ step \in [(1..n) \X Y -> Y]
      /\ \A m \in 1..n, p \in Y : step[<<m, p>>] = SetProperty(p, kk[m], vv[m])
  <2>1. \A w \in (1..n) \X Y : w[1] \in 1..n /\ w[2] \in Y
    <3> HIDE DEF Y
    <3> QED  OBVIOUS
  <2> HIDE DEF Y
  <2>2. \A w \in (1..n) \X Y : SetProperty(w[2], kk[w[1]], vv[w[1]]) \in Y
    BY <1>2, <2>1
  <2> QED  BY <2>2
<1> HIDE DEF step, Y, base
<1>5. PICK f : Recurs(n, Y, base, step, f)
  <2>1. step \in [(1..n) \X Y -> Y]
    BY <1>4
  <2> QED  BY <1>3, <2>1, RecursionExists
<1>6. \A m \in 0..n : f[m] = IF m = 0 THEN <<>> ELSE SetProperty(f[m - 1], kk[m], vv[m])
  <2> SUFFICES ASSUME NEW m \in 0..n
               PROVE  f[m] = IF m = 0 THEN <<>> ELSE SetProperty(f[m - 1], kk[m], vv[m])
    OBVIOUS
  <2>1. f \in [0..n -> Y] /\ f[m] = IF m = 0 THEN base ELSE step[<<m, f[m - 1]>>]
    BY <1>5 DEF Recurs
  <2>2. CASE m = 0
    BY <2>1, <2>2 DEF base
  <2>3. CASE m # 0
    <3>1. m \in 1..n /\ m - 1 \in 0..n
      BY <2>3
    <3>2. f[m - 1] \in Y
      BY <2>1, <3>1
    <3> QED  BY <1>4, <2>1, <2>3, <3>1, <3>2
  <2> QED  BY <2>2, <2>3
<1>7. f \in [0..n -> Y]
  BY <1>5 DEF Recurs
<1>8. Assigned(n, kk, vv, f)
  <2>1. f = [m \in 0..n |-> f[m]]
    BY <1>7
  <2> QED  BY <1>6, <2>1 DEF Assigned
<1>9. \A m \in 0..n : PropsMade(f[m]) /\ Shown(f[m])
  BY <1>1, <1>7
<1> QED  BY <1>8, <1>9

LEMMA AssignedAre ==
  ASSUME NEW n \in Nat, NEW kk, NEW vv, \A i \in 1..n : kk[i][1] = "string",
         NEW f, Assigned(n, kk, vv, f), \A m \in 0..n : PropsMade(f[m]) /\ Shown(f[m]),
         \A i, j \in 1..n : kk[i] = kk[j] => i = j
  PROVE  ToSet(f[n]) = Remain(n, kk, vv)
<1> DEFINE B == {m \in 0..n : ToSet(f[m]) # Remain(m, kk, vv)}
<1>1. SUFFICES B = {}
  <2>1. n \in 0..n
    OBVIOUS
  <2> QED  BY <2>1
<1>2. SUFFICES ASSUME B # {} PROVE FALSE
  OBVIOUS
<1>3. PICK m \in B : \A k \in B : m <= k
  <2>1. B \subseteq Nat
    OBVIOUS
  <2> HIDE DEF B
  <2> QED  BY <1>2, <2>1, SmallestNat
<1>4. m \in 0..n /\ ToSet(f[m]) # Remain(m, kk, vv)
  OBVIOUS
<1>5. m # 0
  <2>1. ASSUME m = 0 PROVE FALSE
    <3>1. f[0] = <<>>
      <4>1. 0 \in 0..n
        OBVIOUS
      <4> QED  BY <4>1 DEF Assigned
    <3>2. ToSet(<<>>) = {} /\ Remain(0, kk, vv) = {}
      BY DEF ToSet, Remain
    <3> QED  BY <1>4, <2>1, <3>1, <3>2
  <2> QED  BY <2>1
<1> DEFINE k == m - 1
<1>6. k \in 0..n /\ k + 1 = m /\ m \in 1..n /\ k \in Nat
  BY <1>4, <1>5
<1>7. ToSet(f[k]) = Remain(k, kk, vv)
  <2>1. k \notin B
    <3>1. ~ (m <= k)
      BY <1>4
    <3> HIDE DEF B, k
    <3> QED  BY <1>3, <3>1
  <2> QED  BY <1>6, <2>1
<1>8. f[m] = SetProperty(f[k], kk[m], vv[m])
  <2>1. f[m] = IF m = 0 THEN <<>> ELSE SetProperty(f[m - 1], kk[m], vv[m])
    BY <1>4 DEF Assigned
  <2> QED  BY <1>5, <2>1
<1> DEFINE e == Stored(kk[m], vv[m])
<1>9. /\ kk[m] = Proto => f[m] = f[k]
      /\ kk[m] # Proto => ToSet(f[m]) = {p \in ToSet(f[k]) : p[1] # kk[m]} \cup {e}
  <2>1. PropsMade(f[k]) /\ Shown(f[k]) /\ kk[m][1] = "string"
    BY <1>6
  <2> DEFINE p == f[k]
             r == SetProperty(p, kk[m], vv[m])
  <2>2. /\ kk[m] = Proto => r = p
        /\ kk[m] # Proto => ToSet(r) =
             {x \in ToSet(p) : x[1] # kk[m]} \cup {Stored(kk[m], vv[m])}
    <3> HIDE DEF k, p
    <3>1. PropsMade(p) /\ Shown(p)
      BY <2>1 DEF p
    <3> QED  BY <2>1, <3>1, AssignShows
  <2>3. f[m] = r
    BY <1>8
  <2> HIDE DEF r, k
  <2> QED  BY <2>2, <2>3
<1> HIDE DEF B, k
<1>10. \A i : i \in 1..m <=> i \in 1..k \/ i = m
  BY <1>6
<1>11. \A i \in 1..k : i \in 1..n /\ i # m
  BY <1>6
<1>12. \A i \in 1..k : kk[i] # kk[m]
  BY <1>6, <1>11
<1>13. \A p \in Remain(k, kk, vv) : p[1] # kk[m]
  <2>1. SUFFICES ASSUME NEW i \in 1..k PROVE Stored(kk[i], vv[i])[1] # kk[m]
    BY DEF Remain
  <2>2. Stored(kk[i], vv[i])[1] = kk[i]
    BY StoredKey
  <2> QED  BY <1>12, <2>2
<1>14. Remain(m, kk, vv) = IF kk[m] = Proto THEN Remain(k, kk, vv)
                           ELSE Remain(k, kk, vv) \cup {e}
  <2>1. CASE kk[m] = Proto
    <3>1. {j \in 1..m : kk[j] # Proto} = {j \in 1..k : kk[j] # Proto}
      BY <1>10, <2>1
    <3> QED  BY <2>1, <3>1 DEF Remain
  <2>2. CASE kk[m] # Proto
    <3>1. {j \in 1..m : kk[j] # Proto} = {j \in 1..k : kk[j] # Proto} \cup {m}
      BY <1>10, <2>2
    <3> QED  BY <2>2, <3>1 DEF Remain
  <2> QED  BY <2>1, <2>2
<1> HIDE DEF e
<1>15. ToSet(f[m]) = Remain(m, kk, vv)
  BY <1>7, <1>9, <1>13, <1>14
<1> QED  BY <1>4, <1>15

\* The object that collect_js makes of pairs.
Making(K, U, q, f) ==
  f = [n \in 0..Len(q) |->
        IF n = 0 THEN <<>>
        ELSE SetProperty(f[n - 1], PropertyKey(IntoAtom(K, q[n][1])), Into(U, q[n][2]))]
Made(K, U, q) == CHOOSE f : Making(K, U, q, f)

IsObjectOf(v, n, kk, vv, props) ==
  /\ v = Obj(props) /\ PropsMade(props) /\ Shown(props)
  /\ (\A i, j \in 1..n : kk[i] = kk[j] => i = j) => ToSet(props) = Remain(n, kk, vv)

LEMMA ObjectMade ==
  ASSUME NEW K, NEW U, NEW n \in Nat, NEW q, Len(q) = n, NEW kk, NEW vv,
         \A i \in 1..n : /\ kk[i] = PropertyKey(IntoAtom(K, q[i][1]))
                         /\ vv[i] = Into(U, q[i][2])
                         /\ kk[i][1] = "string"
  PROVE  \E props : IsObjectOf(ObjectFrom(K, U, q), n, kk, vv, props)
<1>1. ASSUME NEW f
      PROVE  Making(K, U, q, f) <=> Assigned(n, kk, vv, f)
  <2> DEFINE a == [m \in 0..n |-> IF m = 0 THEN <<>> ELSE SetProperty(f[m - 1], kk[m], vv[m])]
             b == [m \in 0..n |->
                    IF m = 0 THEN <<>>
                    ELSE SetProperty(f[m - 1], PropertyKey(IntoAtom(K, q[m][1])),
                                     Into(U, q[m][2]))]
  <2>1. \A m \in 0..n : m # 0 => m \in 1..n
    OBVIOUS
  <2>2. \A m \in 0..n : a[m] = b[m]
    BY <2>1
  <2>3. a = b
    <3>1. a = [m \in 0..n |-> a[m]] /\ b = [m \in 0..n |-> b[m]]
      OBVIOUS
    <3> HIDE DEF a, b
    <3> QED  BY <2>2, <3>1
  <2> HIDE DEF a, b
  <2>4. Assigned(n, kk, vv, f) <=> f = a
    BY DEF Assigned, a
  <2>5. Making(K, U, q, f) <=> f = b
    BY DEF Making, b
  <2> QED  BY <2>3, <2>4, <2>5
<1>2. PICK f : Assigned(n, kk, vv, f) /\ \A m \in 0..n : PropsMade(f[m]) /\ Shown(f[m])
  BY AssignedExists
<1> DEFINE g == Made(K, U, q)
<1>3. Making(K, U, q, g)
  BY <1>1, <1>2 DEF Made
<1>4. ObjectFrom(K, U, q) = Obj(g[n])
  BY DEF ObjectFrom, Made, Making
<1> HIDE DEF g
<1>5. Assigned(n, kk, vv, g)
  BY <1>1, <1>3
<1>6. \A m \in 0..n : g[m] = f[m]
  <2> DEFINE B == {m \in 0..n : g[m] # f[m]}
  <2>1. SUFFICES ASSUME B # {} PROVE FALSE
    OBVIOUS
  <2>2. PICK m \in B : \A k \in B : m <= k
    <3>1. B \subseteq Nat
      OBVIOUS
    <3> HIDE DEF B
    <3> QED  BY <2>1, <3>1, SmallestNat
  <2>3. m \in 0..n /\ g[m] # f[m]
    OBVIOUS
  <2>4. /\ f[m] = IF m = 0 THEN <<>> ELSE SetProperty(f[m - 1], kk[m], vv[m])
        /\ g[m] = IF m = 0 THEN <<>> ELSE SetProperty(g[m - 1], kk[m], vv[m])
    BY <1>2, <1>5, <2>3 DEF Assigned
  <2>5. m # 0 /\ g[m - 1] # f[m - 1]
    BY <2>3, <2>4
  <2>6. m - 1 \in B /\ ~ (m <= m - 1)
    BY <2>3, <2>5
  <2> HIDE DEF B
  <2> QED  BY <2>2, <2>6
<1>7. n \in 0..n
  OBVIOUS
<1>8. PropsMade(g[n]) /\ Shown(g[n])
  BY <1>2, <1>6, <1>7
<1>9. (\A i, j \in 1..n : kk[i] = kk[j] => i = j) => ToSet(g[n]) = Remain(n, kk, vv)
  <2>1. (\A i, j \in 1..n : kk[i] = kk[j] => i = j) => ToSet(f[n]) = Remain(n, kk, vv)
    BY <1>2, AssignedAre
  <2> QED  BY <1>6, <1>7, <2>1
<1> QED  BY <1>4, <1>8, <1>9 DEF IsObjectOf

\* The pairs that from_js reads of an object: one for each of its properties.
EntriesOf(K, U, v, props, n, ps, g) ==
  /\ \A i \in 1..n : ps[i] \in ToSet(props)
  /\ \A i, j \in 1..n : ps[i] = ps[j] => i = j
  /\ \A p \in ToSet(props) : \E i \in 1..n : ps[i] = p
  /\ DOMAIN g = 1..n
  /\ \A i \in 1..n : g[i] = PairFrom(K, ps[i][1], From(U, ps[i][2]))
  /\ EntriesFrom(K, U, v) = IF IsOk(AllOk(g)) THEN Ok(LastOfEach(AllOk(g)[2])) ELSE AllOk(g)

LEMMA EntriesAre ==
  ASSUME NEW K, NEW U, NEW v, NEW props, v = Obj(props), PropsMade(props), Shown(props)
  PROVE  \E n, ps, g : n \in Nat /\ EntriesOf(K, U, v, props, n, ps, g)
<1> DEFINE X == ToSet(props)
           keys == OwnKeys(v, KeysFilter)
           n == Len(keys)
           At(k) == CHOOSE p \in X : p[1] = k
           ps == [i \in 1..n |-> At(keys[i])]
           g == [i \in DOMAIN keys |-> PairFrom(K, keys[i], From(U, Property(v, keys[i])))]
<1>1. v[1] = "object" /\ v[2] = props /\ PropsOf(v) = props /\ IsObject(v)
  <2>1. v[1] = "object" /\ v[2] = props
    BY DEF Obj
  <2> QED  BY <2>1 DEF PropsOf, IsObject
<1>2. /\ keys \in Seq(KeysOf(props)) /\ ToSet(keys) = Asked(props, KeysFilter)
      /\ IsInjective(keys)
  <2>1. KeysFilter \in AllFilters
    BY DEF KeysFilter, Filter, AllFilters
  <2>2. PropsMade(v[2])
    BY <1>1
  <2>3. /\ OwnKeys(v, KeysFilter) \in Seq(KeysOf(v[2]))
        /\ ToSet(OwnKeys(v, KeysFilter)) = Asked(v[2], KeysFilter)
        /\ IsInjective(OwnKeys(v, KeysFilter))
    BY <1>1, <2>1, <2>2, OwnKeysFacts
  <2> HIDE DEF keys
  <2> QED  BY <1>1, <2>3 DEF keys
<1>3. Asked(props, KeysFilter) = {p[1] : p \in X}
  <2>1. \A p \in X : (KeysFilter.enumOnly => p[3]) /\ KeysFilter[p[1][1]]
    <3> SUFFICES ASSUME NEW p \in X PROVE p[3] /\ KeysFilter[p[1][1]]
      OBVIOUS
    <3>1. p[3] = TRUE /\ p[1][1] = "string"
      BY DEF Shown
    <3>2. KeysFilter["string"] = TRUE
      BY DEF KeysFilter, Filter
    <3> QED  BY <3>1, <3>2
  <2>2. {q \in X : (KeysFilter.enumOnly => q[3]) /\ KeysFilter[q[1][1]]} = X
    BY <2>1
  <2> QED  BY <2>2 DEF Asked
<1>4. /\ n \in Nat /\ DOMAIN keys = 1..n
      /\ \A i \in 1..n : keys[i] \in {p[1] : p \in X}
      /\ \A k \in {p[1] : p \in X} : \E i \in 1..n : keys[i] = k
      /\ \A i, j \in 1..n : keys[i] = keys[j] => i = j
  <2> HIDE DEF keys
  <2>1. n \in Nat /\ DOMAIN keys = 1..n
    BY <1>2
  <2> HIDE DEF n, X
  <2>2. /\ \A i \in 1..n : keys[i] \in ToSet(keys)
        /\ \A k \in ToSet(keys) : \E i \in 1..n : keys[i] = k
    BY <2>1 DEF ToSet
  <2>3. \A i, j \in 1..n : keys[i] = keys[j] => i = j
    BY <1>2, <2>1 DEF IsInjective
  <2> QED  BY <1>2, <1>3, <2>1, <2>2, <2>3
<1>5. \A p, r \in X : p[1] = r[1] => p = r
  BY DEF PropsMade, OwnFirsts, ToSet
<1>6. \A i \in 1..n : At(keys[i]) \in X /\ At(keys[i])[1] = keys[i]
  <2> HIDE DEF keys, n, X
  <2> SUFFICES ASSUME NEW i \in 1..n
               PROVE  At(keys[i]) \in X /\ At(keys[i])[1] = keys[i]
    OBVIOUS
  <2>1. \E p \in X : p[1] = keys[i]
    BY <1>4
  <2> QED  BY <2>1
<1>7. /\ \A i \in 1..n : ps[i] \in X /\ ps[i][1] = keys[i]
      /\ \A i, j \in 1..n : ps[i] = ps[j] => i = j
      /\ \A p \in X : \E i \in 1..n : ps[i] = p
  <2>1. \A i \in 1..n : ps[i] = At(keys[i])
    OBVIOUS
  <2> HIDE DEF keys, n, X, ps, At
  <2>2. \A i \in 1..n : ps[i] \in X /\ ps[i][1] = keys[i]
    BY <1>6, <2>1
  <2>3. \A i, j \in 1..n : ps[i] = ps[j] => i = j
    BY <1>4, <2>2
  <2>4. ASSUME NEW p \in X PROVE \E i \in 1..n : ps[i] = p
    <3>1. PICK i \in 1..n : keys[i] = p[1]
      BY <1>4
    <3> QED  BY <1>5, <2>2, <3>1
  <2> QED  BY <2>2, <2>3, <2>4
<1>8. \A i \in 1..n : Property(v, keys[i]) = ps[i][2]
  <2>1. \A i \in 1..n : keys[i] \in KeysOf(props)
    <3> HIDE DEF keys
    <3> QED  BY <1>2
  <2>2. \A i \in 1..n : Property(v, keys[i]) = At(keys[i])[2]
    <3> HIDE DEF keys, n
    <3> QED  BY <1>1, <2>1 DEF Property
  <2> HIDE DEF keys, n, X, At
  <2> QED  BY <2>2
<1>9. DOMAIN g = 1..n /\ \A i \in 1..n : g[i] = PairFrom(K, ps[i][1], From(U, ps[i][2]))
  <2>1. \A i \in 1..n : g[i] = PairFrom(K, keys[i], From(U, Property(v, keys[i])))
    <3> HIDE DEF keys, n
    <3> QED  BY <1>4
  <2>2. DOMAIN g = DOMAIN keys
    OBVIOUS
  <2> HIDE DEF keys, n, X, ps, g
  <2> QED  BY <1>4, <1>7, <1>8, <2>1, <2>2
<1>10. EntriesFrom(K, U, v) = IF IsOk(AllOk(g)) THEN Ok(LastOfEach(AllOk(g)[2]))
                              ELSE AllOk(g)
  BY <1>1 DEF EntriesFrom, MapFrom, Mapped
<1> HIDE DEF keys, n, ps, g
<1>11. EntriesOf(K, U, v, props, n, ps, g)
  BY <1>7, <1>9, <1>10 DEF EntriesOf
<1> QED  BY <1>4, <1>11

\* Pairs with keys of their own are all kept.
LEMMA LastAre ==
  ASSUME NEW n \in Nat, NEW s, DOMAIN s = 1..n,
         \A i, j \in 1..n : s[i][1] = s[j][1] => i = j
  PROVE  LastOfEach(s) = {s[i] : i \in 1..n}
<1>1. \A k \in 1..n : \A j \in 1..n : j > k => s[j][1] # s[k][1]
  BY SMT
<1>2. {k \in DOMAIN s : \A j \in DOMAIN s : j > k => s[j][1] # s[k][1]} = 1..n
  BY <1>1
<1> QED  BY <1>2 DEF LastOfEach

\* The keys that stay, of a map with string keys.
Named(M) == {p \in M : Str(p[1][2]) # Proto}

\* A map with string keys as an object: its properties.
IsTexts(U, M, v, props) ==
  /\ v = Obj(props) /\ PropsMade(props) /\ Shown(props)
  /\ ToSet(props) = {Stored(Str(p[1][2]), Into(U, p[2])) : p \in Named(M)}

LEMMA TextsMade ==
  ASSUME NEW U, NEW M, IsFiniteSet(M),
         \A p \in M : p[1] = <<"string", p[1][2]>> /\ IsText(p[1][2]),
         \A p, r \in M : p[1] = r[1] => p = r
  PROVE  \E props : IsTexts(U, M, MapInto("string", U, M), props)
<1> DEFINE q == SetToSeq(M)
<1>1. PICK n \in Nat : /\ q \in [1..n -> M]
                       /\ \A i, j \in 1..n : q[i] = q[j] => i = j
                       /\ \A x \in M : \E i \in 1..n : q[i] = x
  BY SetInOrder
<1> HIDE DEF q
<1> DEFINE kk == [i \in 1..n |-> Str(q[i][1][2])]
           vv == [i \in 1..n |-> Into(U, q[i][2])]
<1>2. /\ \A i \in 1..n : q[i] \in M
      /\ Len(q) = n
  BY <1>1
<1>3. ASSUME NEW i \in 1..n
      PROVE  /\ kk[i] = PropertyKey(IntoAtom("string", q[i][1]))
             /\ vv[i] = Into(U, q[i][2]) /\ kk[i][1] = "string"
             /\ kk[i] = Str(q[i][1][2]) /\ kk[i][2] = q[i][1][2]
  <2> DEFINE c == q[i][1][2]
  <2>1. IsText(c)
    BY <1>2
  <2>2. kk[i] = Str(c) /\ vv[i] = Into(U, q[i][2])
    OBVIOUS
  <2> HIDE DEF c, kk, vv
  <2>3. Str(c)[1] = "string" /\ Str(c)[2] = c /\ Stringified(Str(c)) = c
    BY <2>1, TextIs DEF Str, Stringified
  <2>4. IntoAtom("string", q[i][1]) = Str(c)
    BY DEF IntoAtom, c
  <2>5. PropertyKey(Str(c)) = Str(c)
    BY <2>3 DEF PropertyKey
  <2> QED  BY <2>2, <2>3, <2>4, <2>5 DEF c
<1>4. ASSUME NEW i \in 1..n, NEW j \in 1..n, kk[i] = kk[j] PROVE i = j
  <2>1. q[i][1][2] = q[j][1][2]
    <3> HIDE DEF kk, vv
    <3> QED  BY <1>3, <1>4
  <2>2. q[i][1] = <<"string", q[i][1][2]>> /\ q[j][1] = <<"string", q[j][1][2]>>
    BY <1>2
  <2>3. q[i] = q[j]
    BY <1>2, <2>1, <2>2
  <2> QED  BY <1>1, <2>3
<1>5. PICK props : IsObjectOf(ObjectFrom("string", U, q), n, kk, vv, props)
  <2> HIDE DEF kk, vv
  <2>1. \A i \in 1..n : /\ kk[i] = PropertyKey(IntoAtom("string", q[i][1]))
                        /\ vv[i] = Into(U, q[i][2])
                        /\ kk[i][1] = "string"
    BY <1>3
  <2> QED  BY <1>2, <2>1, ObjectMade
<1>6. Remain(n, kk, vv) = {Stored(Str(p[1][2]), Into(U, p[2])) : p \in Named(M)}
  <2> DEFINE e(p) == Stored(Str(p[1][2]), Into(U, p[2]))
  <2>1. \A i \in 1..n : Stored(kk[i], vv[i]) = e(q[i])
    <3> HIDE DEF kk, vv
    <3> QED  BY <1>3
  <2>2. {j \in 1..n : kk[j] # Proto} = {j \in 1..n : q[j] \in Named(M)}
    <3> HIDE DEF kk, vv
    <3> QED  BY <1>2, <1>3 DEF Named
  <2>3. Remain(n, kk, vv) = {e(q[i]) : i \in {j \in 1..n : q[j] \in Named(M)}}
    <3> HIDE DEF kk, vv, e
    <3> QED  BY <2>1, <2>2 DEF Remain
  <2>4. {e(q[i]) : i \in {j \in 1..n : q[j] \in Named(M)}} = {e(p) : p \in Named(M)}
    <3>1. \A p \in Named(M) : \E i \in 1..n : q[i] = p
      BY <1>1 DEF Named
    <3> HIDE DEF e
    <3> QED  BY <3>1
  <2> QED  BY <2>3, <2>4
<1>7. MapInto("string", U, M) = ObjectFrom("string", U, q)
  BY DEF MapInto, q
<1> HIDE DEF kk, vv
<1> QED  BY <1>4, <1>5, <1>6, <1>7 DEF IsObjectOf, IsTexts

\* What comes back of it: the pairs with the keys that stay.
LEMMA TextsBack ==
  ASSUME NEW U, NEW M, IsFiniteSet(M),
         \A p \in M : /\ p = <<p[1], p[2]>> /\ p[1] = <<"string", p[1][2]>>
                      /\ IsText(p[1][2]),
         \A p, r \in M : p[1] = r[1] => p = r,
         NEW v, v = MapInto("string", U, M), NEW r, r = EntriesFrom("string", U, v),
         NEW P, NEW Q, Sound(P, Q), \A p \in M : <<U, p[2]>> \in P
  PROVE  /\ v[1] = "object"
         /\ IsOk(r) => /\ r = Ok(r[2])
                       /\ \A c \in r[2] : \E p \in Named(M) : c[1] = p[1] /\ Returns(U, p[2], c[2])
         /\ (\A p \in Named(M) : <<U, p[2]>> \in Q) => r = Ok(Named(M))
<1>1. PICK props : IsTexts(U, M, v, props)
  BY TextsMade
<1>2. PICK n, ps, g : n \in Nat /\ EntriesOf("string", U, v, props, n, ps, g)
  BY <1>1, EntriesAre DEF IsTexts
<1> DEFINE Of(i) == CHOOSE p \in Named(M) : ps[i] = Stored(Str(p[1][2]), Into(U, p[2]))
           f == [i \in 1..n |-> Of(i)]
<1>3. \A i \in 1..n : /\ f[i] \in Named(M)
                      /\ ps[i] = Stored(Str(f[i][1][2]), Into(U, f[i][2]))
  <2> SUFFICES ASSUME NEW i \in 1..n
               PROVE  f[i] \in Named(M) /\ ps[i] = Stored(Str(f[i][1][2]), Into(U, f[i][2]))
    OBVIOUS
  <2>1. \E p \in Named(M) : ps[i] = Stored(Str(p[1][2]), Into(U, p[2]))
    <3>1. ps[i] \in ToSet(props)
      BY <1>2 DEF EntriesOf
    <3> QED  BY <1>1, <3>1 DEF IsTexts
  <2>2. Of(i) \in Named(M) /\ ps[i] = Stored(Str(Of(i)[1][2]), Into(U, Of(i)[2]))
    BY <2>1, Zenon
  <2>3. f[i] = Of(i)
    OBVIOUS
  <2> QED  BY <2>2, <2>3, Zenon
<1> HIDE DEF f
<1>4. \A i \in 1..n : /\ f[i] \in M /\ ps[i][1] = Str(f[i][1][2])
                      /\ ps[i][2] = Into(U, f[i][2])
  <2> SUFFICES ASSUME NEW i \in 1..n
               PROVE  /\ f[i] \in M /\ ps[i][1] = Str(f[i][1][2])
                      /\ ps[i][2] = Into(U, f[i][2])
    OBVIOUS
  <2> DEFINE a == Str(f[i][1][2])
             b == Into(U, f[i][2])
  <2>1. f[i] \in M /\ ps[i] = Stored(a, b)
    BY <1>3 DEF Named
  <2> HIDE DEF a, b
  <2>2. Stored(a, b)[1] = a /\ Stored(a, b)[2] = b
    BY StoredKey, StoredValue
  <2>3. f[i] \in M /\ ps[i][1] = a /\ ps[i][2] = b
    BY <2>1, <2>2
  <2> QED  BY <2>3 DEF a, b
<1>5. ASSUME NEW i \in 1..n, NEW j \in 1..n, f[i][1] = f[j][1] PROVE i = j
  <2>1. f[i] = f[j]
    BY <1>4, <1>5
  <2>2. ps[i] = ps[j]
    BY <1>3, <2>1, Zenon
  <2> QED  BY <1>2, <2>2 DEF EntriesOf
<1>6. \A p \in Named(M) : \E i \in 1..n : f[i] = p
  <2> SUFFICES ASSUME NEW p \in Named(M) PROVE \E i \in 1..n : f[i] = p
    OBVIOUS
  <2> DEFINE e == Stored(Str(p[1][2]), Into(U, p[2]))
  <2>1. e \in ToSet(props)
    BY <1>1, Zenon DEF IsTexts
  <2>2. e[1] = Str(p[1][2])
    BY StoredIs
  <2> HIDE DEF e
  <2>3. PICK i \in 1..n : ps[i] = e
    BY <1>2, <2>1 DEF EntriesOf
  <2>4. Str(f[i][1][2]) = Str(p[1][2])
    BY <1>4, <2>2, <2>3
  <2>5. f[i][1][2] = p[1][2]
    BY <2>4 DEF Str
  <2>6. p \in M /\ f[i] \in M
    BY <1>4 DEF Named
  <2>7. f[i][1] = p[1]
    BY <2>5, <2>6
  <2> QED  BY <2>6, <2>7
<1>7. ASSUME NEW i \in 1..n
      PROVE  /\ IsOk(Back(U, f[i][2])) => g[i] = Ok(<<f[i][1], Back(U, f[i][2])[2]>>)
             /\ ~IsOk(Back(U, f[i][2])) => ~IsOk(g[i])
  <2> DEFINE k == f[i][1][2]
             b == Back(U, f[i][2])
  <2>1. g[i] = PairFrom("string", Str(k), b)
    BY <1>2, <1>4 DEF EntriesOf, Back
  <2>2. IsText(k) /\ f[i][1] = <<"string", k>>
    BY <1>4
  <2>3. FromAtom("string", Str(k)) = Ok(f[i][1])
    <3> HIDE DEF k
    <3>1. Stringified(Str(k)) = k
      BY <2>2, TextIs DEF Stringified, Str
    <3> QED  BY <2>2, <3>1 DEF FromAtom
  <2> HIDE DEF k, b
  <2>4. IsOk(b) => g[i] = Ok(<<f[i][1], b[2]>>)
    BY <2>1, <2>3, OkIs DEF PairFrom
  <2>5. ~IsOk(b) => g[i] = b
    BY <2>1, <2>3, OkIs DEF PairFrom
  <2> QED  BY <2>4, <2>5 DEF b
<1>8. /\ (\A i \in 1..n : IsOk(g[i])) => AllOk(g) = Ok([i \in 1..n |-> g[i][2]])
      /\ (\E i \in 1..n : ~IsOk(g[i])) => ~IsOk(AllOk(g))
  BY <1>2, AllOkFacts DEF EntriesOf
<1> DEFINE s == [i \in 1..n |-> g[i][2]]
           C == {s[i] : i \in 1..n}
<1>9. ASSUME \A i \in 1..n : IsOk(g[i])
      PROVE  /\ r = Ok(C)
             /\ \A i \in 1..n : s[i] = <<f[i][1], Back(U, f[i][2])[2]>> /\ IsOk(Back(U, f[i][2]))
  <2>1. \A i \in 1..n : s[i] = <<f[i][1], Back(U, f[i][2])[2]>> /\ IsOk(Back(U, f[i][2]))
    <3> SUFFICES ASSUME NEW i \in 1..n
                 PROVE  s[i] = <<f[i][1], Back(U, f[i][2])[2]>> /\ IsOk(Back(U, f[i][2]))
      OBVIOUS
    <3>1. s[i] = g[i][2]
      OBVIOUS
    <3> HIDE DEF s
    <3>2. IsOk(Back(U, f[i][2]))
      BY <1>7, <1>9
    <3>3. g[i] = Ok(<<f[i][1], Back(U, f[i][2])[2]>>)
      BY <1>7, <3>2
    <3> QED  BY <3>1, <3>2, <3>3, OkIs
  <2>2. DOMAIN s = 1..n
    OBVIOUS
  <2>3. AllOk(g) = Ok(s)
    BY <1>8, <1>9
  <2> HIDE DEF s
  <2>4. \A i, j \in 1..n : s[i][1] = s[j][1] => i = j
    <3>1. \A i \in 1..n : s[i][1] = f[i][1]
      BY <2>1
    <3> QED  BY <1>5, <3>1
  <2>5. LastOfEach(s) = C
    BY <1>2, <2>2, <2>4, LastAre
  <2>6. r = Ok(C)
    <3> HIDE DEF C
    <3>1. r = IF IsOk(AllOk(g)) THEN Ok(LastOfEach(AllOk(g)[2])) ELSE AllOk(g)
      BY <1>2 DEF EntriesOf
    <3> QED  BY <2>3, <2>5, <3>1, OkIs
  <2> QED  BY <2>1, <2>6
<1>10. IsOk(r) => \A i \in 1..n : IsOk(g[i])
  <2>1. r = IF IsOk(AllOk(g)) THEN Ok(LastOfEach(AllOk(g)[2])) ELSE AllOk(g)
    BY <1>2 DEF EntriesOf
  <2> QED  BY <1>8, <2>1
<1>11. \A i \in 1..n : <<U, f[i][2]>> \in P
  BY <1>4
<1> HIDE DEF s
<1>12. ASSUME IsOk(r)
       PROVE  /\ r = Ok(r[2])
              /\ \A c \in r[2] : \E p \in Named(M) : c[1] = p[1] /\ Returns(U, p[2], c[2])
  <2>1. r = Ok(C) /\ r[2] = C
    BY <1>9, <1>10, <1>12, OkIs
  <2>2. ASSUME NEW i \in 1..n
        PROVE  s[i][1] = f[i][1] /\ Returns(U, f[i][2], s[i][2]) /\ f[i] \in Named(M)
    <3>1. s[i] = <<f[i][1], Back(U, f[i][2])[2]>> /\ IsOk(Back(U, f[i][2]))
      BY <1>9, <1>10, <1>12
    <3>2. Returns(U, f[i][2], Back(U, f[i][2])[2])
      <4> DEFINE z == f[i][2]
      <4>1. <<U, z>> \in P /\ IsOk(Back(U, z))
        BY <1>11, <3>1
      <4> HIDE DEF z
      <4>2. Returns(U, z, Back(U, z)[2])
        BY <4>1, PartIs DEF Returns
      <4> QED  BY <4>2 DEF z
    <3>3. s[i][1] = f[i][1] /\ s[i][2] = Back(U, f[i][2])[2]
      BY <3>1
    <3> QED  BY <1>3, <3>2, <3>3
  <2>3. ASSUME NEW c \in C PROVE \E p \in Named(M) : c[1] = p[1] /\ Returns(U, p[2], c[2])
    BY <2>2
  <2> HIDE DEF C
  <2> QED  BY <2>1, <2>3
<1>13. ASSUME \A p \in Named(M) : <<U, p[2]>> \in Q
       PROVE  r = Ok(Named(M))
  <2>1. ASSUME NEW i \in 1..n PROVE IsOk(Back(U, f[i][2])) /\ Back(U, f[i][2])[2] = f[i][2]
    <3> DEFINE z == f[i][2]
    <3>1. <<U, z>> \in P /\ <<U, z>> \in Q
      BY <1>3, <1>11, <1>13
    <3> HIDE DEF z
    <3>2. Returns(U, z, z)
      BY <3>1, PartIs
    <3>3. IsOk(Back(U, z)) /\ Back(U, z)[2] = z
      BY <3>2, OkIs DEF Returns
    <3> QED  BY <3>3 DEF z
  <2>2. ASSUME NEW i \in 1..n PROVE IsOk(g[i])
    <3>1. IsOk(Back(U, f[i][2]))
      BY <2>1
    <3>2. g[i] = Ok(<<f[i][1], Back(U, f[i][2])[2]>>)
      BY <1>7, <3>1
    <3> QED  BY <3>2, OkIs
  <2>3. \A i \in 1..n : s[i] = f[i]
    <3> SUFFICES ASSUME NEW i \in 1..n PROVE s[i] = f[i]
      OBVIOUS
    <3>1. s[i] = <<f[i][1], f[i][2]>>
      BY <1>9, <2>1, <2>2
    <3>2. f[i] = <<f[i][1], f[i][2]>>
      BY <1>4
    <3> QED  BY <3>1, <3>2
  <2>4. C = Named(M)
    <3>1. \A i \in 1..n : s[i] \in Named(M)
      BY <1>3, <2>3
    <3>2. \A p \in Named(M) : \E i \in 1..n : s[i] = p
      BY <1>6, <2>3
    <3> QED  BY <3>1, <3>2
  <2> QED  BY <1>9, <2>2, <2>4
<1>14. v[1] = "object"
  BY <1>1 DEF IsTexts, Obj
<1> QED  BY <1>12, <1>13, <1>14

\* A map with integer keys: its properties have strings for keys, which no
\* integer type takes, so it comes back only without any.
LEMMA NumbersBack ==
  ASSUME NEW U, NEW M, IsFiniteSet(M),
         NEW v, v = MapInto("i32", U, M), NEW r, r = EntriesFrom("i32", U, v)
  PROVE  v[1] = "object" /\ (IsOk(r) => r = Ok({})) /\ (M = {} => r = Ok({}))
<1> DEFINE q == SetToSeq(M)
<1>1. PICK m \in Nat : q \in [1..m -> M]
  BY SetInOrder
<1> HIDE DEF q
<1> DEFINE kk == [i \in 1..m |-> PropertyKey(IntoAtom("i32", q[i][1]))]
           vv == [i \in 1..m |-> Into(U, q[i][2])]
<1>2. Len(q) = m /\ (M = {} => m = 0)
  BY <1>1
<1>3. \A i \in 1..m : /\ kk[i] = PropertyKey(IntoAtom("i32", q[i][1]))
                      /\ vv[i] = Into(U, q[i][2])
                      /\ kk[i][1] = "string"
  <2> SUFFICES ASSUME NEW i \in 1..m PROVE kk[i][1] = "string"
    OBVIOUS
  <2>1. kk[i] = PropertyKey(IntoAtom("i32", q[i][1]))
    OBVIOUS
  <2> HIDE DEF kk
  <2>2. IntoAtom("i32", q[i][1])[1] = "int"
    BY DEF IntoAtom, Num
  <2> QED  BY <2>1, <2>2 DEF PropertyKey, Str
<1>4. PICK props : IsObjectOf(ObjectFrom("i32", U, q), m, kk, vv, props)
  <2> HIDE DEF kk, vv
  <2> QED  BY <1>2, <1>3, ObjectMade
<1>5. v = Obj(props) /\ PropsMade(props) /\ Shown(props)
  <2>1. v = ObjectFrom("i32", U, q)
    BY DEF MapInto, q
  <2> HIDE DEF kk, vv
  <2> QED  BY <1>4, <2>1 DEF IsObjectOf
<1>6. M = {} => ToSet(props) = {}
  <2> HIDE DEF kk, vv
  <2>1. ASSUME m = 0 PROVE ToSet(props) = {}
    <3>1. \A i, j \in 1..m : kk[i] = kk[j] => i = j
      BY <2>1
    <3>2. ToSet(props) = Remain(m, kk, vv)
      BY <1>4, <3>1 DEF IsObjectOf
    <3> QED  BY <2>1, <3>2 DEF Remain
  <2> QED  BY <1>2, <2>1
<1> HIDE DEF kk, vv
<1>7. PICK n, ps, g : n \in Nat /\ EntriesOf("i32", U, v, props, n, ps, g)
  BY <1>5, EntriesAre
<1>8. ASSUME NEW i \in 1..n PROVE ~IsOk(g[i])
  <2> DEFINE k == ps[i][1]
             b == From(U, ps[i][2])
             a == FromAtom("i32", k)
  <2>1. g[i] = PairFrom("i32", k, b) /\ ps[i] \in ToSet(props)
    BY <1>7 DEF EntriesOf
  <2>2. k[1] = "string"
    BY <1>5, <2>1 DEF Shown
  <2> HIDE DEF k, b
  <2>3. ~IsOk(a)
    BY <2>2 DEF FromAtom, Refused, Refuse, IsOk
  <2>4. PairFrom("i32", k, b) = b \/ PairFrom("i32", k, b) = a
    BY <2>3 DEF PairFrom
  <2>5. IsOk(b) => PairFrom("i32", k, b) = a
    BY <2>3 DEF PairFrom
  <2> QED  BY <2>1, <2>3, <2>4, <2>5
<1>9. /\ (\A i \in 1..n : IsOk(g[i])) => AllOk(g) = Ok([i \in 1..n |-> g[i][2]])
      /\ (\E i \in 1..n : ~IsOk(g[i])) => ~IsOk(AllOk(g))
  BY <1>7, AllOkFacts DEF EntriesOf
<1>10. r = IF IsOk(AllOk(g)) THEN Ok(LastOfEach(AllOk(g)[2])) ELSE AllOk(g)
  BY <1>7 DEF EntriesOf
<1>11. n = 0 => r = Ok({})
  <2> DEFINE s == [i \in 1..n |-> g[i][2]]
  <2>1. SUFFICES ASSUME n = 0 PROVE r = Ok({})
    OBVIOUS
  <2>2. DOMAIN s = {}
    BY <2>1
  <2>3. AllOk(g) = Ok(s)
    BY <1>9, <2>1
  <2> HIDE DEF s
  <2>4. LastOfEach(s) = {}
    BY <2>2 DEF LastOfEach
  <2> QED  BY <1>10, <2>3, <2>4, OkIs
<1>12. IsOk(r) => n = 0
  <2>1. ASSUME n # 0 PROVE ~IsOk(r)
    <3>1. 1 \in 1..n
      BY <1>7, <2>1
    <3>2. ~IsOk(AllOk(g))
      BY <1>8, <1>9, <3>1
    <3> QED  BY <1>10, <3>2
  <2> QED  BY <2>1
<1>13. M = {} => n = 0
  <2>1. n # 0 => 1 \in 1..n
    BY <1>7
  <2>2. n # 0 => ps[1] \in ToSet(props)
    BY <1>7, <2>1 DEF EntriesOf
  <2> QED  BY <1>6, <2>2
<1>14. v[1] = "object"
  BY <1>5 DEF Obj
<1> QED  BY <1>11, <1>12, <1>13, <1>14

LEMMA MapIs ==
  ASSUME NEW T, T[1] = "map", NEW P, NEW w, Crosses(T, w, P)
  PROVE  /\ w = <<"map", w[2]>> /\ IsFiniteSet(w[2])
         /\ Parts(T, w) = {<<T[3], p[2]>> : p \in w[2]} /\ \A p \in w[2] : <<T[3], p[2]>> \in P
         /\ \A p \in w[2] : p = <<p[1], p[2]>> /\ p[1] = <<T[2], p[1][2]>>
         /\ \A p, q \in w[2] : p[1] = q[1] => p = q
         /\ \/ T[2] = "string" /\ \A p \in w[2] : IsText(p[1][2])
            \/ T[2] = "i32"
         /\ Into(T, w) = MapInto(T[2], T[3], w[2])
         /\ Back(T, w) = Under("map", EntriesFrom(T[2], T[3], Into(T, w)))
         /\ Lossless(T, w) <=> \A p \in w[2] : T[2] # "i32" /\ Str(p[1][2]) # Proto
<1>1. w = <<"map", w[2]>> /\ ContentOK(T, w[2])
  BY ContentIs DEF Crosses
<1> DEFINE M == w[2]
<1>2. /\ IsFiniteSet(M)
      /\ \A p \in M : p = <<p[1], p[2]>> /\ p[1] = <<T[2], p[1][2]>>
      /\ \A p, q \in M : p[1] = q[1] => p = q
      /\ \/ T[2] = "string" /\ \A p \in M : IsText(p[1][2])
         \/ T[2] = "i32"
  BY <1>1, HeldIs
<1>3. Parts(T, w) = {<<T[3], p[2]>> : p \in M}
  BY PartsAre
<1>4. \A p \in M : <<T[3], p[2]>> \in P
  <2>1. Parts(T, w) \subseteq P
    BY DEF Crosses
  <2> HIDE DEF M
  <2> QED  BY <1>3, <2>1
<1>5. Into(T, w) = MapInto(T[2], T[3], M) /\ Back(T, w) = FromJs(T, Into(T, w))
  BY IntoIs DEF Crosses
<1>6. FromJs(T, Into(T, w)) = Under("map", EntriesFrom(T[2], T[3], Into(T, w)))
  BY FromIs
<1>7. Lossless(T, w) <=> \A p \in M : T[2] # "i32" /\ Str(p[1][2]) # Proto
  BY LosslessIs
<1> QED  BY <1>1, <1>2, <1>3, <1>4, <1>5, <1>6, <1>7

LEMMA NumbersSound ==
  ASSUME NEW T, T[1] = "map", T[2] = "i32", NEW P, NEW Q, NEW x, Crosses(T, x, P)
  PROVE  Comes(T, x, Q) /\ \A y : Crosses(T, y, P) => Settles(T, x, y)
<1> DEFINE U == T[3]
           none == <<"map", {}>>
           v == Into(T, x)
           r == EntriesFrom("i32", U, v)
           M == x[2]
<1>1. /\ x = <<"map", M>> /\ IsFiniteSet(M) /\ v = MapInto("i32", U, M)
      /\ Back(T, x) = Under("map", r) /\ Parts(T, x) = {<<U, p[2]>> : p \in M}
      /\ Lossless(T, x) <=> M = {}
  BY MapIs
<1> HIDE DEF v, r, M
<1>2. v[1] = "object" /\ (IsOk(r) => r = Ok({})) /\ (M = {} => r = Ok({}))
  BY <1>1, NumbersBack DEF r
<1>3. IsOk(Back(T, x)) => Back(T, x) = Ok(none)
  <2>1. ASSUME IsOk(Back(T, x)) PROVE Back(T, x) = Ok(none)
    <3>1. IsOk(r)
      BY <1>1, <2>1 DEF Under
    <3>2. r = Ok({})
      BY <1>2, <3>1
    <3> QED  BY <1>1, <3>2, UnderIs
  <2> QED  BY <2>1
<1>4. M = {} => x = none /\ Back(T, x) = Ok(none) /\ Parts(T, x) = {}
  BY <1>1, <1>2, UnderIs
<1>5. x = none => M = {}
  BY <1>1
<1> HIDE DEF none
<1>6. Comes(T, x, Q)
  <2>1. IsOk(Back(T, x)) => Back(T, x) = Ok(Back(T, x)[2])
    BY <1>3, OkIs
  <2>2. ASSUME Back(T, x) = Ok(x) PROVE M = {}
    BY <1>3, <1>5, <2>2, OkIs
  <2>3. M = {} => Back(T, x) = Ok(x) /\ Lossless(T, x) /\ Parts(T, x) \subseteq Q
    BY <1>1, <1>4
  <2>4. Lossless(T, x) => M = {}
    BY <1>1
  <2> QED  BY <2>1, <2>2, <2>3, <2>4 DEF Comes, Returns
<1>7. ASSUME NEW y, Crosses(T, y, P), Returns(T, x, y)
      PROVE  Returns(T, y, y) /\ (Nullish(v) <=> Nullish(Into(T, y)))
  <2> DEFINE N == y[2]
             u == Into(T, y)
             t == EntriesFrom("i32", U, u)
  <2>1. /\ y = <<"map", N>> /\ IsFiniteSet(N) /\ u = MapInto("i32", U, N)
        /\ Back(T, y) = Under("map", t)
    BY <1>7, MapIs
  <2> HIDE DEF N, u, t
  <2>2. u[1] = "object" /\ (N = {} => t = Ok({}))
    BY <2>1, NumbersBack DEF t
  <2>3. y = none
    BY <1>3, <1>7, OkIs DEF Returns
  <2>4. N = {}
    BY <2>1, <2>3 DEF none
  <2>5. Back(T, y) = Ok(y)
    BY <2>1, <2>2, <2>4, UnderIs
  <2>6. ~Nullish(v) /\ ~Nullish(u)
    BY <1>2, <2>2 DEF Nullish, Undefined, Null
  <2> QED  BY <2>5, <2>6 DEF Returns, u
<1> QED  BY <1>6, <1>7 DEF Settles, v

LEMMA TextsSound ==
  ASSUME NEW T, T[1] = "map", T[2] = "string", NEW P, NEW Q, Sound(P, Q),
         NEW x, Crosses(T, x, P)
  PROVE  Comes(T, x, Q) /\ \A y : Crosses(T, y, P) => Settles(T, x, y)
<1> DEFINE U == T[3]
           R(w) == EntriesFrom("string", U, Into(T, w))
<1>1. ASSUME NEW w, Crosses(T, w, P)
      PROVE  /\ w = <<"map", w[2]>> /\ Parts(T, w) = {<<U, p[2]>> : p \in w[2]}
             /\ \A p \in w[2] : <<U, p[2]>> \in P
             /\ \A p, q \in w[2] : p[1] = q[1] => p = q
             /\ Lossless(T, w) <=> Named(w[2]) = w[2]
             /\ Back(T, w) = Under("map", R(w)) /\ Into(T, w)[1] = "object"
             /\ IsOk(R(w)) =>
                  /\ R(w) = Ok(R(w)[2])
                  /\ \A c \in R(w)[2] :
                       \E p \in Named(w[2]) : c[1] = p[1] /\ Returns(U, p[2], c[2])
             /\ (\A p \in Named(w[2]) : <<U, p[2]>> \in Q) => R(w) = Ok(Named(w[2]))
  <2> DEFINE M == w[2]
             v == Into(T, w)
             r == R(w)
  <2>1. /\ w = <<"map", M>> /\ IsFiniteSet(M) /\ Parts(T, w) = {<<U, p[2]>> : p \in M}
        /\ \A p \in M : <<U, p[2]>> \in P
        /\ \A p \in M : /\ p = <<p[1], p[2]>> /\ p[1] = <<"string", p[1][2]>>
                        /\ IsText(p[1][2])
        /\ \A p, q \in M : p[1] = q[1] => p = q
        /\ v = MapInto("string", U, M) /\ Back(T, w) = Under("map", r)
        /\ Lossless(T, w) <=> \A p \in M : Str(p[1][2]) # Proto
    BY <1>1, MapIs
  <2>2. r = EntriesFrom("string", U, v)
    OBVIOUS
  <2> HIDE DEF M, v, r
  <2>3. /\ v[1] = "object"
        /\ IsOk(r) => /\ r = Ok(r[2])
                      /\ \A c \in r[2] : \E p \in Named(M) : c[1] = p[1] /\ Returns(U, p[2], c[2])
        /\ (\A p \in Named(M) : <<U, p[2]>> \in Q) => r = Ok(Named(M))
    BY <2>1, <2>2, TextsBack
  <2>4. Lossless(T, w) <=> Named(M) = M
    BY <2>1 DEF Named
  <2> QED  BY <2>1, <2>3, <2>4 DEF M, v, r
<1> DEFINE M == x[2]
           r == R(x)
<1>2. /\ x = <<"map", M>> /\ Parts(T, x) = {<<U, p[2]>> : p \in M}
      /\ \A p \in M : <<U, p[2]>> \in P
      /\ \A p, q \in M : p[1] = q[1] => p = q
      /\ Lossless(T, x) <=> Named(M) = M
      /\ Back(T, x) = Under("map", r) /\ Into(T, x)[1] = "object"
      /\ IsOk(r) => /\ r = Ok(r[2])
                    /\ \A c \in r[2] : \E p \in Named(M) : c[1] = p[1] /\ Returns(U, p[2], c[2])
      /\ (\A p \in Named(M) : <<U, p[2]>> \in Q) => r = Ok(Named(M))
  BY <1>1
<1> HIDE DEF M, r
<1>3. \A v : v[1] = "object" => ~Nullish(v)
  BY DEF Nullish, Undefined, Null
\* What comes back is whole, and survives.
<1>4. ASSUME NEW N, r = Ok(N), \A c \in N : <<U, c[2]>> \in P
      PROVE  Named(N) = N /\ \A c \in N : <<U, c[2]>> \in Q
  <2>1. ASSUME NEW c \in N PROVE c \in Named(N) /\ <<U, c[2]>> \in Q
    <3>1. PICK p \in Named(M) : c[1] = p[1] /\ Returns(U, p[2], c[2])
      BY <1>2, <1>4, OkIs
    <3> DEFINE z == p[2]
               d == c[2]
    <3>2. <<U, z>> \in P /\ <<U, d>> \in P /\ Returns(U, z, d)
      BY <1>2, <1>4, <3>1 DEF Named
    <3> HIDE DEF z, d
    <3>3. Settles(U, z, d)
      BY <3>2, PartIs
    <3>4. Returns(U, d, d)
      BY <3>2, <3>3 DEF Settles
    <3>5. <<U, d>> \in Q
      BY <3>2, <3>4, PartIs
    <3>6. c \in Named(N)
      BY <3>1 DEF Named
    <3> QED  BY <3>5, <3>6 DEF d
  <2>2. Named(N) \subseteq N
    BY DEF Named
  <2> QED  BY <2>1, <2>2
<1>5. r = Ok(M) <=> Named(M) = M /\ \A p \in M : <<U, p[2]>> \in Q
  BY <1>2, <1>4
<1>6. ASSUME NEW w, NEW y, w = <<"map", y>>
      PROVE  Back(T, x) = Ok(w) <=> r = Ok(y)
  BY <1>2, <1>6, UnderIs
<1>7. Comes(T, x, Q)
  <2>1. IsOk(Back(T, x)) => Back(T, x) = Ok(Back(T, x)[2])
    BY <1>2, UnderIs
  <2>2. Back(T, x) = Ok(x) <=> Named(M) = M /\ \A p \in M : <<U, p[2]>> \in Q
    BY <1>2, <1>5, <1>6
  <2>3. Parts(T, x) \subseteq Q <=> \A p \in M : <<U, p[2]>> \in Q
    BY <1>2
  <2> QED  BY <1>2, <2>1, <2>2, <2>3 DEF Comes, Returns
<1>8. ASSUME NEW y, Crosses(T, y, P), Returns(T, x, y)
      PROVE  Returns(T, y, y) /\ (Nullish(Into(T, x)) <=> Nullish(Into(T, y)))
  <2> DEFINE N == y[2]
             q == R(y)
  <2>1. /\ y = <<"map", N>> /\ \A p \in N : <<U, p[2]>> \in P
        /\ Back(T, y) = Under("map", q) /\ Into(T, y)[1] = "object"
        /\ (\A p \in Named(N) : <<U, p[2]>> \in Q) => q = Ok(Named(N))
    BY <1>1, <1>8
  <2> HIDE DEF N, q
  <2>2. r = Ok(N)
    BY <1>6, <1>8, <2>1 DEF Returns
  <2>3. q = Ok(N)
    BY <1>4, <2>1, <2>2
  <2>4. Back(T, y) = Ok(y)
    BY <2>1, <2>3, UnderIs
  <2> QED  BY <1>2, <1>3, <2>1, <2>4 DEF Returns
<1> QED  BY <1>7, <1>8 DEF Settles

-----------------------------------------------------------------------------
(* Every type, at every depth.                                             *)

LEMMA EveryType ==
  ASSUME NEW P, NEW Q, Sound(P, Q), NEW T, NEW x, Crosses(T, x, P)
  PROVE  Comes(T, x, Q) /\ \A y : Crosses(T, y, P) => Settles(T, x, y)
<1>1. T[1] \in Kinds
  BY KindsAre DEF Crosses
<1>2. CASE T[1] \in Scalars
  BY <1>2, ScalarSound
<1>3. CASE T[1] = "date"
  BY <1>3, DateSound
<1>4. CASE T[1] \in Pointers
  BY <1>4, PointerSound
<1>5. CASE T[1] = "option"
  BY <1>5, OptionSound
<1>6. CASE T[1] = "result"
  BY <1>6, ResultSound
<1>7. CASE T[1] = "vec"
  BY <1>7, VecSound
<1>8. CASE T[1] = "set"
  BY <1>8, SetSound
<1>9. CASE T[1] = "tuple"
  BY <1>9, TupleSound
<1>10. CASE T[1] = "map"
  <2>1. T[2] = "string" \/ T[2] = "i32"
    BY <1>10, MapIs
  <2>2. CASE T[2] = "string"
    BY <1>10, <2>2, TextsSound
  <2>3. CASE T[2] = "i32"
    BY <1>10, <2>3, NumbersSound
  <2> QED  BY <2>1, <2>2, <2>3
<1> QED  BY <1>1, <1>2, <1>3, <1>4, <1>5, <1>6, <1>7, <1>8, <1>9, <1>10 DEF Kinds

\* The values of a depth whose parts are in S, and of which nothing else is lost.
Lasting(n, S) ==
  {w \in Crossed[n] : Lossless(w[1], w[2]) /\ Parts(w[1], w[2]) \subseteq S}

LEMMA SurvivorsAre ==
  \A n \in 0..Depth : Survivors[n] = Lasting(n, IF n = 0 THEN {} ELSE Survivors[n - 1])
<1> DEFINE Y == SUBSET UNION {Crossed[n] : n \in 0..Depth}
           base == Lasting(0, {})
           step == [w \in (1..Depth) \X Y |-> Lasting(w[1], w[2])]
           Is(f) == f = [n \in 0..Depth |->
                          {w \in Crossed[n] :
                            /\ Lossless(w[1], w[2])
                            /\ Parts(w[1], w[2]) \subseteq IF n = 0 THEN {} ELSE f[n - 1]}]
<1>1. Depth \in Nat
  BY ConversionsAssumption
<1>2. ASSUME NEW n \in 0..Depth, NEW S PROVE Lasting(n, S) \in Y
  BY DEF Lasting
<1>3. base \in Y
  <2>1. 0 \in 0..Depth
    BY <1>1
  <2> HIDE DEF Y
  <2> QED  BY <1>2, <2>1
<1>4. /\ step \in [(1..Depth) \X Y -> Y]
      /\ \A n \in 1..Depth, S \in Y : step[<<n, S>>] = Lasting(n, S)
  <2>1. \A n \in 1..Depth : n \in 0..Depth
    BY <1>1
  <2> HIDE DEF Y
  <2>2. \A w \in (1..Depth) \X Y : Lasting(w[1], w[2]) \in Y
    BY <1>2, <2>1
  <2> QED  BY <2>2
<1> HIDE DEF Y, base, step
<1>5. PICK f : Recurs(Depth, Y, base, step, f)
  <2>1. step \in [(1..Depth) \X Y -> Y]
    BY <1>4
  <2> QED  BY <1>1, <1>3, <2>1, RecursionExists
<1>6. f \in [0..Depth -> Y]
  BY <1>5 DEF Recurs
<1>7. ASSUME NEW n \in 0..Depth
      PROVE  f[n] = Lasting(n, IF n = 0 THEN {} ELSE f[n - 1])
  <2>1. f[n] = IF n = 0 THEN base ELSE step[<<n, f[n - 1]>>]
    BY <1>5 DEF Recurs
  <2>2. CASE n = 0
    BY <2>1, <2>2 DEF base
  <2>3. CASE n # 0
    <3>1. n \in 1..Depth /\ n - 1 \in 0..Depth
      BY <1>1, <2>3
    <3>2. f[n - 1] \in Y
      BY <1>6, <3>1
    <3> QED  BY <1>4, <2>1, <2>3, <3>1, <3>2
  <2> QED  BY <2>2, <2>3
<1>8. Is(f)
  <2> DEFINE g == [n \in 0..Depth |->
                    {w \in Crossed[n] :
                      /\ Lossless(w[1], w[2])
                      /\ Parts(w[1], w[2]) \subseteq IF n = 0 THEN {} ELSE f[n - 1]}]
  <2>1. \A n \in 0..Depth : f[n] = g[n]
    BY <1>7 DEF Lasting
  <2>2. f = [n \in 0..Depth |-> f[n]] /\ g = [n \in 0..Depth |-> g[n]]
    BY <1>6
  <2>3. f = g
    <3> HIDE DEF g
    <3> QED  BY <2>1, <2>2
  <2> QED  BY <2>3
<1>9. Survivors = CHOOSE s : Is(s)
  BY DEF Survivors
<1>10. Is(Survivors)
  <2> HIDE DEF Is
  <2> QED  BY <1>8, <1>9
<1> SUFFICES ASSUME NEW n \in 0..Depth
             PROVE  Survivors[n] = Lasting(n, IF n = 0 THEN {} ELSE Survivors[n - 1])
  OBVIOUS
<1> QED  BY <1>10 DEF Lasting

LEMMA EveryDepth ==
  \A n \in 0..Depth : Sound(Crossed[n], Survivors[n])
<1> DEFINE B == {n \in 0..Depth : ~Sound(Crossed[n], Survivors[n])}
<1>1. Depth \in Nat
  BY ConversionsAssumption
<1>2. SUFFICES ASSUME B # {} PROVE FALSE
  OBVIOUS
<1>3. PICK n \in B : \A m \in B : n <= m
  <2>1. B \subseteq Nat
    BY <1>1
  <2> HIDE DEF B
  <2> QED  BY <1>2, <2>1, SmallestNat
<1>4. n \in 0..Depth /\ ~Sound(Crossed[n], Survivors[n])
  OBVIOUS
<1> DEFINE P == IF n = 0 THEN {} ELSE Crossed[n - 1]
           Q == IF n = 0 THEN {} ELSE Survivors[n - 1]
<1>5. Sound(P, Q)
  <2>1. CASE n = 0
    BY <2>1 DEF Sound
  <2>2. CASE n # 0
    <3>1. n - 1 \in 0..Depth /\ ~ (n <= n - 1)
      BY <1>1, <1>4, <2>2
    <3>2. n - 1 \notin B
      <4> HIDE DEF B
      <4> QED  BY <1>3, <3>1
    <3> QED  BY <2>2, <3>1, <3>2
  <2> QED  BY <2>1, <2>2
<1>6. Survivors[n] = Lasting(n, Q)
  BY <1>4, SurvivorsAre
<1> HIDE DEF B
<1>7. ASSUME NEW U, NEW z, <<U, z>> \in Crossed[n]
      PROVE  Crosses(U, z, P)
  <2> DEFINE w == <<U, z>>
  <2>1. w[1] = U /\ w[2] = z /\ w \in Crossed[n]
    BY <1>7
  <2> HIDE DEF w
  <2>2. /\ HasType(w[1], w[2]) /\ Parts(w[1], w[2]) \subseteq P
        /\ Into(w[1], w[2]) = IntoJs(w[1], w[2])
        /\ From(w[1], Into(w[1], w[2])) = FromJs(w[1], Into(w[1], w[2]))
    BY <1>4, <2>1, ConversionsAssumption
  <2> HIDE DEF P
  <2> QED  BY <2>1, <2>2 DEF Crosses, Back
<1> HIDE DEF P, Q
<1>8. ASSUME NEW U, NEW z, <<U, z>> \in Crossed[n]
      PROVE  /\ IsOk(Back(U, z)) => Returns(U, z, Back(U, z)[2])
             /\ Returns(U, z, z) <=> <<U, z>> \in Survivors[n]
             /\ \A y : <<U, y>> \in Crossed[n] => Settles(U, z, y)
  <2>1. Comes(U, z, Q) /\ \A y : Crosses(U, y, P) => Settles(U, z, y)
    BY <1>5, <1>7, <1>8, EveryType
  <2>2. <<U, z>> \in Survivors[n] <=> Lossless(U, z) /\ Parts(U, z) \subseteq Q
    BY <1>6, <1>8 DEF Lasting
  <2>3. ASSUME NEW y, <<U, y>> \in Crossed[n] PROVE Settles(U, z, y)
    BY <1>7, <2>1, <2>3
  <2> QED  BY <2>1, <2>2, <2>3 DEF Comes
<1> QED  BY <1>4, <1>8 DEF Sound

\* What both sides hold is, until somebody edits it, what was written.
AsWritten == written # <<>> /\ edits = 0 => target = Into(written[1], written[2])

LEMMA AsWrittenStep == CollInv /\ AsWritten /\ [CollectionsNext]_collectionVars => AsWritten'
<1> SUFFICES ASSUME CollInv, AsWritten, [CollectionsNext]_collectionVars PROVE AsWritten'
  OBVIOUS
<1>1. CASE Write
  BY <1>1 DEF Write, AsWritten
<1>2. CASE Meet
  BY <1>2 DEF Meet, AsWritten
<1>3. CASE EditArray \/ EditObject
  <2>1. edits \in Nat
    BY CollectionsAssumption DEF CollInv
  <2>2. edits' = edits + 1
    BY <1>3 DEF EditArray, EditObject
  <2>3. edits' # 0
    BY <2>1, <2>2
  <2> QED  BY <2>3 DEF AsWritten
<1>4. CASE UNCHANGED <<written, target, edits>>
  BY <1>4 DEF AsWritten
<1>5. ASSUME StartIter \/ NextFront \/ NextBack \/ StartProps \/ NextProp
             \/ UNCHANGED collectionVars
      PROVE  UNCHANGED <<written, target, edits>>
  BY <1>5 DEF StartIter, NextFront, NextBack, StartProps, NextProp, collectionVars
<1> QED  BY <1>1, <1>2, <1>3, <1>4, <1>5 DEF CollectionsNext

LEMMA CollComesBack == CollInv /\ AsWritten => ComesBack
<1> SUFFICES ASSUME CollInv, AsWritten, written # <<>>, edits = 0
             PROVE  From(written[1], target) = Ok(written[2]) <=> written \in Survivors[Depth]
  BY DEF ComesBack, Surviving
<1>1. written \in Crossed[Depth] /\ Depth \in 0..Depth
  BY CollectionsAssumption, ConversionsAssumption DEF CollInv
<1>2. written = <<written[1], written[2]>>
  BY <1>1, ConversionsAssumption
<1> DEFINE U == written[1]
           z == written[2]
<1>3. target = Into(U, z)
  BY DEF AsWritten
<1> HIDE DEF U, z
<1>4. /\ <<U, z>> \in Crossed[Depth]
      /\ <<U, z>> \in Survivors[Depth] <=> written \in Survivors[Depth]
  BY <1>1, <1>2 DEF U, z
<1>5. Returns(U, z, z) <=> <<U, z>> \in Survivors[Depth]
  <2>1. Sound(Crossed[Depth], Survivors[Depth])
    BY <1>1, EveryDepth
  <2> QED  BY <1>4, <2>1, PartIs
<1> QED  BY <1>3, <1>4, <1>5 DEF Returns, Back, U, z

\* A value that was written and that JavaScript left alone comes back as it was
\* exactly when it survives: nothing else is lost between into_js and from_js,
\* of any type built from the modelled ones, however deep it nests.
THEOREM WrittenComesBack ==
  CollectionsSpec => []ComesBack
<1>1. CollectionsInit => AsWritten
  BY DEF CollectionsInit, AsWritten
<1> QED
  BY <1>1, CollReachable, AsWrittenStep, CollComesBack, PTL DEF CollectionsSpec
=============================================================================
