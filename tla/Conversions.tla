------------------------------- MODULE Conversions -------------------------------
(***************************************************************************)
(* The conversions between JavaScript values and Rust types: IntoJs and    *)
(* FromJs of scalars, dates, options, results, sequences, sets, tuples and *)
(* maps.  Types are terms, <<"option", <<"i32">>>> for Option<i32>.        *)
(*                                                                         *)
(* The impl of a type converts what it holds by the impls of other types,  *)
(* which the compiler finds: Into and From are all of them, and IntoJs and *)
(* FromJs say what each one does.                                          *)
(***************************************************************************)
EXTENDS Values

CONSTANTS
  Into(_, _),  \* into_js of a type
  From(_, _),  \* from_js of a type
  MaxDate,     \* the largest millisecond of a Date (8.64e15)
  Depth,       \* bound on how deeply the types that cross nest
  Crossed      \* inputs: Crossed[n], the <<T, x>> that cross, nested n deep at most

-----------------------------------------------------------------------------
(* IntoJs.                                                                 *)

\* A time is a number of half-milliseconds since the epoch; Duration's
\* as_millis rounds towards the epoch, and Date knows no time beyond MaxDate.
Millis(time) == IF time >= 0 THEN time \div 2 ELSE -((-time) \div 2)
DateFrom(time) ==
  IF Millis(time) \in (-MaxDate)..MaxDate THEN DateAt(Millis(time)) ELSE InvalidDate

\* Smart pointers and Coerced convert as what they hold.
Pointers == {"box", "rc", "arc", "mutex", "rwlock"}

\* collect_js::<Array>, and collect_js::<Object> of pairs, in their order.
ArrayFrom(T, items) == Arr([i \in DOMAIN items |-> Into(T, items[i])])
ObjectFrom(K, T, pairs) ==
  LET props[n \in 0..Len(pairs)] ==
        IF n = 0 THEN <<>>
        ELSE SetProperty(props[n - 1], PropertyKey(IntoAtom(K, pairs[n][1])),
                         Into(T, pairs[n][2]))
  IN  Obj(props[Len(pairs)])

SeqInto(T, items) == ArrayFrom(T, items)
SetInto(T, members) == ArrayFrom(T, SetToSeq(members))
MapInto(K, T, pairs) == ObjectFrom(K, T, SetToSeq(pairs))
TupleInto(Ts, fields) == Arr([i \in DOMAIN Ts |-> Into(Ts[i], fields[i])])
TextInto(chars) == Str(chars)
OptionInto(T, x) == IF x = <<"none">> THEN Undefined ELSE Into(T, x[2])

\* An Err has no value: into_js fails with it, so results here are Ok.
IntoJs(T, x) ==
  CASE T[1] = "option" -> OptionInto(T[2], x)
    [] T[1] \in {"result"} \cup Pointers -> Into(T[2], x[2])
    [] T[1] = "vec" -> SeqInto(T[2], x[2])
    [] T[1] = "set" -> SetInto(T[2], x[2])
    [] T[1] = "tuple" -> TupleInto(T[2], x[2])
    [] T[1] = "map" -> MapInto(T[2], T[3], x[2])
    [] T[1] = "date" -> DateFrom(x[2])
    [] T[1] = "unit" -> Undefined
    [] T[1] = "i32" -> Num(x[2])
    [] T[1] \in {"string", "char"} -> TextInto(x[2])
    [] OTHER -> x[2]  \* bool, Undefined, Null, Value and the typed views

-----------------------------------------------------------------------------
(* FromJs.                                                                 *)

\* SystemTime::from_js goes through Number(date), which is NaN when invalid.
TimeFrom(v) ==
  CASE v[1] = "date" -> Ok(<<"date", 2 * v[2]>>)
    [] v[1] = "invalid date" -> Refuse("Date")
    [] OTHER -> Refused(v)

TextFrom(v) == IF v[1] = "string" THEN Ok(<<"string", Stringified(v)>>) ELSE Refused(v)
CharFrom(v) ==
  IF IsOk(TextFrom(v)) /\ Len(TextFrom(v)[2][2]) = 1
  THEN Ok(<<"char", TextFrom(v)[2][2]>>) ELSE Refused(v)

ViewFrom(view, v) == IF ViewAccepts(view, v) THEN Ok(<<"view", v>>) ELSE Refused(v)

\* Coerced<bool> and Coerced<String>, which never fail.
Truthy(v) ==
  v \notin {Undefined, Null, Bool(FALSE), Num(0), Big(0), Str(<<>>)}
CoercedFrom(what, v) ==
  IF what = "bool" THEN Ok(<<"coerced", Bool(Truthy(v))>>)
  ELSE Ok(<<"coerced", Str(Stringified(v))>>)

VecFrom(T, v) == SeqFrom(v, LAMBDA e : From(T, e))
SetFrom(T, v) == Mapped(VecFrom(T, v), ToSet)
EntriesFrom(K, T, v) == MapFrom(K, v, LAMBDA e : From(T, e))
TupleFrom(Ts, v) ==
  IF v[1] = "array" THEN AllOk([i \in DOMAIN Ts |-> From(Ts[i], Element(v[2], i - 1))])
  ELSE Refused(v)

BugOptionFrom(T, v) ==  \* null is not None
  IF v = Undefined THEN Ok(<<"none">>) ELSE Mapped(From(T, v), LAMBDA x : <<"some", x>>)
OptionFrom(T, v) ==
  IF Nullish(v) THEN Ok(<<"none">>) ELSE Mapped(From(T, v), LAMBDA x : <<"some", x>>)
ResultFrom(T, v) == Ok(From(T, v))
PointerFrom(pointer, T, v) == Mapped(From(T, v), LAMBDA x : <<pointer, x>>)

FromJs(T, v) ==
  CASE T[1] = "option" -> OptionFrom(T[2], v)
    [] T[1] = "result" -> ResultFrom(T[2], v)
    [] T[1] \in Pointers -> PointerFrom(T[1], T[2], v)
    [] T[1] = "vec" -> Mapped(VecFrom(T[2], v), LAMBDA x : <<"vec", x>>)
    [] T[1] = "set" -> Mapped(SetFrom(T[2], v), LAMBDA x : <<"set", x>>)
    [] T[1] = "tuple" -> Mapped(TupleFrom(T[2], v), LAMBDA x : <<"tuple", x>>)
    [] T[1] = "map" -> Mapped(EntriesFrom(T[2], T[3], v), LAMBDA x : <<"map", x>>)
    [] T[1] = "date" -> TimeFrom(v)
    [] T[1] = "unit" -> Ok(<<"unit">>)
    [] T[1] = "value" -> Ok(<<"value", v>>)
    [] T[1] = "view" -> ViewFrom(T[2], v)
    [] T[1] = "coerced" -> CoercedFrom(T[2], v)
    [] T[1] = "char" -> CharFrom(v)
    [] T[1] = "string" -> TextFrom(v)
    [] T[1] = "i32" -> IF v[1] \in {"int", "big_int"} THEN Ok(<<"i32", v[2]>>) ELSE Refused(v)
    [] OTHER -> IF v[1] = T[1] THEN Ok(<<T[1], v>>) ELSE Refused(v)  \* bool, Undefined, Null

-----------------------------------------------------------------------------
(* Rust values, and those that survive the way to JavaScript and back.     *)

\* A Rust string, which has no unpaired surrogate.
IsText(chars) == chars \in Seq(ToSet(chars)) /\ "lone" \notin ToSet(chars)
Bools == {Bool(b) : b \in BOOLEAN}

\* What a value of type T holds; nothing is said of its parts.
ContentOK(T, held) ==
  CASE T[1] \in {"option", "result", "value"} \cup Pointers -> TRUE
    [] T[1] = "vec" -> held \in Seq(ToSet(held))
    [] T[1] = "set" -> IsFiniteSet(held)
    [] T[1] = "tuple" ->
         T[2] \in Seq(ToSet(T[2])) /\ held \in Seq(ToSet(held)) /\ Len(held) = Len(T[2])
    [] T[1] = "map" ->
         /\ IsFiniteSet(held)
         /\ \A p \in held : p = <<p[1], p[2]>> /\ p[1] = <<T[2], p[1][2]>>
         /\ \A p, q \in held : p[1] = q[1] => p = q
         /\ \/ T[2] = "string" /\ \A p \in held : IsText(p[1][2])
            \/ T[2] = "i32" /\ \A p \in held : p[1][2] \in Int
    [] T[1] \in {"date", "i32"} -> held \in Int
    [] T[1] = "string" -> IsText(held)
    [] T[1] = "char" -> IsText(held) /\ Len(held) = 1
    [] T[1] = "bool" -> held \in Bools
    [] T[1] = "undefined" -> held = Undefined
    [] T[1] = "null" -> held = Null
    [] T[1] = "view" -> ViewAccepts(T[2], held)
    [] T[1] = "coerced" /\ T[2] = "bool" -> held \in Bools
    [] T[1] = "coerced" /\ T[2] = "string" -> held = Str(held[2]) /\ IsText(held[2])
    [] OTHER -> FALSE

Tag(T) == CASE T[1] = "option" -> "some" [] T[1] = "result" -> "ok" [] OTHER -> T[1]
HasType(T, x) ==
  \/ T[1] = "unit" /\ x = <<"unit">>
  \/ T[1] = "option" /\ x = <<"none">>
  \/ x = <<Tag(T), x[2]>> /\ ContentOK(T, x[2])

\* The values inside x that are converted by impls of their own.
Parts(T, x) ==
  CASE T[1] = "option" -> IF x = <<"none">> THEN {} ELSE {<<T[2], x[2]>>}
    [] T[1] \in {"result"} \cup Pointers -> {<<T[2], x[2]>>}
    [] T[1] = "vec" -> {<<T[2], y>> : y \in ToSet(x[2])}
    [] T[1] = "set" -> {<<T[2], y>> : y \in x[2]}
    [] T[1] = "tuple" -> {<<T[2][i], x[2][i]>> : i \in DOMAIN T[2]}
    [] T[1] = "map" -> {<<T[3], p[2]>> : p \in x[2]}
    [] OTHER -> {}

\* Whether anything but its parts is lost of x.  Some of a value that reads as
\* null or undefined comes back as None, a Date has milliseconds and an end,
\* the property __proto__ is no property, and keys of objects are strings,
\* which no integer type takes back.
Lossless(T, x) ==
  CASE T[1] = "option" -> x # <<"none">> => ~Nullish(Into(T[2], x[2]))
    [] T[1] = "map" -> \A p \in x[2] : T[2] # "i32" /\ Str(p[1][2]) # Proto
    [] T[1] = "date" -> x[2] % 2 = 0 /\ x[2] \in (-2 * MaxDate)..(2 * MaxDate)
    [] OTHER -> TRUE

\* A value survives if nothing is lost of it, nor of its parts.
Survivors[n \in 0..Depth] ==
  {w \in Crossed[n] : /\ Lossless(w[1], w[2])
                      /\ Parts(w[1], w[2]) \subseteq IF n = 0 THEN {} ELSE Survivors[n - 1]}
Surviving == Survivors[Depth]

\* What crosses has its type, and its parts cross; the impl of each type is that
\* of IntoJs and FromJs.
ASSUME ConversionsAssumption ==
  /\ MaxDate \in Nat /\ Depth \in Nat
  /\ \A n \in 0..Depth : \A w \in Crossed[n] :
       /\ w = <<w[1], w[2]>> /\ HasType(w[1], w[2])
       /\ Parts(w[1], w[2]) \subseteq IF n = 0 THEN {} ELSE Crossed[n - 1]
       /\ Into(w[1], w[2]) = IntoJs(w[1], w[2])
       /\ From(w[1], Into(w[1], w[2])) = FromJs(w[1], Into(w[1], w[2]))
=============================================================================
