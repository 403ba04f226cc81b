--------------------------------- MODULE Values ---------------------------------
(***************************************************************************)
(* JavaScript values as rbun classifies them, property keys, objects and   *)
(* arrays, and what is collected from them, whatever the items become.     *)
(*                                                                         *)
(* A value of either side is a tuple whose first element is its tag, so    *)
(* values of different kinds are never compared by content.  The widths of *)
(* numbers are the business of HostArgs: here an integer fits its type.    *)
(***************************************************************************)
EXTENDS Integers, SequencesExt, TLC

-----------------------------------------------------------------------------
(* JavaScript values.                                                      *)

Undefined == <<"undefined">>
Null == <<"null">>
Bool(b) == <<"bool", b>>
Num(n) == <<"int", n>>
Odd == <<"float">>  \* a fraction
Big(n) == <<"big_int", n>>
Str(chars) == <<"string", chars>>
Sym(name) == <<"symbol", name>>
Arr(items) == <<"array", items>>
\* Own properties in order: <<key, value, whether it is enumerable>>.
Obj(props) == <<"object", props>>
DateAt(ms) == <<"date", ms>>
InvalidDate == <<"invalid date">>
\* Any other object: what JavaScriptCore answers about it.
Cell(features) == <<"cell", features>>

\* A string is a sequence of code points; "lone" is an unpaired surrogate, which
\* only JavaScript strings hold: Rust reads U+FFFD, "replacement".
RustChars(chars) ==
  [i \in DOMAIN chars |-> IF chars[i] = "lone" THEN "replacement" ELSE chars[i]]

\* is_object, is_array, is_function, is_promise, is_error and their like.
Nullish(v) == v \in {Undefined, Null}
IsObject(v) == v[1] \in {"array", "object", "date", "invalid date", "cell"}
Has(v, feature) ==
  \/ v[1] = "cell" /\ feature \in v[2]
  \/ v[1] = "array" /\ feature = "array"

TypeNames == {"undefined", "null", "bool", "int", "float", "string", "symbol",
              "array", "constructor", "function", "promise", "exception",
              "object", "big_int"}

\* Value::type_of: the questions in their order.
TypeOf(v) ==
  CASE ~IsObject(v) -> v[1]
    [] Has(v, "array") -> "array"
    [] Has(v, "function") ->
         IF Has(v, "constructor") THEN "constructor" ELSE "function"
    [] Has(v, "promise") /\ ~Has(v, "function") -> "promise"
    [] Has(v, "error") /\ ~Has(v, "function") /\ ~Has(v, "promise") -> "exception"
    [] OTHER -> "object"

\* Type::interpretable_as.
BugInterpretableAs(type, other) ==  \* the two kinds of functions swapped
  \/ type = other
  \/ /\ other = "object"
     /\ type \in {"array", "constructor", "function", "promise", "exception"}
  \/ other = "constructor" /\ type = "function"
  \/ other = "float" /\ type = "int"
InterpretableAs(type, other) ==
  \/ type = other
  \/ /\ other = "object"
     /\ type \in {"array", "constructor", "function", "promise", "exception"}
  \/ other = "function" /\ type = "constructor"
  \/ other = "float" /\ type = "int"

\* try_into_object and its like: the typed views ask the engine, not type_of.
Views == {"object", "function", "constructor", "array", "promise", "string",
          "symbol", "big_int", "exception"}
ViewAccepts(view, v) ==
  CASE view = "object" -> IsObject(v)
    [] view \in {"function", "constructor", "array", "promise"} -> Has(v, view)
    [] view = "exception" -> Has(v, "error")
    [] OTHER -> v[1] = view

-----------------------------------------------------------------------------
(* Property keys.                                                          *)

\* to_string_lossy.  String(symbol) throws when it is asked for in C.
Stringified(v) ==
  CASE v[1] = "string" -> RustChars(v[2])
    [] v[1] \in {"int", "big_int"} -> <<ToString(v[2])>>
    [] v[1] = "symbol" -> <<"[exception]">>
    [] OTHER -> <<v[1]>>

\* Atom::from_value.
AtomOf(v) ==
  IF v[1] \in {"string", "symbol", "int", "float"} THEN v ELSE Str(Stringified(v))

\* IntoAtom of a Rust key; the property a number names is its numeral.
IntoAtom(K, key) ==
  CASE K = "i32" -> Num(key[2])
    [] K \in {"symbol", "value"} -> AtomOf(key[2])
    [] OTHER -> Str(key[2])
PropertyKey(atom) == IF atom[1] = "symbol" THEN atom ELSE Str(Stringified(atom))

\* FromJs and FromAtom give <<"ok", x>> or <<"err", what the value was called>>.
Ok(x) == <<"ok", x>>
Refuse(name) == <<"err", name>>
Refused(v) == Refuse(TypeOf(v))
IsOk(r) == r[1] = "ok"

\* FromAtom: an integer type takes numbers only, and a key of an object is a
\* string or a symbol.
FromAtom(K, key) ==
  CASE K = "string" -> Ok(<<"string", Stringified(key)>>)
    [] K = "symbol" /\ key[1] = "symbol" -> Ok(<<"symbol", key>>)
    [] K = "i32" /\ key[1] = "int" -> Ok(<<"i32", key[2]>>)
    [] K = "value" -> Ok(<<"value", key>>)
    [] OTHER -> Refused(key)

-----------------------------------------------------------------------------
(* Objects and arrays.                                                     *)

\* obj[key] = value, on an object whose prototype is Object.prototype: the
\* accessor __proto__ takes the value instead of a property.
Proto == Str(<<"__proto__">>)
KeysOf(props) == {props[i][1] : i \in DOMAIN props}
SetProperty(props, key, value) ==
  IF key = Proto THEN props
  ELSE IF key \in KeysOf(props)
       THEN [i \in DOMAIN props |->
               IF props[i][1] = key THEN <<key, value, props[i][3]>> ELSE props[i]]
       ELSE Append(props, <<key, value, TRUE>>)

PropsOf(v) ==
  CASE v[1] = "object" -> v[2]
    [] v[1] = "array" -> [i \in DOMAIN v[2] |-> <<PropertyKey(Num(i - 1)), v[2][i], TRUE>>]
    [] OTHER -> <<>>

\* Object::get, of a key that no prototype knows.
Property(v, key) ==
  IF key \in KeysOf(PropsOf(v))
  THEN (CHOOSE p \in ToSet(PropsOf(v)) : p[1] = key)[2]
  ELSE Undefined

\* Array::get, also of an index beyond the end.
Element(items, i) == IF i < Len(items) THEN items[i + 1] ELSE Undefined

\* Filter: which own keys are asked for; keys, props and the maps take KeysFilter.
Filter(string, symbol, enumOnly) ==
  [string |-> string, symbol |-> symbol, enumOnly |-> enumOnly]
KeysFilter == Filter(TRUE, FALSE, TRUE)

\* The elements of a sequence that are in a set, in their order.
Only(s, S) ==
  LET kept[n \in 0..Len(s)] ==
        IF n = 0 THEN <<>>
        ELSE IF s[n] \in S THEN Append(kept[n - 1], s[n]) ELSE kept[n - 1]
  IN  kept[Len(s)]

Tagged(props, tag) ==
  Only([i \in DOMAIN props |-> props[i][1]], {key \in KeysOf(props) : key[1] = tag})

\* own_key_values and the helper ownKeys: the strings, then the symbols.
BugOwnKeys(v, filter) ==  \* the hidden ones too
  (IF filter.string THEN Tagged(PropsOf(v), "string") ELSE <<>>)
    \o (IF filter.symbol THEN Tagged(PropsOf(v), "symbol") ELSE <<>>)
BugOwnKeysOrder(v, filter) ==  \* the symbols first
  LET asked == Only(PropsOf(v), {p \in ToSet(PropsOf(v)) : filter.enumOnly => p[3]})
  IN  (IF filter.symbol THEN Tagged(asked, "symbol") ELSE <<>>)
        \o (IF filter.string THEN Tagged(asked, "string") ELSE <<>>)
OwnKeys(v, filter) ==
  LET asked == Only(PropsOf(v), {p \in ToSet(PropsOf(v)) : filter.enumOnly => p[3]})
  IN  (IF filter.string THEN Tagged(asked, "string") ELSE <<>>)
        \o (IF filter.symbol THEN Tagged(asked, "symbol") ELSE <<>>)

-----------------------------------------------------------------------------
(* What is collected: Item(v) is from_js of an element or of the value of a *)
(* property.                                                               *)

\* The first error of a sequence of results, or all of their values.
AllOk(results) ==
  LET bad == {i \in DOMAIN results : ~IsOk(results[i])}
  IN  IF bad = {} THEN Ok([i \in DOMAIN results |-> results[i][2]]) ELSE results[Min(bad)]

\* Result::map.
Mapped(result, Op(_)) == IF IsOk(result) THEN Ok(Op(result[2])) ELSE result

\* Pairs collected into a map: of equal keys the last one stays.
LastOfEach(pairs) ==
  {pairs[i] : i \in {k \in DOMAIN pairs :
                       \A j \in DOMAIN pairs : j > k => pairs[j][1] # pairs[k][1]}}

\* Array::iter, collected: the elements in order, the first error ends it.
SeqFrom(v, Item(_)) ==
  IF v[1] = "array" THEN AllOk([i \in DOMAIN v[2] |-> Item(v[2][i])]) ELSE Refused(v)

\* ObjectIter::next: the value is read and converted before the key.
PairFrom(K, key, value) ==
  CASE ~IsOk(value) -> value
    [] ~IsOk(FromAtom(K, key)) -> FromAtom(K, key)
    [] OTHER -> Ok(<<FromAtom(K, key)[2], value[2]>>)
MapFrom(K, v, Item(_)) ==
  IF IsObject(v)
  THEN LET keys == OwnKeys(v, KeysFilter)
       IN  Mapped(AllOk([i \in DOMAIN keys |->
                          PairFrom(K, keys[i], Item(Property(v, keys[i])))]),
                  LastOfEach)
  ELSE Refused(v)
=============================================================================
