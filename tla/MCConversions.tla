----------------------------- MODULE MCConversions -----------------------------
(***************************************************************************)
(* Collections for TLC, with the conversions of Conversions: values of 16  *)
(* types that are written, and arrays and objects of JavaScript's making.  *)
(***************************************************************************)
EXTENDS Collections

-----------------------------------------------------------------------------
(* Inputs.                                                                 *)

I32 == <<"i32">>
Text == <<"string">>
Key(name) == <<"string", <<name>>>>
Whole(n) == <<"i32", n>>
Some(x) == <<"some", x>>
NoneOf == <<"none">>
HashMapOf(K, T) == <<"map", K, T>>

MCWritten == {
  <<<<"vec", I32>>, <<"vec", <<Whole(1), Whole(1), Whole(2)>>>>>>,
  <<<<"vec", <<"option", I32>>>>, <<"vec", <<Some(Whole(1)), NoneOf>>>>>>,
  <<<<"vec", <<"option", <<"option", I32>>>>>>, <<"vec", <<Some(NoneOf)>>>>>>,
  <<<<"vec", <<"option", <<"null">>>>>>, <<"vec", <<Some(<<"null", Null>>)>>>>>>,
  <<<<"vec", <<"vec", Text>>>>, <<"vec", <<<<"vec", <<>>>>, <<"vec", <<Key("a")>>>>>>>>>>,
  <<<<"set", I32>>, <<"set", {Whole(1), Whole(2)}>>>>,
  <<<<"set", <<"date">>>>, <<"set", {<<"date", 4>>, <<"date", 5>>}>>>>,
  <<<<"option", I32>>, NoneOf>>,
  <<<<"tuple", <<I32, <<"option", Text>>, <<"bool">>>>>>,
    <<"tuple", <<Whole(3), NoneOf, <<"bool", Bool(TRUE)>>>>>>>>,
  <<<<"vec", <<"date">>>>, <<"vec", <<<<"date", -4>>, <<"date", 6>>>>>>>>,
  <<<<"vec", <<"date">>>>, <<"vec", <<<<"date", 5>>>>>>>>,
  <<<<"vec", <<"date">>>>, <<"vec", <<<<"date", -2 * MaxDate - 2>>>>>>>>,
  <<<<"vec", <<"box", I32>>>>, <<"vec", <<<<"box", Whole(1)>>>>>>>>,
  <<<<"vec", <<"char">>>>, <<"vec", <<<<"char", <<"a">>>>>>>>>>,
  <<<<"vec", <<"result", <<"date">>>>>>, <<"vec", <<<<"ok", <<"date", 5>>>>>>>>>>,
  <<HashMapOf("string", I32), <<"map", {<<Key("a"), Whole(1)>>, <<Key("b"), Whole(2)>>}>>>>,
  <<HashMapOf("string", I32), <<"map", {<<Key("__proto__"), Whole(1)>>}>>>>,
  <<HashMapOf("string", <<"vec", I32>>), <<"map", {<<Key("a"), <<"vec", <<Whole(1)>>>>>>}>>>>,
  <<HashMapOf("i32", I32), <<"map", {<<Whole(7), Whole(1)>>}>>>>}

\* A constructor is a function to JavaScriptCore; the rest may come together,
\* a function whose prototype is Error.prototype, say.
Cells == {Cell(f) : f \in {g \in SUBSET {"function", "constructor", "promise", "error"} :
                             "constructor" \in g => "function" \in g}}

MCForeign ==
  {Arr(<<Num(1), Undefined, Str(<<"x">>)>>), Arr(<<Null, Num(2)>>),
   Arr(<<Big(4), Odd, Sym("s"), InvalidDate>>),
   Obj(<<<<Str(<<"a">>), Num(1), TRUE>>, <<Sym("s"), Num(2), TRUE>>,
         <<Str(<<"hidden">>), Num(3), FALSE>>, <<Str(<<"z">>), Str(<<"y">>), TRUE>>>>),
   Obj(<<<<Str(<<"lone">>), Num(1), TRUE>>, <<Str(<<"replacement">>), Num(2), TRUE>>>>)}
  \cup Cells

MCHanded == {Num(9), Undefined}
MCItemTypes == {I32, <<"option", I32>>, <<"coerced", "string">>, <<"view", "symbol">>}
MCKeyTypes == {"string", "i32", "symbol", "value"}
MCFilters == {KeysFilter, Filter(TRUE, TRUE, FALSE), Filter(FALSE, TRUE, TRUE)}

\* The values that are written, what they are made of, and so on.
MCCrossed ==
  LET within[n \in 0..Depth] ==
        IF n = Depth THEN MCWritten ELSE UNION {Parts(w[1], w[2]) : w \in within[n + 1]}
  IN  within

-----------------------------------------------------------------------------
(* The impls.  They call Into and From, which are these again: LET keeps    *)
(* TLC's coverage statistics from following that without end.               *)

AllInto(T, x) == LET value == IntoJs(T, x) IN value
AllFrom(T, v) == LET result == FromJs(T, v) IN result
=============================================================================
