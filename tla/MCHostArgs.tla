------------------------------ MODULE MCHostArgs ------------------------------
(***************************************************************************)
(* HostArgs for TLC: every number around the bounds of the types as first  *)
(* argument, a few values after it; each type as a plain parameter, and    *)
(* optional, rest and exhaustive parameters in all orders of two and some  *)
(* of three.                                                               *)
(***************************************************************************)
EXTENDS HostArgs

Doubles == {n \in (-3 * Wide)..(3 * Wide) : Double(n) = n}

MCFirst == {UndefinedArg, OddArg, ObjectArg}
           \cup {JsValue("number", n) : n \in Doubles}
           \cup {JsValue("bigint", n) : n \in (-3 * Wide)..(3 * Wide)}
MCLater == {UndefinedArg, ObjectArg, JsValue("number", 1), JsValue("bigint", -1)}
MCArgSets == <<MCFirst, MCLater, MCLater>>

P(kind, type) == [kind |-> kind, type |-> type]
Mixed == {P("plain", "value"), P("opt", "i32"), P("rest", "i64"),
          P("exhaustive", "value")}
MCSignatures ==
  {<<>>} \cup {<<P("plain", T)>> : T \in Types}
         \cup {<<p>> : p \in Mixed} \cup {<<p, q>> : p, q \in Mixed}
         \cup {<<P("opt", "u32"), p, q>> : p, q \in Mixed}
=============================================================================
