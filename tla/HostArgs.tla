-------------------------------- MODULE HostArgs --------------------------------
(***************************************************************************)
(* How the arguments of a call from JavaScript become the parameters of a  *)
(* Rust function: Params hands the arguments out one by one, each          *)
(* parameter takes and converts its own, and the first failure ends the    *)
(* call.  Numbers cross the boundary in both directions; their widths are  *)
(* scaled down (SafeBits stands for 53, WideBits for 63, SmallBits for the *)
(* narrow types), which keeps what matters: the narrow types fit a double, *)
(* the wide ones do not, and the bounds of a wide type, as doubles, round  *)
(* to the power of two next to them.                                       *)
(***************************************************************************)
EXTENDS Integers, SequencesExt

CONSTANTS
  SmallBits, SafeBits, WideBits,
  Signatures,  \* parameter lists of the host functions
  ArgSets      \* what JavaScript passes as the first, second, ... argument

Small == 2^SmallBits
Safe == 2^SafeBits
Wide == 2^WideBits

ASSUME HostArgsAssumption ==
  /\ SmallBits \in Nat /\ SafeBits \in Nat /\ WideBits \in Nat
  /\ SmallBits < SafeBits /\ SafeBits + 1 < WideBits

-----------------------------------------------------------------------------
(* JavaScript values and Rust numbers.                                     *)

\* "odd" stands for a number that is no integer: a fraction, NaN, infinity.
JsValue(tag, n) == [tag |-> tag, n |-> n]
JsValues == [tag: {"undefined", "odd", "object", "number", "bigint"}, n: Int]
UndefinedArg == JsValue("undefined", 0)
OddArg == JsValue("odd", 0)
ObjectArg == JsValue("object", 0)

IntTypes == {"i32", "u32", "i64", "u64"}
Types == IntTypes \cup {"f64", "value"}
Lowest(T) == IF T = "i32" THEN -Small ELSE IF T = "i64" THEN -Wide ELSE 0
Highest(T) == IF T = "i32" THEN Small - 1 ELSE IF T = "u32" THEN 2 * Small - 1
              ELSE IF T = "i64" THEN Wide - 1 ELSE 2 * Wide - 1
Width(T) == Lowest(T)..Highest(T)

\* The double nearest to n, a tie going to the even one.
Spacing(n) == Min({s \in {2^e : e \in 0..WideBits} : -Safe * s <= n /\ n <= Safe * s})
Double(n) ==
  LET s == Spacing(n)
      down == n \div s
      up == 2 * (n % s) > s \/ (2 * (n % s) = s /\ down % 2 = 1)
  IN  (IF up THEN down + 1 ELSE down) * s

\* into_js: wide integers beyond the safe ones become BigInts.
BugStaysNumber(n) == -2 * Safe <= n /\ n <= 2 * Safe  \* 2^54
StaysNumber(n) == -Safe <= n /\ n <= Safe
NumberIntoJs(T, n) ==
  IF T \in {"i32", "u32"} \/ StaysNumber(n) THEN JsValue("number", Double(n))
  ELSE JsValue("bigint", n)

\* JSValueToInt64 of a BigInt keeps 64 bits.
ToI64(n) == ((n + Wide) % (2 * Wide)) - Wide

\* `n as T', from a double: saturates.
Cast(T, n) == Max({Lowest(T), Min({Highest(T), n})})

\* The bounds are compared as doubles.
BugInBounds(T, n) == Double(Lowest(T)) <= n  \* the upper bound is forgotten
InBounds(T, n) == Double(Lowest(T)) <= n /\ n <= Double(Highest(T))

BugFits(T, n) == TRUE  \* `as' instead of try_from
Fits(T, n) == n \in Width(T)

\* from_js: <<>> when the value is refused, else what the parameter gets.  For a
\* BigInt, JSValueToNumber throws.
NumberFromJs(T, v) ==
  IF T = "value" \/ (T = "f64" /\ v.tag \in {"number", "odd"}) THEN <<v>>
  ELSE IF T = "f64" \/ v.tag \notin {"number", "bigint"} THEN <<>>
  ELSE IF v.tag = "bigint"
       THEN IF Fits(T, ToI64(v.n)) THEN <<JsValue(T, ToI64(v.n))>> ELSE <<>>
       ELSE IF InBounds(T, v.n) THEN <<JsValue(T, Cast(T, v.n))>> ELSE <<>>

-----------------------------------------------------------------------------
(* Calls.                                                                  *)

ParamKinds == {"plain", "opt", "rest", "exhaustive"}
ParamSpec == [kind: ParamKinds, type: Types]

ASSUME SignaturesAssumption ==
  /\ Signatures \subseteq Seq(ParamSpec)
  /\ ArgSets \in Seq(SUBSET JsValues)
  /\ \A i \in DOMAIN ArgSets : UndefinedArg \in ArgSets[i]

VARIABLES
  args,    \* Params.args, as passed
  index,   \* Params.index
  sig,     \* the parameters of the function called
  got,     \* what the parameters converted so far hold, a sequence each
  phase,   \* "js", "converting", "ran" or "threw"
  origin   \* the type and value of the Rust number that the first argument is

vars == <<args, index, sig, got, phase, origin>>

Init ==
  /\ args = <<>> /\ index = 0 /\ sig = <<>> /\ got = <<>> /\ phase = "js"
  /\ origin = <<>>

Pass(v) ==
  /\ phase = "js" /\ Len(args) < Len(ArgSets) /\ v \in ArgSets[Len(args) + 1]
  /\ args' = Append(args, v)
  /\ UNCHANGED <<index, sig, got, phase, origin>>

\* JavaScript passes on a number that another host function returned.
PassReturned(T, n) ==
  /\ phase = "js" /\ args = <<>>
  /\ args' = <<NumberIntoJs(T, n)>> /\ origin' = <<T, n>>
  /\ UNCHANGED <<index, sig, got, phase>>

CallHost(s) ==
  /\ phase = "js"
  /\ sig' = s /\ phase' = "converting"
  /\ UNCHANGED <<args, index, got, origin>>

Param == sig[Len(got) + 1]
Converting(kind) ==
  /\ phase = "converting" /\ Len(got) < Len(sig) /\ Param.kind = kind
  /\ UNCHANGED <<args, sig, origin>>

\* Params::take.
Argument == IF index < Len(args) THEN args[index + 1] ELSE UndefinedArg
BugAdvance == IF Argument = UndefinedArg THEN index ELSE index + 1  \* undefined stays
Advance == IF index < Len(args) THEN index + 1 ELSE index

Store(values) == got' = Append(got, values) /\ UNCHANGED phase
Fail == phase' = "threw" /\ UNCHANGED got

FromPlain ==
  /\ Converting("plain")
  /\ index' = Advance
  /\ LET c == NumberFromJs(Param.type, Argument)
     IN  IF c = <<>> THEN Fail ELSE Store(c)

\* Opt: a missing or undefined argument is None.
FromOpt ==
  /\ Converting("opt")
  /\ index' = Advance
  /\ LET c == NumberFromJs(Param.type, Argument)
     IN  IF Argument = UndefinedArg THEN Store(<<>>)
         ELSE IF c = <<>> THEN Fail ELSE Store(c)

\* Rest: all that is left, or the first error.
FromRest ==
  /\ Converting("rest")
  /\ index' = Len(args)
  /\ LET c == [k \in 1..(Len(args) - index) |-> NumberFromJs(Param.type, args[index + k])]
     IN  IF <<>> \in ToSet(c) THEN Fail
         ELSE Store([k \in DOMAIN c |-> Head(c[k])])

FromExhaustive ==
  /\ Converting("exhaustive")
  /\ IF index < Len(args) THEN Fail ELSE Store(<<>>)
  /\ UNCHANGED index

Run ==
  /\ phase = "converting" /\ Len(got) = Len(sig)
  /\ phase' = "ran"
  /\ UNCHANGED <<args, index, sig, got, origin>>

Next ==
  \/ \E i \in DOMAIN ArgSets : \E v \in ArgSets[i] : Pass(v)
  \/ \E T \in IntTypes : \E n \in Width(T) : PassReturned(T, n)
  \/ \E s \in Signatures : CallHost(s)
  \/ FromPlain \/ FromOpt \/ FromRest \/ FromExhaustive \/ Run

Spec == Init /\ [][Next]_vars

\* The type invariant: also, a parameter of an integer type holds a number of
\* its width.
Holds(T, v) ==
  IF T \in IntTypes THEN v.tag = T /\ v.n \in Width(T)
  ELSE IF T = "f64" THEN v.tag \in {"number", "odd"} ELSE TRUE
TypeOK ==
  /\ index \in 0..Len(args) /\ sig \in Signatures \cup {<<>>}
  /\ phase \in {"js", "converting", "ran", "threw"} /\ Len(got) <= Len(sig)
  /\ \A i \in DOMAIN got : \A k \in DOMAIN got[i] : Holds(sig[i].type, got[i][k])

-----------------------------------------------------------------------------
(* Safety.                                                                 *)

\* The parameters as their declaration reads, without the cursor: where the
\* i-th finds its arguments, and what it makes of them.
Given(i) ==
  LET taken == Cardinality({j \in 1..(i - 1) : sig[j].kind \in {"plain", "opt"}})
      rest == \E j \in 1..(i - 1) : sig[j].kind = "rest"
  IN  IF rest THEN <<>> ELSE SubSeq(args, taken + 1, Len(args))
First(i) == IF Given(i) = <<>> THEN UndefinedArg ELSE Head(Given(i))
Meant(i) ==
  CASE sig[i].kind = "plain" -> <<NumberFromJs(sig[i].type, First(i))>>
    [] sig[i].kind = "opt" -> IF First(i) = UndefinedArg THEN <<>>
                              ELSE <<NumberFromJs(sig[i].type, First(i))>>
    [] sig[i].kind = "rest" ->
         [k \in DOMAIN Given(i) |-> NumberFromJs(sig[i].type, Given(i)[k])]
    [] OTHER -> IF Given(i) = <<>> THEN <<>> ELSE << <<>> >>
Refuses(i) == <<>> \in ToSet(Meant(i))

\* A host function runs exactly when every parameter accepts its arguments,
\* and gets them in their places: an omitted or undefined optional does not
\* shift the others, and no argument is handed to two parameters.
ArgumentsInPlace ==
  /\ \A i \in DOMAIN got :
       ~Refuses(i) /\ got[i] = [k \in DOMAIN Meant(i) |-> Head(Meant(i)[k])]
  /\ phase = "threw" => Refuses(Len(got) + 1)

\* An integer parameter is the number that JavaScript passed.  The exceptions
\* are a double one above the type's maximum, which `as' saturates, and a
\* BigInt of more than 64 bits, which is truncated.
Exact ==
  \A i \in DOMAIN got :
    sig[i].kind \in {"plain", "opt"} /\ sig[i].type \in IntTypes /\ got[i] # <<>>
      => LET T == sig[i].type
             n == got[i][1].n
             v == First(i)
         IN  \/ n = v.n
             \/ v.tag = "number" /\ v.n = Highest(T) + 1 /\ n = Highest(T)
             \/ v.tag = "bigint" /\ v.n \notin Width("i64") /\ n = ToI64(v.n)

\* A number that a host function returns and a parameter of the same type
\* takes back is the same; a u64 above i64::MAX is refused, never another.
RoundTrip ==
  origin # <<>> /\ sig # <<>> /\ sig[1] = [kind |-> "plain", type |-> origin[1]] =>
    /\ got # <<>> => got[1][1].n = origin[2]
    /\ phase = "threw" /\ got = <<>> => origin[2] > Highest("i64")
=============================================================================
