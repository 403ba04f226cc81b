------------------------------ MODULE Collections ------------------------------
(***************************************************************************)
(* An array or an object that crosses between Rust and JavaScript: Rust    *)
(* writes it with into_js or meets one of JavaScript's making, and walks   *)
(* it with Array::iter or Object::props, while JavaScript edits it between *)
(* two steps of the walk.                                                  *)
(***************************************************************************)
EXTENDS Conversions

CONSTANTS
  Written,     \* inputs: <<T, x>>, the Rust values that are written
  Foreign,     \* inputs: values of JavaScript's making
  Handed,      \* inputs: what JavaScript puts into an array or an object
  ItemTypes,   \* inputs: the item types of walks
  KeyTypes,    \* inputs: the key types of walks
  Filters,     \* inputs: the filters of own_props
  MaxEdits     \* bound on edits

\* What a value of JavaScript's is made of: an array has a sequence of values, an
\* object properties with keys of their own.
Tags == {"undefined", "null", "bool", "int", "float", "big_int", "string", "symbol",
         "array", "object", "date", "invalid date", "cell"}
IsProperty(p) ==
  p = <<p[1], p[2], p[3]>> /\ p[1][1] \in {"string", "symbol"} /\ p[3] \in BOOLEAN
IsValue(v) ==
  /\ v[1] \in Tags
  /\ v[1] \in {"array", "object"} => v[2] \in Seq(ToSet(v[2]))
  /\ v[1] = "array" => \A e \in ToSet(v[2]) : e[1] \in Tags
  /\ v[1] = "object" =>
       /\ \A p \in ToSet(v[2]) : IsProperty(p)
       /\ IsInjective([i \in DOMAIN v[2] |-> v[2][i][1]])

\* A result: a value, or what the value was called that was refused.
IsResult(r) == IsOk(r) \/ r[2] \in TypeNames \cup {"Date"}

Inputs == Foreign \cup {Into(w[1], w[2]) : w \in Written}
Items ==
  {Undefined} \cup Handed
    \cup UNION {ToSet(v[2]) : v \in {u \in Inputs : u[1] = "array"}}

ASSUME CollectionsAssumption ==
  /\ MaxEdits \in Nat
  /\ Written \subseteq Crossed[Depth]
  /\ \A v \in Inputs : IsValue(v)
  /\ \A v \in Handed : v[1] \in Tags
  /\ Filters \subseteq [string: BOOLEAN, symbol: BOOLEAN, enumOnly: BOOLEAN]
  /\ \A T \in ItemTypes, v \in Items : IsResult(From(T, v))

VARIABLES
  written,  \* the <<T, x>> that was written, <<>> for a foreign value
  target,   \* the value both sides hold
  edits,    \* how often JavaScript changed it
  walk,     \* the ArrayIter or ObjectIter
  start     \* the target when the walk began

collectionVars == <<written, target, edits, walk, start>>

NoTarget == Undefined
NoWalk == [kind |-> "none"]

CollectionsInit ==
  /\ written = <<>>
  /\ target = NoTarget
  /\ edits = 0
  /\ walk = NoWalk
  /\ start = NoTarget

-----------------------------------------------------------------------------
(* The value.                                                              *)

Write ==
  /\ target = NoTarget /\ written = <<>>
  /\ \E w \in Written :
       /\ written' = w
       /\ target' = Into(w[1], w[2])
  /\ UNCHANGED <<edits, walk, start>>

Meet ==
  /\ target = NoTarget /\ written = <<>>
  /\ \E v \in Foreign : target' = v
  /\ UNCHANGED <<written, edits, walk, start>>

\* JavaScript pushes, pops or overwrites an element.
EditArray ==
  /\ target[1] = "array"
  /\ edits < MaxEdits
  /\ edits' = edits + 1
  /\ \/ \E v \in Handed : target' = Arr(Append(target[2], v))
     \/ target[2] # <<>> /\ target' = Arr(Front(target[2]))
     \/ \E v \in Handed, i \in DOMAIN target[2] :
          target' = Arr([target[2] EXCEPT ![i] = v])
  /\ UNCHANGED <<written, walk, start>>

\* JavaScript deletes a property, assigns one or hides one.
EditObject ==
  /\ target[1] = "object"
  /\ edits < MaxEdits
  /\ edits' = edits + 1
  /\ \E key \in KeysOf(target[2]) \cup {Str(<<"new">>)} :
       \/ target' = Obj(Only(target[2], {p \in ToSet(target[2]) : p[1] # key}))
       \/ \E v \in Handed : target' = Obj(SetProperty(target[2], key, v))
       \/ target' = Obj([i \in DOMAIN target[2] |->
                          IF target[2][i][1] = key
                          THEN <<key, target[2][i][2], FALSE>> ELSE target[2][i]])
  /\ UNCHANGED <<written, walk, start>>

-----------------------------------------------------------------------------
(* Array::iter: the length is read once, the elements when their turn is.   *)

StartIter ==
  /\ target[1] = "array"
  /\ walk = NoWalk
  /\ \E T \in ItemTypes :
       walk' = [kind |-> "array", item |-> T, index |-> 0,
                len |-> Len(target[2]), front |-> <<>>, back |-> <<>>]
  /\ start' = target
  /\ UNCHANGED <<written, target, edits>>

Read(i) == <<i, From(walk.item, Element(target[2], i))>>

BugNextFront ==  \* one element too many
  /\ walk.kind = "array"
  /\ walk.index <= walk.len
  /\ walk' = [walk EXCEPT !.front = Append(@, Read(walk.index)), !.index = @ + 1]
  /\ UNCHANGED <<written, target, edits, start>>
NextFront ==
  /\ walk.kind = "array"
  /\ walk.index < walk.len
  /\ walk' = [walk EXCEPT !.front = Append(@, Read(walk.index)), !.index = @ + 1]
  /\ UNCHANGED <<written, target, edits, start>>

BugNextBack ==  \* reads before it shortens the range
  /\ walk.kind = "array"
  /\ walk.index < walk.len
  /\ walk' = [walk EXCEPT !.back = Append(@, Read(walk.len)), !.len = @ - 1]
  /\ UNCHANGED <<written, target, edits, start>>
NextBack ==
  /\ walk.kind = "array"
  /\ walk.index < walk.len
  /\ walk' = [walk EXCEPT !.back = Append(@, Read(walk.len - 1)), !.len = @ - 1]
  /\ UNCHANGED <<written, target, edits, start>>

-----------------------------------------------------------------------------
(* Object::props and own_props: the keys are collected once, the values are *)
(* read when their turn is.                                                *)

StartProps ==
  /\ target[1] = "object"
  /\ walk = NoWalk
  /\ \E K \in KeyTypes, T \in ItemTypes, filter \in Filters :
       walk' = [kind |-> "props", key |-> K, item |-> T, filter |-> filter,
                keys |-> OwnKeys(target, filter), given |-> <<>>]
  /\ start' = target
  /\ UNCHANGED <<written, target, edits>>

NextProp ==
  /\ walk.kind = "props"
  /\ walk.keys # <<>>
  /\ LET key == Head(walk.keys)
     IN  walk' = [walk EXCEPT
                    !.keys = Tail(@),
                    !.given = Append(@, <<key, PairFrom(walk.key, key,
                                     From(walk.item, Property(target, key)))>>)]
  /\ UNCHANGED <<written, target, edits, start>>

CollectionsNext ==
  \/ Write \/ Meet \/ EditArray \/ EditObject
  \/ StartIter \/ NextFront \/ NextBack
  \/ StartProps \/ NextProp

CollectionsSpec == CollectionsInit /\ [][CollectionsNext]_collectionVars

\* The type invariant: also, a walk stays within the array it started on, and
\* what it read are results.
CollectionTypes ==
  /\ written \in Written \cup {<<>>}
  /\ edits \in 0..MaxEdits
  /\ walk.kind \in {"none", "array", "props"}
  /\ walk.kind = "array" =>
       walk.index \in 0..walk.len /\ walk.len \in 0..Len(start[2])
  /\ walk.kind = "array" => \A r \in ToSet(walk.front \o walk.back) : IsResult(r[2])

-----------------------------------------------------------------------------
(* Properties of what crosses.                                             *)

\* A value that into_js wrote and nobody touched is read back by from_js as the
\* value it was, exactly when it is of those that survive.
ComesBack ==
  written # <<>> /\ edits = 0 =>
    (From(written[1], target) = Ok(written[2]) <=> written \in Surviving)

\* What Type::interpretable_as promises of a value's type_of, the typed view of
\* that name keeps: try_into_object, try_into_function and the others take it.
InterpretationSound ==
  \A view \in Views,
     v \in {target} \cup IF target[1] = "array" THEN ToSet(target[2]) ELSE {} :
    InterpretableAs(TypeOf(v), view) => ViewAccepts(view, v)

\* A walk from both ends of an array reads no index twice and none beyond the
\* length it started with, and when it is over it has read every one; unless
\* somebody edited the array, what it collected is what Vec::from_js reads.
WalkComplete ==
  walk.kind = "array" =>
    LET reads == walk.front \o Reverse(walk.back)
        indices == [i \in DOMAIN reads |-> reads[i][1]]
        whole == Len(start[2])
    IN  /\ IsInjective(indices)
        /\ ToSet(indices) \subseteq 0..(whole - 1)
        /\ walk.index = walk.len => indices = [i \in 1..whole |-> i - 1]
        /\ walk.index = walk.len /\ start = target /\ edits = 0 =>
             SeqFrom(target, LAMBDA v : From(walk.item, v)) =
               AllOk([i \in DOMAIN reads |-> reads[i][2]])

\* A key of an object comes before another: strings before symbols, and the keys of
\* one kind as their properties do.
Precedes(key, next, props) ==
  \/ key[1] = "string" /\ next[1] = "symbol"
  \/ /\ key[1] = next[1]
     /\ \E i, j \in DOMAIN props : i < j /\ props[i][1] = key /\ props[j][1] = next

\* keys and props give the enumerable string properties the object had when the
\* walk began, own_props those its filter asks for, each once and in order,
\* whatever becomes of the object; unless somebody edited it, what props collected
\* is what HashMap::from_js reads.
KeysAsTheyWere ==
  walk.kind = "props" =>
    LET shown == [i \in DOMAIN walk.given |-> walk.given[i][1]] \o walk.keys
        had == {p[1] : p \in {q \in ToSet(start[2]) :
                                /\ walk.filter.enumOnly => q[3]
                                /\ walk.filter[q[1][1]]}}
    IN  /\ ToSet(shown) = had
        /\ IsInjective(shown)
        /\ \A i, j \in DOMAIN shown : i < j => Precedes(shown[i], shown[j], start[2])
        /\ walk.keys = <<>> /\ walk.filter = KeysFilter /\ edits = 0 =>
             MapFrom(walk.key, target, LAMBDA v : From(walk.item, v)) =
               Mapped(AllOk([i \in DOMAIN walk.given |-> walk.given[i][2]]), LastOfEach)
=============================================================================
