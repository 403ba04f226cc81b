---------------------------------- MODULE Roots ----------------------------------
(***************************************************************************)
(* The cells of JavaScript's heap that Rust refers to.  JavaScriptCore     *)
(* collects a cell which JavaScript cannot reach and whose protection      *)
(* count is zero, and gives its address to the next allocation.  Rust      *)
(* refers to cells by address: from Values and Persistents, from the slot  *)
(* of the pending exception, from the caches of property keys, helper      *)
(* functions and class prototypes, from the registry of host functions,    *)
(* and from Rust values that live inside class instances, which the        *)
(* finalizer of the instance drops.                                        *)
(***************************************************************************)
EXTENDS Integers, FiniteSetsExt

CONSTANTS
  Cells,         \* addresses
  NoCell,        \* null
  Keys,          \* property names short enough to be interned
  MaxEntries,    \* INTERN_MAX_ENTRIES
  MaxHandles,    \* bound: Values, and Persistents, of one cell at a time
  MaxInstances,  \* bound: class instances made
  MaxNesting,    \* bound: calls of C::prototype inside one another
  MaxReentered   \* bound: such calls in a behaviour

ASSUME RootsAssumption ==
  /\ NoCell \notin Cells /\ IsFiniteSet(Cells) /\ IsFiniteSet(Keys)
  /\ MaxEntries \in Nat /\ MaxHandles \in Nat /\ MaxInstances \in Nat
  /\ MaxNesting \in Nat /\ MaxReentered \in Nat

VARIABLES
  live,       \* addresses at which there is a cell
  reached,    \* cells that JavaScript, or JavaScriptCore's stack, can reach
  protects,   \* JSValueProtect minus JSValueUnprotect
  values,     \* Values of each cell that host code holds
  saved,      \* Persistents of each cell that host code holds
  pending,    \* RuntimeInner.pending_exception
  atoms,      \* RuntimeInner.atoms
  helper,     \* RuntimeInner.helpers, for one name
  functions,  \* the keys of FUNCTIONS
  prototype,  \* ClassEntry.prototype of one class
  making,     \* calls of its C::prototype in progress
  reentered,  \* how many of them began inside another
  private,    \* JSObjectGetPrivate: the Rust value of an instance, 0 for none
  drops,      \* the keys of INSTANCE_DROPS
  keeps,      \* the cell of the Value that is part of a Rust value
  dropped     \* how often each Rust value was dropped

handles == <<values, saved>>
caches == <<pending, atoms, helper, functions>>
classVars == <<prototype, making, reentered>>
instanceVars == <<private, drops, keeps, dropped>>
vars == <<live, reached, protects, handles, caches, classVars, instanceVars>>

Instances == 1..MaxInstances
Inc(f, c) == [f EXCEPT ![c] = @ + 1]
Dec(f, c) == [f EXCEPT ![c] = @ - 1]
One(b) == IF b THEN 1 ELSE 0

Init ==
  /\ live = {} /\ reached = {} /\ protects = [c \in Cells |-> 0]
  /\ values = [c \in Cells |-> 0] /\ saved = [c \in Cells |-> 0]
  /\ pending = NoCell /\ atoms = [k \in Keys |-> NoCell] /\ helper = NoCell
  /\ functions = {}
  /\ prototype = NoCell /\ making = 0 /\ reentered = 0
  /\ private = [c \in Cells |-> 0] /\ drops = {}
  /\ keeps = [i \in Instances |-> NoCell]
  /\ dropped = [i \in Instances |-> 0]

-----------------------------------------------------------------------------
(* JavaScript and its collector.                                           *)

JsAllocate(c) ==
  /\ c \notin live
  /\ live' = live \cup {c} /\ reached' = reached \cup {c}
  /\ UNCHANGED <<protects, handles, caches, classVars, instanceVars>>

JsForget(c) ==
  /\ c \in reached
  /\ reached' = reached \ {c}
  /\ UNCHANGED <<live, protects, handles, caches, classVars, instanceVars>>

\* Host code stores a value in an object, passes it or returns it.
Give(c) ==
  /\ values[c] > 0
  /\ reached' = reached \cup {c}
  /\ UNCHANGED <<live, protects, handles, caches, classVars, instanceVars>>

\* finalize_trampoline: what the collector does with the Rust value i.
BugUnlisted(i) == drops  \* the destructor stays registered
Unlisted(i) == drops \ {i}
Finalize(c) ==
  LET i == private[c]
  IN  IF i \in drops
      THEN /\ drops' = Unlisted(i)
           /\ dropped' = Inc(dropped, i)
           /\ keeps' = [keeps EXCEPT ![i] = NoCell]
           /\ protects' = IF keeps[i] = NoCell THEN protects
                          ELSE Dec(protects, keeps[i])
      ELSE UNCHANGED <<drops, dropped, keeps, protects>>

Collect(c) ==
  /\ c \in live \ reached /\ protects[c] = 0
  /\ live' = live \ {c}
  /\ Finalize(c)
  /\ private' = [private EXCEPT ![c] = 0]
  /\ UNCHANGED <<reached, handles, caches, classVars>>

-----------------------------------------------------------------------------
(* Value and Persistent.                                                   *)

Room(f, c) == f[c] < MaxHandles

\* Value::from_raw of what the C API returned or passed.
BugProtected(c) == protects  \* JSValueProtect is not called
Protected(c) == Inc(protects, c)
FromRaw(c) ==
  /\ c \in reached /\ Room(values, c)
  /\ protects' = Protected(c) /\ values' = Inc(values, c)
  /\ UNCHANGED <<live, reached, saved, caches, classVars, instanceVars>>

CloneValue(c) ==
  /\ values[c] > 0 /\ Room(values, c)
  /\ protects' = Inc(protects, c) /\ values' = Inc(values, c)
  /\ UNCHANGED <<live, reached, saved, caches, classVars, instanceVars>>

DropValue(c) ==
  /\ values[c] > 0
  /\ protects' = Dec(protects, c) /\ values' = Dec(values, c)
  /\ UNCHANGED <<live, reached, saved, caches, classVars, instanceVars>>

\* Persistent::save consumes the value; its own protection replaces it.
Save(c) ==
  /\ values[c] > 0 /\ Room(saved, c)
  /\ values' = Dec(values, c) /\ saved' = Inc(saved, c)
  /\ UNCHANGED <<live, reached, protects, caches, classVars, instanceVars>>

ClonePersistent(c) ==
  /\ saved[c] > 0 /\ Room(saved, c)
  /\ protects' = Inc(protects, c) /\ saved' = Inc(saved, c)
  /\ UNCHANGED <<live, reached, values, caches, classVars, instanceVars>>

\* Dropped, or restored on another runtime, which is refused.
DropPersistent(c) ==
  /\ saved[c] > 0
  /\ protects' = Dec(protects, c) /\ saved' = Dec(saved, c)
  /\ UNCHANGED <<live, reached, values, caches, classVars, instanceVars>>

\* Persistent::restore takes a Value, then drops itself.
BugRestore(c) ==  \* the Value takes no protection of its own
  /\ saved[c] > 0 /\ Room(values, c)
  /\ protects' = Dec(protects, c)
  /\ values' = Inc(values, c) /\ saved' = Dec(saved, c)
  /\ UNCHANGED <<live, reached, caches, classVars, instanceVars>>
Restore(c) ==
  /\ saved[c] > 0 /\ Room(values, c)
  /\ values' = Inc(values, c) /\ saved' = Dec(saved, c)
  /\ UNCHANGED <<live, reached, protects, caches, classVars, instanceVars>>

-----------------------------------------------------------------------------
(* The pending exception and the caches.                                   *)

\* The protections once c is pending in place of what was.
BugReplaced(c) == Inc(protects, c)  \* the overwritten exception stays protected
Replaced(c) == IF pending = NoCell THEN Inc(protects, c)
               ELSE Dec(Inc(protects, c), pending)

\* throw_raw, of a value or of an exception from the C API.
Throw(c) ==
  /\ c \in reached \/ values[c] > 0
  /\ protects' = Replaced(c)
  /\ pending' = c
  /\ UNCHANGED <<live, reached, handles, atoms, helper, functions, classVars,
                 instanceVars>>

\* Ctx::catch: the Value takes over the protection of the slot.
Catch ==
  /\ pending # NoCell /\ Room(values, pending)
  /\ values' = Inc(values, pending)
  /\ pending' = NoCell
  /\ UNCHANGED <<live, reached, protects, saved, atoms, helper, functions,
                 classVars, instanceVars>>

\* A new cell that host code gets a Value of, protected `extra' times more.
New(c, extra) ==
  /\ c \notin live
  /\ live' = live \cup {c}
  /\ values' = Inc(values, c)
  /\ protects' = [protects EXCEPT ![c] = @ + 1 + extra]

Interned == {k \in Keys : atoms[k] # NoCell}
Intern(k) ==
  /\ \/ /\ k \in Interned /\ Room(values, atoms[k])
        /\ values' = Inc(values, atoms[k])
        /\ protects' = Inc(protects, atoms[k])
        /\ UNCHANGED <<live, atoms>>
     \/ /\ k \notin Interned /\ Cardinality(Interned) < MaxEntries
        /\ \E c \in Cells : New(c, 1) /\ atoms' = [atoms EXCEPT ![k] = c]
     \/ /\ k \notin Interned /\ Cardinality(Interned) >= MaxEntries
        /\ \E c \in Cells : New(c, 0)
        /\ UNCHANGED atoms
  /\ UNCHANGED <<reached, saved, pending, helper, functions, classVars,
                 instanceVars>>

\* Ctx::function, of a function the bootstrap script defined.
Helper ==
  /\ \/ /\ helper # NoCell /\ Room(values, helper)
        /\ values' = Inc(values, helper) /\ protects' = Inc(protects, helper)
        /\ UNCHANGED helper
     \/ /\ helper = NoCell
        /\ \E c \in reached :
             /\ Room(values, c)
             /\ values' = Inc(values, c)
             /\ protects' = [protects EXCEPT ![c] = @ + 2]
             /\ helper' = c
  /\ UNCHANGED <<live, reached, saved, pending, atoms, functions, classVars,
                 instanceVars>>

\* make_host_function.
MakeFunction(c) ==
  /\ New(c, 1)
  /\ functions' = functions \cup {c}
  /\ UNCHANGED <<reached, saved, pending, atoms, helper, classVars,
                 instanceVars>>

-----------------------------------------------------------------------------
(* Classes.                                                                *)

\* Class::prototype: the cached one, or what C::prototype, which is host code
\* and may ask for the prototype again, makes.
CachedPrototype ==
  /\ prototype # NoCell /\ Room(values, prototype)
  /\ values' = Inc(values, prototype) /\ protects' = Inc(protects, prototype)
  /\ UNCHANGED <<live, reached, saved, caches, classVars, instanceVars>>

BeginPrototype ==
  /\ prototype = NoCell /\ making < MaxNesting
  /\ making > 0 => reentered < MaxReentered
  /\ making' = making + 1
  /\ reentered' = reentered + One(making > 0)
  /\ UNCHANGED <<live, reached, protects, handles, caches, prototype,
                 instanceVars>>

\* It returns an object, or None or an error, which are not remembered.
EndPrototype(c) ==
  /\ making > 0 /\ New(c, 1)
  /\ prototype' = c
  /\ making' = making - 1
  /\ UNCHANGED <<reached, saved, caches, reentered, instanceVars>>
EndNoPrototype ==
  /\ making > 0
  /\ making' = making - 1
  /\ UNCHANGED <<live, reached, protects, handles, caches, prototype, reentered,
                 instanceVars>>

Unmade == {i \in Instances : i \notin drops /\ dropped[i] = 0}
Fresh == CHOOSE i \in Unmade : TRUE

\* make_instance, of a Rust value that may hold a Value of x.
MakeInstance(c, x) ==
  /\ c \notin live /\ Unmade # {}
  /\ x # NoCell => values[x] > 0
  /\ private' = [private EXCEPT ![c] = Fresh]
  /\ drops' = drops \cup {Fresh}
  /\ keeps' = [keeps EXCEPT ![Fresh] = x]
  /\ live' = live \cup {c}
  /\ values' = [v \in Cells |-> IF v = c THEN values[v] + 1
                                ELSE IF v = x THEN values[v] - 1 ELSE values[v]]
  /\ protects' = Inc(protects, c)
  /\ UNCHANGED <<reached, saved, caches, classVars, dropped>>

Js == \E c \in Cells : JsAllocate(c) \/ JsForget(c) \/ Collect(c)

Host ==
  \/ \E c \in Cells :
       \/ Give(c) \/ FromRaw(c) \/ CloneValue(c) \/ DropValue(c)
       \/ Save(c) \/ ClonePersistent(c) \/ DropPersistent(c) \/ Restore(c)
       \/ Throw(c) \/ MakeFunction(c) \/ EndPrototype(c)
       \/ \E x \in Cells \cup {NoCell} : MakeInstance(c, x)
  \/ \E k \in Keys : Intern(k)
  \/ Catch \/ Helper
  \/ CachedPrototype \/ BeginPrototype \/ EndNoPrototype

Next == Js \/ Host

Spec == Init /\ [][Next]_vars

\* The type invariant.
TypeOK ==
  /\ live \subseteq Cells /\ reached \subseteq Cells
  /\ protects \in [Cells -> Nat]
  /\ values \in [Cells -> Nat] /\ saved \in [Cells -> Nat]
  /\ pending \in Cells \cup {NoCell} /\ atoms \in [Keys -> Cells \cup {NoCell}]
  /\ helper \in Cells \cup {NoCell} /\ functions \subseteq Cells
  /\ prototype \in Cells \cup {NoCell}
  /\ making \in 0..MaxNesting /\ reentered \in 0..MaxReentered
  /\ private \in [Cells -> 0..MaxInstances] /\ drops \subseteq Instances
  /\ keeps \in [Instances -> Cells \cup {NoCell}]
  /\ dropped \in [Instances -> Nat]

-----------------------------------------------------------------------------
(* Safety.                                                                 *)

\* Who has taken a protection of c.
Owners(c) ==
  values[c] + saved[c]
    + One(pending = c) + One(helper = c) + One(prototype = c)
    + One(c \in functions) + Cardinality({k \in Keys : atoms[k] = c})
    + Cardinality({i \in Instances : keeps[i] = c})

\* Whatever JavaScript forgets and whenever the collector runs, an address
\* Rust kept is that of the cell it was taken from: "rooted below for the
\* runtime's lifetime" and "protected when it was stored" (runtime.rs).
HeldIsLive == \A c \in Cells : Owners(c) > 0 => c \in live /\ protects[c] > 0

\* The protections balance: each is given back by exactly one owner, however
\* handles are cloned, saved, restored, thrown, caught and finalized.  Only a
\* C::prototype which asks for its own class's prototype leaks, one
\* protection for each such call.
NothingElseLeaks ==
  /\ \A c \in Cells : protects[c] >= Owners(c)
  /\ MapThenSumSet(LAMBDA c : protects[c] - Owners(c), Cells) <= reentered

\* The Rust value of an instance is dropped when the instance is collected,
\* not before, not twice.
DroppedWithInstance ==
  \A i \in Instances :
    /\ dropped[i] <= 1
    /\ i \in drops <=> \E c \in live : private[c] = i
    /\ i \in drops => dropped[i] = 0
=============================================================================
