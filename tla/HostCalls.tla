------------------------------- MODULE HostCalls -------------------------------
(***************************************************************************)
(* Calls between Rust and JavaScript.  Host code enters JavaScript through *)
(* the C API, JavaScript enters host functions through the trampoline, and *)
(* the two nest.  What crosses the boundary besides values:                *)
(*                                                                         *)
(*   - JavaScript exceptions, kept in the one pending-exception slot of    *)
(*     the runtime while Rust carries Error::Exception;                    *)
(*   - Rust panics, which cannot unwind the frames of JavaScriptCore: the  *)
(*     trampoline parks the payload in PENDING_PANIC and throws, and the   *)
(*     entry points resume it;                                             *)
(*   - the RefCells of FnMut closures and class instances, borrowed for as *)
(*     long as the host function runs, and guards host code holds itself.  *)
(***************************************************************************)
EXTENDS Integers, SequencesExt

CONSTANTS
  Functions,  \* host functions
  OnceFns,    \* those made from an FnOnce
  Cells,      \* RefCells: one per FnMut closure, one per class instance
  CellOf,     \* the cell a function borrows mutably to run, or NoCell
  NoCell,
  Main,       \* the host program, which no JavaScript calls
  MaxDepth,   \* bound: frames on the stack
  MaxThrows,  \* bound: exceptions thrown in a behaviour
  MaxPanics   \* bound: panics

ASSUME HostCallsAssumption ==
  /\ OnceFns \subseteq Functions /\ Main \notin Functions /\ NoCell \notin Cells
  /\ CellOf \in [Functions -> Cells \cup {NoCell}]
  /\ MaxDepth \in Nat /\ MaxThrows \in Nat /\ MaxPanics \in Nat

VARIABLES
  stack,    \* host and JavaScript frames in turn, the innermost last
  slot,     \* RuntimeInner.pending_exception, 0 when none
  pending,  \* PENDING_PANIC, 0 when none
  used,     \* OnceFn closures taken
  bodies,   \* how often the body of each FnOnce was entered
  throws, panics

vars == <<stack, slot, pending, used, bodies, throws, panics>>

\* The C API through which host code enters JavaScript: Function::call_arg,
\* which drains microtasks afterwards, in a frame of its own; those that only
\* resume a panic (call_raw, get, construct, tick); and those that do not:
\* contains_key, remove and finish, and is_instance_of and to_string_lossy
\* which drop the exception as well.
Entries == {"call", "raw", "quiet", "lossy"}
Resuming == {"call", "raw", "microtasks"}

Undefined == MaxThrows + 1  \* thrown when the slot was empty
Exceptions == 0..Undefined

\* `err' is the exception that the Error::Exception held by host code stands
\* for.
HostFrame == [kind: {"host"}, fn: Functions \cup {Main}, unwinding: 0..MaxPanics,
              holds: SUBSET Cells, shares: SUBSET Cells, err: Exceptions]
\* `tainted' tells that a host function called from this entry panicked.
JsFrame == [kind: {"js"}, entry: Entries \cup {"microtasks"},
            exception: Exceptions, tainted: BOOLEAN]

Host(fn, cells) == [kind |-> "host", fn |-> fn, unwinding |-> 0, holds |-> cells,
                    shares |-> {}, err |-> 0]
Js(entry) == [kind |-> "js", entry |-> entry, exception |-> 0, tainted |-> FALSE]

Top == Last(stack)
Caller == stack[Len(stack) - 1]
Below == Front(stack)
SetTop(frame) == stack' = Append(Below, frame)
BugSetCaller(frame) == SetTop(frame)  \* the callee's frame is replaced
SetCaller(frame) == stack' = Append(Front(Below), frame)
Running == Top.kind = "host" /\ Top.unwinding = 0
InJs == Top.kind = "js" /\ Top.exception = 0

HostFrames == {i \in DOMAIN stack : stack[i].kind = "host"}
Held(c) == \E i \in HostFrames : c \in stack[i].holds
Shared(c) == \E i \in HostFrames : c \in stack[i].shares

\* The cell a host function borrows before its parameters are converted.
NeededBy(f) == IF f = Main THEN {} ELSE {CellOf[f]} \ {NoCell}

Init ==
  /\ stack = <<Host(Main, {})>> /\ slot = 0 /\ pending = 0
  /\ used = {} /\ bodies = [f \in OnceFns |-> 0]
  /\ throws = 0 /\ panics = 0

NewThrow == throws < MaxThrows /\ throws' = throws + 1
NewPanic == panics < MaxPanics /\ panics' = panics + 1

-----------------------------------------------------------------------------
(* Host code.                                                              *)

Enter(entry) ==
  /\ Running /\ Len(stack) < MaxDepth
  /\ stack' = Append(stack, Js(entry))
  /\ UNCHANGED <<slot, pending, used, bodies, throws, panics>>

\* Class::borrow and borrow_mut panic when the cell is not free for them.
BugFreeToBorrow(c) == ~Held(c)  \* shared borrows are not counted
FreeToBorrow(c) == ~Held(c) /\ ~Shared(c)
Borrow(c) ==
  /\ Running
  /\ IF Held(c) THEN NewPanic /\ SetTop([Top EXCEPT !.unwinding = panics'])
     ELSE SetTop([Top EXCEPT !.shares = @ \cup {c}]) /\ UNCHANGED panics
  /\ UNCHANGED <<slot, pending, used, bodies, throws>>
BorrowMut(c) ==
  /\ Running
  /\ IF FreeToBorrow(c)
     THEN SetTop([Top EXCEPT !.holds = @ \cup {c}]) /\ UNCHANGED panics
     ELSE NewPanic /\ SetTop([Top EXCEPT !.unwinding = panics'])
  /\ UNCHANGED <<slot, pending, used, bodies, throws>>

\* A guard is dropped; what the trampoline borrowed is not a guard.
DropGuard(c) ==
  /\ Running /\ c \in Top.shares \cup (Top.holds \ NeededBy(Top.fn))
  /\ SetTop([Top EXCEPT !.shares = @ \ {c}, !.holds = @ \ {c}])
  /\ UNCHANGED <<slot, pending, used, bodies, throws, panics>>

\* Ctx::catch takes what is pending, whoever threw it.
Catch ==
  /\ Running /\ Top.err # 0
  /\ slot' = 0
  /\ SetTop([Top EXCEPT !.err = 0])
  /\ UNCHANGED <<pending, used, bodies, throws, panics>>

\* throw_raw puts an exception in the slot, over another.
BugThrowRaw(e) == IF slot = 0 THEN e ELSE slot  \* keeps the earlier one
ThrowRaw(e) == e

\* Ctx::throw and CaughtError::throw.
Throw ==
  /\ Running /\ NewThrow
  /\ slot' = ThrowRaw(throws')
  /\ SetTop([Top EXCEPT !.err = throws'])
  /\ UNCHANGED <<pending, used, bodies, panics>>

Panic ==
  /\ Running /\ NewPanic
  /\ SetTop([Top EXCEPT !.unwinding = panics'])
  /\ UNCHANGED <<slot, pending, used, bodies, throws>>

\* The trampoline returns to JavaScript: a value, ...
ReturnOk ==
  /\ Running /\ Top.fn # Main
  /\ stack' = Below
  /\ UNCHANGED <<slot, pending, used, bodies, throws, panics>>

\* ... the exception Error::Exception stands for, taken from the slot, ...
Taken == IF slot = 0 THEN Undefined ELSE slot
ReturnException ==
  /\ Running /\ Top.fn # Main /\ Top.err # 0
  /\ SetCaller([Caller EXCEPT !.exception = Taken])
  /\ slot' = 0
  /\ UNCHANGED <<pending, used, bodies, throws, panics>>

\* ... an error of another kind, made into an exception, ...
ReturnError ==
  /\ Running /\ Top.fn # Main /\ NewThrow
  /\ SetCaller([Caller EXCEPT !.exception = throws'])
  /\ UNCHANGED <<slot, pending, used, bodies, panics>>

\* ... or "host function panicked", which goes through the slot and leaves it
\* empty, with the payload parked in place of an earlier one.
CatchUnwind ==
  /\ Top.kind = "host" /\ Top.unwinding # 0 /\ Top.fn # Main /\ NewThrow
  /\ pending' = Top.unwinding
  /\ slot' = 0
  /\ SetCaller([Caller EXCEPT !.exception = throws', !.tainted = TRUE])
  /\ UNCHANGED <<used, bodies, panics>>

\* A panic of the host program ends it; it may be caught and the runtime of
\* the thread used again.
Escape ==
  /\ Top.kind = "host" /\ Top.unwinding # 0 /\ Top.fn = Main
  /\ SetTop(Host(Main, {}))
  /\ UNCHANGED <<slot, pending, used, bodies, throws, panics>>

-----------------------------------------------------------------------------
(* JavaScript.                                                             *)

BugAvailable(f) ==  \* an FnOnce taken earlier is called again
  \A c \in NeededBy(f) : FreeToBorrow(c)
Available(f) ==
  f \notin used /\ \A c \in NeededBy(f) : FreeToBorrow(c)

\* host_function_trampoline: the body runs, ...
Invoke(f) ==
  /\ InJs /\ Len(stack) < MaxDepth /\ Available(f)
  /\ used' = used \cup ({f} \cap OnceFns)
  /\ bodies' = [g \in OnceFns |-> bodies[g] + IF g = f THEN 1 ELSE 0]
  /\ stack' = Append(stack, Host(f, NeededBy(f)))
  /\ UNCHANGED <<slot, pending, throws, panics>>

\* ... or the closure is not available, or an argument does not convert, which
\* still consumes an FnOnce.
InvokeFails(f) ==
  /\ InJs /\ NewThrow
  /\ used' = IF Available(f) THEN used \cup ({f} \cap OnceFns) ELSE used
  /\ SetTop([Top EXCEPT !.exception = throws'])
  /\ UNCHANGED <<slot, pending, bodies, panics>>

JsThrow ==
  /\ InJs /\ NewThrow
  /\ SetTop([Top EXCEPT !.exception = throws'])
  /\ UNCHANGED <<slot, pending, used, bodies, panics>>

JsCatch ==
  /\ Top.kind = "js" /\ Top.exception # 0
  /\ SetTop([Top EXCEPT !.exception = 0])
  /\ UNCHANGED <<slot, pending, used, bodies, throws, panics>>

\* Back in the entry point: resume_pending_panic comes first, ...
BugResumes == Top.entry \in {"call", "microtasks"} /\ pending # 0  \* not in call_raw
Resumes == Top.entry \in Resuming /\ pending # 0
JsReturnPanic ==
  /\ Top.kind = "js" /\ Resumes
  /\ pending' = 0
  /\ SetCaller([Caller EXCEPT !.unwinding = pending])
  /\ UNCHANGED <<slot, used, bodies, throws, panics>>

\* ... then the exception is made pending (throw_raw), ...
JsReturnException ==
  /\ Top.kind = "js" /\ ~Resumes /\ Top.exception # 0
  /\ IF Top.entry \in {"lossy", "microtasks"}
     THEN stack' = Below /\ UNCHANGED slot
     ELSE /\ slot' = ThrowRaw(Top.exception)
          /\ SetCaller([Caller EXCEPT !.err = Top.exception])
  /\ UNCHANGED <<pending, used, bodies, throws, panics>>

\* ... and a call that succeeded drains the microtasks before it returns.
JsReturnValue ==
  /\ InJs /\ ~Resumes
  /\ IF Top.entry = "call" THEN SetTop(Js("microtasks")) ELSE stack' = Below
  /\ UNCHANGED <<slot, pending, used, bodies, throws, panics>>

-----------------------------------------------------------------------------
HostStep ==
  \/ \E entry \in Entries : Enter(entry)
  \/ \E c \in Cells : Borrow(c) \/ BorrowMut(c) \/ DropGuard(c)
  \/ Catch \/ Throw \/ Panic
  \/ ReturnOk \/ ReturnException \/ ReturnError \/ CatchUnwind \/ Escape

JsStep ==
  \/ \E f \in Functions : Invoke(f) \/ InvokeFails(f)
  \/ JsThrow \/ JsCatch
  \/ JsReturnPanic \/ JsReturnException \/ JsReturnValue

Next == HostStep \/ JsStep

Spec == Init /\ [][Next]_vars

\* The type invariant.
TypeOK ==
  /\ stack \in Seq(HostFrame \cup JsFrame)
  /\ stack # <<>> /\ Len(stack) <= MaxDepth + 1
  /\ \A i \in DOMAIN stack : stack[i].kind = IF i % 2 = 1 THEN "host" ELSE "js"
  /\ slot \in Exceptions /\ pending \in 0..MaxPanics
  /\ used \subseteq OnceFns /\ bodies \in [OnceFns -> Nat]
  /\ throws \in 0..MaxThrows /\ panics \in 0..MaxPanics

-----------------------------------------------------------------------------
\* However calls nest, fail and unwind, the closure of an FnOnce runs at most
\* once, also when its arguments did not convert the first time.
OnceRunsOnce == \A f \in OnceFns : bodies[f] <= 1

\* Rust's aliasing rule for a closure or instance reached again through
\* JavaScript from its own method: one mutable borrow, or shared ones.
BorrowsExclusive ==
  \A i, j \in HostFrames :
    i # j => stack[i].holds \cap (stack[j].holds \cup stack[j].shares) = {}

\* A panic in a host function is not lost when JavaScript swallows the
\* exception thrown in its place, or when a later panic replaces it: the entry
\* point that called that JavaScript unwinds its own caller.
PanicReachesCaller ==
  [][(Top.kind = "js" /\ Len(stack') < Len(stack) /\ Top.tainted
        /\ Top.entry \in Resuming)
       => Last(stack').unwinding # 0]_vars

\* There is one slot for all the Error::Exceptions that host code holds.  The
\* exception of an older error is lost when another is thrown or caught, but
\* an error never brings back an exception that was thrown before its own and
\* left in the slot by code that ignored it.
NoOlderException ==
  \A i \in HostFrames :
    stack[i].err \notin {0, Undefined} /\ slot # 0 => slot >= stack[i].err

\* function.rs:567-570: "the Rust entry point that called into JS resumes the
\* panic once control is back": an entry point from which no host function
\* panicked does not unwind its caller.
PanicResumedWhereRaised ==
  [][(Top.kind = "js" /\ Len(stack') < Len(stack)
        /\ Last(stack').unwinding # 0)
       => Top.tainted]_vars
=============================================================================
