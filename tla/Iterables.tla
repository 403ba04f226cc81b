------------------------------- MODULE Iterables -------------------------------
(***************************************************************************)
(* A Rust iterator that JavaScript consumes through Iterable, and a        *)
(* JsIterator that consumes an iterator of JavaScript's from Rust, this    *)
(* Iterable among them.                                                    *)
(*                                                                         *)
(* The host iterator is Rust code: it may call JavaScript, which may call  *)
(* next again, it may panic, and it may give items again after it once     *)
(* gave None.                                                              *)
(***************************************************************************)
EXTENDS Integers, SequencesExt

CONSTANTS
  Sources,    \* inputs: what the JsIterator was made from, "iterable", "foreign"
  MaxItems,   \* bound: the items the host iterator, or the foreign one, gives
  MaxCalls    \* bound: the calls of next, panics and failures among them

ASSUME BoundsAssumption == MaxItems \in Nat /\ MaxCalls \in Nat

VARIABLES
  source,   \* what the reader reads
  cell,     \* the RefCell<Option<I>>: "some" or "none"
  given,    \* how many items the host iterator gave
  frames,   \* the calls of next under way, the innermost last
  seen,     \* the items delivered, by whom they were asked for
  ended,    \* whether somebody was told that the iterable is done
  reader,   \* the JsIterator: whether it is made, its done flag, and what its
            \* next answered
  calls     \* bound: how many calls there were

iterVars == <<source, cell, given, frames, seen, ended, reader, calls>>

Callers == {"js", "reader"}
Stages == {"host", "item", "end"}

IterablesInit ==
  /\ source \in Sources
  /\ cell = "some"
  /\ given = 0
  /\ frames = <<>>
  /\ seen = <<>>
  /\ ended = FALSE
  /\ reader = [made |-> FALSE, done |-> FALSE, got |-> <<>>]
  /\ calls = 0

-----------------------------------------------------------------------------
(* Helpers.                                                                *)

\* The iterator stays borrowed until the result object is complete.
BugBorrowed == \E i \in DOMAIN frames : frames[i].stage = "host"  \* until it is advanced
Borrowed == frames # <<>>

Top == frames[Len(frames)]
Pop == SubSeq(frames, 1, Len(frames) - 1)
SetTop(frame) == [frames EXCEPT ![Len(frames)] = frame]

\* What JsIterator::next does with the outcome of its call: "item" and an item,
\* "end", or "error".
BugAnswered(outcome, item) ==  \* an error does not finish the iteration
  [reader EXCEPT !.done = outcome = "end", !.got = Append(@, <<outcome, item>>)]
Answered(outcome, item) ==
  [reader EXCEPT !.done = outcome # "item", !.got = Append(@, <<outcome, item>>)]

\* The call of the innermost frame, or one that never got a frame, fails.
Fails(by) ==
  reader' = IF by = "reader" THEN Answered("error", 0) ELSE reader

-----------------------------------------------------------------------------
(* The function behind next.                                               *)

\* JavaScript calls next, or the JsIterator over this iterable does, from
\* anywhere, the host iterator included.  A call while the iterator is borrowed
\* panics, which its caller meets as an error.
CallNext(by) ==
  /\ calls < MaxCalls
  /\ by = "reader" => /\ source = "iterable"
                      /\ reader.made /\ ~reader.done
                      /\ \A i \in DOMAIN frames : frames[i].by # "reader"
  /\ calls' = calls + 1
  /\ IF Borrowed
     THEN Fails(by) /\ UNCHANGED frames
     ELSE /\ frames' = Append(frames, [by |-> by, item |-> 0,
                                       stage |-> IF cell = "some" THEN "host" ELSE "end"])
          /\ UNCHANGED reader
  /\ UNCHANGED <<source, cell, given, seen, ended>>

HostGives ==
  /\ frames # <<>> /\ Top.stage = "host"
  /\ given < MaxItems
  /\ given' = given + 1
  /\ frames' = SetTop([Top EXCEPT !.stage = "item", !.item = given + 1])
  /\ UNCHANGED <<source, cell, seen, ended, reader, calls>>

BugHostEnds ==  \* the exhausted iterator is kept
  /\ frames # <<>> /\ Top.stage = "host"
  /\ frames' = SetTop([Top EXCEPT !.stage = "end"])
  /\ UNCHANGED <<source, cell, given, seen, ended, reader, calls>>
HostEnds ==
  /\ frames # <<>> /\ Top.stage = "host"
  /\ cell' = "none"
  /\ frames' = SetTop([Top EXCEPT !.stage = "end"])
  /\ UNCHANGED <<source, given, seen, ended, reader, calls>>

\* The host iterator panics, or a conversion of the item fails: the frame is
\* left, the borrow given back, and the item lost.
Unwind ==
  /\ frames # <<>>
  /\ frames' = Pop
  /\ Fails(Top.by)
  /\ UNCHANGED <<source, cell, given, seen, ended, calls>>

\* The result object reaches the caller; JsIterator::next converts the item,
\* which may fail.
Deliver ==
  /\ frames # <<>> /\ Top.stage = "item"
  /\ frames' = Pop
  /\ seen' = Append(seen, Top.item)
  /\ IF Top.by = "js" THEN UNCHANGED reader
     ELSE \E outcome \in {"item", "error"} : reader' = Answered(outcome, Top.item)
  /\ UNCHANGED <<source, cell, given, ended, calls>>

DeliverEnd ==
  /\ frames # <<>> /\ Top.stage = "end"
  /\ frames' = Pop
  /\ ended' = TRUE
  /\ reader' = IF Top.by = "reader" THEN Answered("end", 0) ELSE reader
  /\ UNCHANGED <<source, cell, given, seen, calls>>

-----------------------------------------------------------------------------
(* The JsIterator.                                                         *)

\* JsIterator::from_js: getIterator finds an iterator and its next; a value
\* without them is refused, and no JsIterator is made.
MakeReader ==
  /\ ~reader.made
  /\ reader' = [reader EXCEPT !.made = TRUE]
  /\ UNCHANGED <<source, cell, given, frames, seen, ended, calls>>

\* An iterator that JavaScript wrote may answer anything.
ReadForeign ==
  /\ source = "foreign" /\ reader.made /\ ~reader.done
  /\ calls < MaxCalls
  /\ calls' = calls + 1
  /\ \/ \E outcome \in {"item", "error"} :
          given < MaxItems /\ given' = given + 1 /\ reader' = Answered(outcome, given + 1)
     \/ \E outcome \in {"end", "error"} :
          given' = given /\ reader' = Answered(outcome, 0)
  /\ UNCHANGED <<source, cell, frames, seen, ended>>

\* A finished JsIterator answers None and calls nothing.
ReadFinished ==
  /\ reader.done
  /\ calls < MaxCalls
  /\ calls' = calls + 1
  /\ reader' = [reader EXCEPT !.got = Append(@, <<"end", 0>>)]
  /\ UNCHANGED <<source, cell, given, frames, seen, ended>>

IterablesNext ==
  \/ \E by \in Callers : CallNext(by)
  \/ HostGives \/ HostEnds \/ Unwind \/ Deliver \/ DeliverEnd
  \/ MakeReader \/ ReadForeign \/ ReadFinished

IterablesSpec == IterablesInit /\ [][IterablesNext]_iterVars

\* The type invariant.
IterableTypes ==
  /\ source \in Sources /\ cell \in {"some", "none"} /\ given \in 0..MaxItems
  /\ ToSet(frames) \subseteq [by: Callers, item: 0..MaxItems, stage: Stages]
  /\ ToSet(seen) \subseteq 1..MaxItems
  /\ ended \in BOOLEAN /\ reader.done \in BOOLEAN /\ calls \in 0..MaxCalls

-----------------------------------------------------------------------------
\* Whoever asks, the items of an iterable reach JavaScript once each and in the
\* order the host iterator gave them, calls of next out of itself included.
ItemsInOrder == \A i, j \in DOMAIN seen : i < j => seen[i] < seen[j]

\* "Single-use: once exhausted it stays exhausted": after somebody was told that
\* the iterable is done the host iterator is not asked again, and a JsIterator
\* that answered None or an error answers None from then on.
KeepsExhausted ==
  /\ ended => UNCHANGED <<seen>> /\ (source = "iterable" => UNCHANGED given)
  /\ reader' # reader /\ reader.got # <<>> /\ reader.got[Len(reader.got)][1] # "item" =>
       reader'.got[Len(reader'.got)][1] = "end"
StaysExhausted == [][KeepsExhausted]_iterVars
=============================================================================
