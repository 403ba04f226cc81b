---------------------------- MODULE HostCallsProofs ----------------------------
(***************************************************************************)
(* Proofs about HostCalls, for any functions, cells, depth and number of   *)
(* exceptions and panics: the properties that the run of HostCalls checks. *)
(*                                                                         *)
(* CallInv is inductive.  BorrowsExclusive is by itself; the others need   *)
(* to know of what is on the stack.  An exception that leaves a JavaScript *)
(* frame comes to the slot, so it must be newer than the errors of the     *)
(* host frames below, and a frame below which a host function panicked     *)
(* must have a payload to resume, unless it is being resumed on top.       *)
(***************************************************************************)
EXTENDS HostCalls, Facts, TLAPS

Frame == HostFrame \cup JsFrame

\* Only the outermost frame is the host program's.
MainBelow ==
  \A i \in HostFrames : stack[i].fn = Main <=> i = 1

\* An FnOnce whose body ran was taken.
BodiesUsed ==
  \A f \in OnceFns : bodies[f] = 0 \/ (bodies[f] = 1 /\ f \in used)

\* Exceptions are numbered as they are thrown; Undefined is newer than all.
Thrown == (0..throws) \cup {Undefined}
ErrorsThrown ==
  /\ slot \in Thrown
  /\ \A i \in DOMAIN stack :
       /\ stack[i].kind = "host" => stack[i].err \in Thrown
       /\ stack[i].kind = "js" => stack[i].exception \in Thrown

\* What a JavaScript frame throws is no older than what host code below it has.
NewerAbove ==
  \A i, j \in DOMAIN stack :
    /\ j < i /\ stack[i].kind = "js" /\ stack[i].exception # 0
    /\ stack[j].kind = "host" /\ stack[j].err # Undefined
    => stack[i].exception >= stack[j].err

\* A panic on its way is parked, or is unwinding the innermost frame.
PanicUnderWay ==
  (\E i \in DOMAIN stack : stack[i].kind = "js" /\ stack[i].tainted) =>
    pending # 0 \/ (Top.kind = "host" /\ Top.unwinding # 0)

CallInv ==
  /\ TypeOK /\ MainBelow /\ BodiesUsed /\ BorrowsExclusive
  /\ ErrorsThrown /\ NoOlderException /\ NewerAbove /\ PanicUnderWay

-----------------------------------------------------------------------------
(* The stack.                                                              *)

LEMMA Bounds ==
  /\ MaxDepth \in Nat /\ MaxThrows \in Nat /\ MaxPanics \in Nat
  /\ Undefined = MaxThrows + 1
  /\ Main \notin Functions /\ NoCell \notin Cells
  /\ CellOf \in [Functions -> Cells \cup {NoCell}]
BY HostCallsAssumption DEF Undefined

\* What TypeOK says of the stack alone.
Shape ==
  /\ stack \in Seq(Frame) /\ stack # <<>> /\ Len(stack) <= MaxDepth + 1
  /\ \A i \in DOMAIN stack : stack[i].kind = IF i % 2 = 1 THEN "host" ELSE "js"
Scalars ==
  /\ slot \in Exceptions /\ pending \in 0..MaxPanics
  /\ used \subseteq OnceFns /\ bodies \in [OnceFns -> Nat]
  /\ throws \in 0..MaxThrows /\ panics \in 0..MaxPanics

LEMMA TypeParts == TypeOK <=> Shape /\ Scalars
BY DEF TypeOK, Shape, Scalars, Frame

LEMMA FrameKinds ==
  ASSUME NEW f \in Frame
  PROVE  /\ f.kind \in {"host", "js"}
         /\ f.kind = "host" => f \in HostFrame
         /\ f.kind = "js" => f \in JsFrame
BY DEF Frame, HostFrame, JsFrame

\* The innermost frame, and what is below it.
LEMMA StackFacts ==
  ASSUME Shape
  PROVE  /\ stack \in Seq(Frame) /\ Len(stack) \in Nat \ {0}
         /\ DOMAIN stack = 1..Len(stack)
         /\ \A i \in DOMAIN stack : stack[i] \in Frame
         /\ Top = stack[Len(stack)] /\ Top \in Frame
         /\ Below \in Seq(Frame) /\ Len(Below) = Len(stack) - 1
         /\ \A i \in 1..(Len(stack) - 1) : Below[i] = stack[i]
<1>1. stack \in Seq(Frame) /\ stack # <<>>
  BY DEF Shape
<1> QED  BY <1>1, FrontFacts DEF Top, Below

\* A frame appended to a stack.
LEMMA AppendFacts ==
  ASSUME NEW S, NEW s \in Seq(S), NEW e \in S
  PROVE  /\ Append(s, e) \in Seq(S) /\ Append(s, e) # <<>> /\ Len(s) \in Nat
         /\ Len(Append(s, e)) = Len(s) + 1 /\ DOMAIN Append(s, e) = 1..(Len(s) + 1)
         /\ \A i \in 1..Len(s) : Append(s, e)[i] = s[i]
         /\ Append(s, e)[Len(s) + 1] = e /\ Last(Append(s, e)) = e
<1>1. /\ Append(s, e) \in Seq(S) /\ Append(s, e) # <<>> /\ Len(s) \in Nat
      /\ Len(Append(s, e)) = Len(s) + 1 /\ DOMAIN Append(s, e) = 1..(Len(s) + 1)
      /\ \A i \in 1..Len(s) : Append(s, e)[i] = s[i]
      /\ Append(s, e)[Len(s) + 1] = e
  OBVIOUS
<1>2. Last(Append(s, e)) = e
  BY <1>1 DEF Last
<1> QED  BY <1>1, <1>2

\* Host and JavaScript frames take turns.
LEMMA Turns ==
  ASSUME Shape, NEW i \in 1..Len(stack)
  PROVE  /\ stack[i] \in Frame /\ stack[i].kind = IF i % 2 = 1 THEN "host" ELSE "js"
         /\ stack[i].kind = "host" => stack[i] \in HostFrame
         /\ stack[i].kind = "js" => stack[i] \in JsFrame
<1>1. stack[i] \in Frame /\ i \in DOMAIN stack
  BY StackFacts
<1>2. stack[i].kind = IF i % 2 = 1 THEN "host" ELSE "js"
  BY <1>1 DEF Shape
<1> QED  BY <1>1, <1>2, FrameKinds

\* JavaScript is called by host code, and all host functions by JavaScript.
LEMMA CallerFacts ==
  ASSUME Shape
  PROVE  /\ Top.kind = "js" => /\ Len(stack) >= 2 /\ Caller = stack[Len(stack) - 1]
                               /\ Caller \in HostFrame /\ Caller.kind = "host"
         /\ Top.kind = "host" /\ Len(stack) # 1 =>
              /\ Len(stack) >= 2 /\ Caller = stack[Len(stack) - 1]
              /\ Caller \in JsFrame /\ Caller.kind = "js"
<1>1. Len(stack) \in Nat \ {0} /\ Top = stack[Len(stack)]
  BY StackFacts
<1>2. Top.kind = IF Len(stack) % 2 = 1 THEN "host" ELSE "js"
  BY <1>1, Turns
<1>3. CASE Len(stack) = 1
  BY <1>2, <1>3
<1>4. CASE Len(stack) >= 2
  <2>1. Len(stack) - 1 \in 1..Len(stack)
    BY <1>1, <1>4
  <2>2. /\ Caller.kind = IF (Len(stack) - 1) % 2 = 1 THEN "host" ELSE "js"
        /\ Caller.kind = "host" => Caller \in HostFrame
        /\ Caller.kind = "js" => Caller \in JsFrame
    BY <2>1, Turns DEF Caller
  <2>3. Caller.kind = IF Top.kind = "js" THEN "host" ELSE "js"
    BY <1>1, <1>2, <2>2
  <2> QED  BY <1>2, <1>4, <2>2, <2>3 DEF Caller
<1>5. Len(stack) = 1 \/ Len(stack) >= 2
  BY <1>1
<1> QED  BY <1>3, <1>4, <1>5

\* The innermost frame changes, ...
LEMMA TopReplaced ==
  ASSUME Shape, NEW f \in Frame, f.kind = Top.kind, SetTop(f)
  PROVE  /\ Shape' /\ Len(stack') = Len(stack) /\ Top' = f
         /\ stack'[Len(stack)] = f
         /\ \A i \in 1..(Len(stack) - 1) : stack'[i] = stack[i]
<1>1. /\ Below \in Seq(Frame) /\ Len(Below) = Len(stack) - 1 /\ stack' = Append(Below, f)
      /\ \A i \in 1..(Len(stack) - 1) : Below[i] = stack[i]
      /\ Len(stack) \in Nat \ {0} /\ DOMAIN stack = 1..Len(stack)
  BY StackFacts DEF SetTop
<1>2. /\ stack' \in Seq(Frame) /\ Len(stack') = Len(stack) /\ stack' # <<>>
      /\ stack'[Len(stack)] = f /\ DOMAIN stack' = 1..Len(stack) /\ Last(stack') = f
      /\ \A i \in 1..(Len(stack) - 1) : stack'[i] = Below[i]
  BY <1>1, AppendFacts
<1>3. \A i \in 1..Len(stack) : stack'[i].kind = stack[i].kind
  BY <1>1, <1>2, StackFacts
<1> QED  BY <1>1, <1>2, <1>3 DEF Shape, Top

\* ... a frame is entered, ...
LEMMA Pushed ==
  ASSUME Shape, NEW f \in Frame, f.kind # Top.kind, Len(stack) < MaxDepth,
         stack' = Append(stack, f)
  PROVE  /\ Shape' /\ Len(stack') = Len(stack) + 1 /\ Top' = f
         /\ stack'[Len(stack) + 1] = f
         /\ \A i \in 1..Len(stack) : stack'[i] = stack[i]
<1>1. stack \in Seq(Frame) /\ Len(stack) \in Nat \ {0} /\ Top = stack[Len(stack)]
  BY StackFacts
<1>2. /\ stack' \in Seq(Frame) /\ Len(stack') = Len(stack) + 1 /\ stack' # <<>>
      /\ stack'[Len(stack) + 1] = f /\ DOMAIN stack' = 1..(Len(stack) + 1)
      /\ \A i \in 1..Len(stack) : stack'[i] = stack[i]
      /\ Last(stack') = f
  BY <1>1, AppendFacts
<1>3. \A i \in 1..Len(stack) : stack'[i].kind = IF i % 2 = 1 THEN "host" ELSE "js"
  BY <1>2, Turns
<1>4. Top.kind = IF Len(stack) % 2 = 1 THEN "host" ELSE "js"
  BY <1>1, Turns
<1>5. f.kind = IF (Len(stack) + 1) % 2 = 1 THEN "host" ELSE "js"
  BY <1>1, <1>4, FrameKinds
<1>6. Len(stack') <= MaxDepth + 1
  BY <1>1, <1>2, Bounds
<1>7. \A i \in DOMAIN stack' : stack'[i].kind = IF i % 2 = 1 THEN "host" ELSE "js"
  BY <1>1, <1>2, <1>3, <1>5
<1> QED  BY <1>2, <1>6, <1>7 DEF Shape, Top

\* ... or left, ...
LEMMA Popped ==
  ASSUME Shape, Len(stack) >= 2, stack' = Below
  PROVE  /\ Shape' /\ Len(stack') = Len(stack) - 1 /\ Top' = Caller
         /\ \A i \in 1..(Len(stack) - 1) : stack'[i] = stack[i]
<1>1. Len(stack) \in Nat \ {0}
  BY StackFacts
<1>2. /\ stack' \in Seq(Frame) /\ Len(stack') = Len(stack) - 1
      /\ \A i \in 1..(Len(stack) - 1) : stack'[i] = stack[i]
  BY StackFacts
<1>3. stack' # <<>>
  BY <1>1, <1>2
<1>4. Top' = Caller
  <2>1. Last(stack') = stack'[Len(stack')]
    BY <1>2, <1>3, FrontFacts
  <2> QED  BY <1>1, <1>2, <2>1 DEF Top, Caller
<1>5. \A i \in DOMAIN stack' : stack'[i].kind = IF i % 2 = 1 THEN "host" ELSE "js"
  <2>1. DOMAIN stack' = 1..(Len(stack) - 1)
    BY <1>2
  <2> QED  BY <1>1, <1>2, <2>1, Turns
<1>6. Len(stack') <= MaxDepth + 1
  BY <1>1, <1>2, Bounds DEF Shape
<1> QED  BY <1>2, <1>3, <1>4, <1>5, <1>6 DEF Shape

\* ... changing the caller's frame.
LEMMA CallerReplaced ==
  ASSUME Shape, Len(stack) >= 2, NEW f \in Frame, f.kind = Caller.kind, SetCaller(f)
  PROVE  /\ Shape' /\ Len(stack') = Len(stack) - 1 /\ Top' = f
         /\ stack'[Len(stack) - 1] = f
         /\ \A i \in 1..(Len(stack) - 2) : stack'[i] = stack[i]
<1>1. Len(stack) \in Nat \ {0}
  BY StackFacts
<1>2. /\ Below \in Seq(Frame) /\ Len(Below) = Len(stack) - 1
      /\ \A i \in 1..(Len(stack) - 1) : Below[i] = stack[i]
  BY StackFacts
<1>3. Below # <<>>
  BY <1>1, <1>2
<1>4. /\ Front(Below) \in Seq(Frame) /\ Len(Front(Below)) = Len(Below) - 1
      /\ DOMAIN Front(Below) = 1..(Len(Below) - 1)
      /\ \A i \in DOMAIN Front(Below) : Front(Below)[i] = Below[i]
  BY <1>2, <1>3, FrontFacts
<1>5. /\ stack' \in Seq(Frame) /\ Len(stack') = Len(Below) /\ stack' # <<>>
      /\ stack'[Len(Below)] = f /\ DOMAIN stack' = 1..Len(Below) /\ Last(stack') = f
      /\ \A i \in 1..(Len(Below) - 1) : stack'[i] = Front(Below)[i]
  <2>1. stack' = Append(Front(Below), f)
    BY DEF SetCaller
  <2> QED  BY <1>1, <1>2, <1>4, <2>1, AppendFacts
<1>6. /\ \A i \in 1..(Len(stack) - 2) : stack'[i] = stack[i]
      /\ stack'[Len(stack) - 1] = f
  <2>1. Len(Below) - 1 = Len(stack) - 2 /\ Len(Below) = Len(stack) - 1
    BY <1>1, <1>2
  <2>2. ASSUME NEW i \in 1..(Len(stack) - 2) PROVE stack'[i] = stack[i]
    <3>1. i \in 1..(Len(Below) - 1) /\ i \in 1..(Len(stack) - 1)
      BY <1>1, <2>1
    <3>2. stack'[i] = Front(Below)[i] /\ Front(Below)[i] = Below[i]
      BY <1>4, <1>5, <3>1, Zenon
    <3> QED  BY <1>2, <3>1, <3>2, Zenon
  <2> QED  BY <1>5, <2>1, <2>2, Zenon
<1>7. \A i \in DOMAIN stack' : stack'[i].kind = IF i % 2 = 1 THEN "host" ELSE "js"
  <2>1. \A i \in 1..(Len(stack) - 1) : stack'[i].kind = stack[i].kind
    BY <1>1, <1>6 DEF Caller
  <2> QED  BY <1>1, <1>2, <1>5, <2>1, Turns
<1>8. Len(stack') <= MaxDepth + 1
  BY <1>1, <1>2, <1>5, Bounds DEF Shape
<1> QED  BY <1>2, <1>5, <1>6, <1>7, <1>8 DEF Shape, Top

-----------------------------------------------------------------------------
(* A step leaves all but the innermost frame g, the m-th, as they were.    *)

\* An exception e is no older than the errors of the first m frames.
Newer(e, m) ==
  \A j \in 1..m : stack[j].kind = "host" /\ stack[j].err # Undefined => e >= stack[j].err

\* The cells of a host frame are those of none of the first m frames.
Apart(g, m) ==
  \A j \in 1..m : stack[j].kind = "host" =>
    /\ g.holds \cap (stack[j].holds \cup stack[j].shares) = {}
    /\ g.shares \cap stack[j].holds = {}

Tainted(m) == \E j \in 1..m : stack[j].kind = "js" /\ stack[j].tainted

\* The invariant in these terms.
LEMMA Known ==
  ASSUME CallInv
  PROVE  /\ slot # 0 => Newer(slot, Len(stack))
         /\ Newer(Undefined, Len(stack)) /\ Newer(throws + 1, Len(stack))
         /\ \A i \in 1..Len(stack) :
              /\ stack[i].kind = "js" /\ stack[i].exception # 0
                   => Newer(stack[i].exception, i - 1)
              /\ stack[i].kind = "host" => Apart(stack[i], i - 1)
         /\ Tainted(Len(stack)) => pending # 0 \/ (Top.kind = "host" /\ Top.unwinding # 0)
<1>1. /\ Shape /\ Scalars /\ ErrorsThrown /\ NoOlderException /\ NewerAbove
      /\ BorrowsExclusive /\ PanicUnderWay
  BY TypeParts DEF CallInv
<1>2. DOMAIN stack = 1..Len(stack) /\ Len(stack) \in Nat \ {0}
  BY <1>1, StackFacts
<1>3. /\ \A i \in 1..Len(stack) : stack[i].kind = "host" => stack[i].err \in Thrown
      /\ throws \in Nat /\ Undefined \in Nat /\ throws < Undefined /\ slot \in Thrown
  BY <1>1, <1>2, Bounds DEF ErrorsThrown, Scalars
<1>4. slot # 0 => Newer(slot, Len(stack))
  BY <1>1, <1>2, <1>3 DEF NoOlderException, Newer, HostFrames, Thrown
<1>5. Newer(Undefined, Len(stack)) /\ Newer(throws + 1, Len(stack))
  BY <1>3 DEF Newer, Thrown
<1>6. ASSUME NEW i \in 1..Len(stack), stack[i].kind = "js", stack[i].exception # 0
      PROVE  Newer(stack[i].exception, i - 1)
  BY <1>1, <1>2, <1>6 DEF NewerAbove, Newer
<1>7. ASSUME NEW i \in 1..Len(stack), stack[i].kind = "host"
      PROVE  Apart(stack[i], i - 1)
  <2>1. \A j \in 1..(i - 1) : j \in DOMAIN stack /\ i # j /\ i \in DOMAIN stack
    BY <1>2
  <2> QED  BY <1>1, <1>7, <2>1 DEF BorrowsExclusive, HostFrames, Apart
<1>8. Tainted(Len(stack)) => pending # 0 \/ (Top.kind = "host" /\ Top.unwinding # 0)
  BY <1>1, <1>2 DEF PanicUnderWay, Tainted
<1> QED  BY <1>4, <1>5, <1>6, <1>7, <1>8

LEMMA StepKeeps ==
  ASSUME CallInv, NEW m \in Nat \ {0}, m - 1 <= Len(stack), NEW g \in Frame,
         Shape', Scalars', Len(stack') = m, Top' = g, stack'[m] = g,
         \A i \in 1..(m - 1) : stack'[i] = stack[i],
         BodiesUsed', throws' >= throws,
         g.kind = "host" => (g.fn = Main <=> m = 1) /\ Apart(g, m - 1),
         slot' \in Thrown', slot' # 0 => Newer(slot', m - 1),
         g.kind = "host" =>
           g.err \in Thrown' /\ (slot' # 0 /\ g.err # Undefined => slot' >= g.err),
         g.kind = "js" =>
           g.exception \in Thrown' /\ (g.exception # 0 => Newer(g.exception, m - 1)),
         Tainted(m - 1) \/ (g.kind = "js" /\ g.tainted) =>
           pending' # 0 \/ (g.kind = "host" /\ g.unwinding # 0)
  PROVE  CallInv'
<1>1. DOMAIN stack' = 1..m /\ m - 1 \in Nat /\ \A i \in 1..m : i = m \/ i \in 1..(m - 1)
  BY StackFacts DEF Shape
<1>2. /\ \A i \in 1..(m - 1) : i \in DOMAIN stack
      /\ MainBelow /\ ErrorsThrown /\ NewerAbove /\ BorrowsExclusive /\ Scalars
  BY StackFacts, TypeParts DEF CallInv
<1>3. TypeOK'
  BY DEF TypeOK, Shape, Scalars, Frame
<1>4. MainBelow'
  BY <1>1, <1>2 DEF MainBelow, HostFrames
<1>5. BorrowsExclusive'
  BY <1>1, <1>2 DEF BorrowsExclusive, HostFrames, Apart
<1>6. ErrorsThrown'
  <2>1. Thrown \subseteq Thrown'
    BY <1>2 DEF Thrown, Scalars, Undefined
  <2> QED  BY <1>1, <1>2, <2>1 DEF ErrorsThrown
<1>7. NoOlderException'
  BY <1>1 DEF NoOlderException, HostFrames, Newer
<1>8. NewerAbove'
  <2> SUFFICES ASSUME NEW i \in 1..m, NEW j \in 1..m, j < i,
                      stack'[i].kind = "js", stack'[i].exception # 0,
                      stack'[j].kind = "host", stack'[j].err # Undefined
               PROVE  stack'[i].exception >= stack'[j].err
    BY <1>1, Zenon DEF NewerAbove, Undefined
  <2>1. j \in 1..(m - 1) /\ stack'[j] = stack[j]
    BY <1>1
  <2>2. CASE i = m
    BY <2>1, <2>2 DEF Newer
  <2>3. CASE i \in 1..(m - 1)
    BY <1>2, <2>1, <2>3 DEF NewerAbove
  <2> QED  BY <1>1, <2>2, <2>3
<1>9. PanicUnderWay'
  BY <1>1 DEF PanicUnderWay, Tainted
<1> QED  BY <1>3, <1>4, <1>5, <1>6, <1>7, <1>8, <1>9 DEF CallInv

-----------------------------------------------------------------------------
(* Frames with a field changed.                                            *)

LEMMA HostUpdated ==
  ASSUME NEW f \in HostFrame
  PROVE  /\ f.kind = "host" /\ f \in Frame /\ f.err \in Exceptions
         /\ f.unwinding \in 0..MaxPanics
         /\ \A u \in 0..MaxPanics :
              LET g == [f EXCEPT !.unwinding = u]
              IN  /\ g \in HostFrame /\ g.kind = "host" /\ g.fn = f.fn /\ g.unwinding = u
                  /\ g.holds = f.holds /\ g.shares = f.shares /\ g.err = f.err
         /\ \A e \in Exceptions :
              LET g == [f EXCEPT !.err = e]
              IN  /\ g \in HostFrame /\ g.kind = "host" /\ g.fn = f.fn /\ g.err = e
                  /\ g.holds = f.holds /\ g.shares = f.shares
                  /\ g.unwinding = f.unwinding
BY DEF HostFrame, Frame

LEMMA BorrowUpdated ==
  ASSUME NEW f \in HostFrame, NEW c \in Cells
  PROVE  /\ LET g == [f EXCEPT !.holds = @ \cup {c}]
            IN  /\ g \in HostFrame /\ g.kind = "host" /\ g.fn = f.fn /\ g.err = f.err
                /\ g.holds = f.holds \cup {c} /\ g.shares = f.shares
                /\ g.unwinding = f.unwinding
         /\ LET g == [f EXCEPT !.shares = @ \cup {c}]
            IN  /\ g \in HostFrame /\ g.kind = "host" /\ g.fn = f.fn /\ g.err = f.err
                /\ g.holds = f.holds /\ g.shares = f.shares \cup {c}
                /\ g.unwinding = f.unwinding
         /\ LET g == [f EXCEPT !.shares = @ \ {c}, !.holds = @ \ {c}]
            IN  /\ g \in HostFrame /\ g.kind = "host" /\ g.fn = f.fn /\ g.err = f.err
                /\ g.holds = f.holds \ {c} /\ g.shares = f.shares \ {c}
                /\ g.unwinding = f.unwinding
BY DEF HostFrame

LEMMA JsUpdated ==
  ASSUME NEW f \in JsFrame, NEW e \in Exceptions
  PROVE  /\ f.kind = "js" /\ f \in Frame
         /\ LET g == [f EXCEPT !.exception = e]
            IN  /\ g \in JsFrame /\ g.kind = "js" /\ g.exception = e
                /\ g.tainted = f.tainted /\ g.entry = f.entry
         /\ LET g == [f EXCEPT !.exception = e, !.tainted = TRUE]
            IN  /\ g \in JsFrame /\ g.kind = "js" /\ g.exception = e
                /\ g.tainted /\ g.entry = f.entry
BY DEF JsFrame, Frame

LEMMA NewFrames ==
  /\ \A f \in Functions \cup {Main}, cells \in SUBSET Cells :
       LET g == Host(f, cells)
       IN  /\ g \in HostFrame /\ g.kind = "host" /\ g.fn = f /\ g.holds = cells
           /\ g.shares = {} /\ g.err = 0 /\ g.unwinding = 0
  /\ \A entry \in Entries \cup {"microtasks"} :
       LET g == Js(entry)
       IN  g \in JsFrame /\ g.kind = "js" /\ g.exception = 0 /\ ~g.tainted /\ g.entry = entry
BY Bounds DEF Host, Js, HostFrame, JsFrame, Exceptions

-----------------------------------------------------------------------------
(* The innermost frames of a state.                                        *)

LEMMA Weaken ==
  ASSUME NEW n \in Nat, NEW m \in 0..n
  PROVE  /\ \A e : Newer(e, n) => Newer(e, m)
         /\ \A g : Apart(g, n) => Apart(g, m)
         /\ Tainted(m) => Tainted(n)
<1>1. 1..m \subseteq 1..n
  OBVIOUS
<1> QED  BY <1>1, Zenon DEF Newer, Apart, Tainted

LEMMA Here ==
  ASSUME CallInv
  PROVE  /\ Shape /\ Scalars /\ BodiesUsed
         /\ Len(stack) \in Nat \ {0} /\ Top = stack[Len(stack)] /\ Top \in Frame
         /\ slot \in Thrown /\ (slot # 0 => Newer(slot, Len(stack) - 1))
         /\ Newer(Undefined, Len(stack) - 1) /\ Newer(throws + 1, Len(stack) - 1)
         /\ Tainted(Len(stack) - 1) =>
              pending # 0 \/ (Top.kind = "host" /\ Top.unwinding # 0)
<1>1. Shape /\ Scalars /\ BodiesUsed /\ slot \in Thrown
  BY TypeParts DEF CallInv, ErrorsThrown
<1>2. Len(stack) \in Nat \ {0} /\ Top = stack[Len(stack)] /\ Top \in Frame
  BY <1>1, StackFacts
<1>3. Len(stack) - 1 \in 0..Len(stack)
  BY <1>2
<1> QED  BY <1>1, <1>2, <1>3, Known, Weaken

LEMMA HostHere ==
  ASSUME CallInv, Top.kind = "host"
  PROVE  /\ Top \in HostFrame /\ (Top.fn = Main <=> Len(stack) = 1)
         /\ Top.err \in Thrown /\ Apart(Top, Len(stack) - 1)
         /\ slot # 0 /\ Top.err # Undefined => slot >= Top.err
<1>1. /\ Len(stack) \in Nat \ {0} /\ Top = stack[Len(stack)] /\ Top \in Frame /\ Shape
      /\ DOMAIN stack = 1..Len(stack)
  BY Here, StackFacts
<1>2. Len(stack) \in 1..Len(stack) /\ Len(stack) \in DOMAIN stack
  BY <1>1
<1>3. Top \in HostFrame
  BY <1>1, FrameKinds
<1>4. (Top.fn = Main <=> Len(stack) = 1) /\ Top.err \in Thrown
  BY <1>1, <1>2 DEF CallInv, MainBelow, HostFrames, ErrorsThrown
<1>5. Apart(Top, Len(stack) - 1)
  BY <1>1, <1>2, Known
<1>6. slot # 0 /\ Top.err # Undefined => slot >= Top.err
  BY <1>1, <1>2, Known DEF Newer
<1> QED  BY <1>3, <1>4, <1>5, <1>6

LEMMA JsHere ==
  ASSUME CallInv, Top.kind = "js"
  PROVE  /\ Top \in JsFrame /\ Top.exception \in Thrown
         /\ Top.exception # 0 => /\ Newer(Top.exception, Len(stack) - 1)
                                 /\ Newer(Top.exception, Len(stack) - 2)
         /\ Top.tainted => pending # 0
<1>1. /\ Len(stack) \in Nat \ {0} /\ Top = stack[Len(stack)] /\ Top \in Frame /\ Shape
      /\ DOMAIN stack = 1..Len(stack)
  BY Here, StackFacts
<1>2. Len(stack) \in 1..Len(stack) /\ Len(stack) \in DOMAIN stack
  BY <1>1
<1>3. Top \in JsFrame
  BY <1>1, FrameKinds
<1>4. Top.exception \in Thrown
  BY <1>1, <1>2 DEF CallInv, ErrorsThrown
<1>5. Top.exception # 0 => Newer(Top.exception, Len(stack) - 1)
  BY <1>1, <1>2, Known
<1>6. Len(stack) >= 2 /\ Len(stack) - 1 \in Nat /\ Len(stack) - 2 \in 0..(Len(stack) - 1)
  BY <1>1, CallerFacts
<1>7. Newer(Top.exception, Len(stack) - 1) => Newer(Top.exception, Len(stack) - 2)
  BY <1>6, Weaken
<1>8. Top.tainted => Tainted(Len(stack))
  BY <1>1, <1>2 DEF Tainted
<1> QED  BY <1>3, <1>4, <1>5, <1>7, <1>8, Known

LEMMA CallerHere ==
  ASSUME CallInv, Len(stack) # 1
  PROVE  /\ Len(stack) - 1 \in Nat \ {0}
         /\ Top.kind = "js" =>
              /\ Caller \in HostFrame /\ (Caller.fn = Main <=> Len(stack) - 1 = 1)
              /\ Caller.err \in Thrown /\ Apart(Caller, Len(stack) - 2)
              /\ slot # 0 /\ Caller.err # Undefined => slot >= Caller.err
         /\ Top.kind = "host" =>
              /\ Caller \in JsFrame /\ Caller.exception \in Thrown
              /\ Caller.exception # 0 => Newer(Caller.exception, Len(stack) - 2)
         /\ slot # 0 => Newer(slot, Len(stack) - 2)
         /\ Newer(Undefined, Len(stack) - 2) /\ Newer(throws + 1, Len(stack) - 2)
         /\ Tainted(Len(stack) - 2) \/ (Caller.kind = "js" /\ Caller.tainted) =>
              pending # 0 \/ (Top.kind = "host" /\ Top.unwinding # 0)
<1>1. /\ Len(stack) \in Nat \ {0} /\ Top \in Frame /\ Shape
      /\ DOMAIN stack = 1..Len(stack)
  BY Here, StackFacts
<1>2. /\ Len(stack) - 1 \in 1..Len(stack) /\ Len(stack) - 1 \in DOMAIN stack
      /\ Len(stack) - 2 \in 0..(Len(stack) - 1) /\ Len(stack) - 1 \in Nat \ {0}
  BY <1>1
<1>3. Top.kind \in {"host", "js"}
  BY <1>1, FrameKinds
<1>4. /\ Caller = stack[Len(stack) - 1]
      /\ Top.kind = "js" => Caller \in HostFrame /\ Caller.kind = "host"
      /\ Top.kind = "host" => Caller \in JsFrame /\ Caller.kind = "js"
  BY <1>1, <1>3, CallerFacts
<1>5. (Len(stack) - 1) - 1 = Len(stack) - 2
  BY <1>1
<1>6. /\ Caller.kind = "host" => (Caller.fn = Main <=> Len(stack) - 1 = 1)
      /\ Caller.kind = "host" => Caller.err \in Thrown
      /\ Caller.kind = "js" => Caller.exception \in Thrown
  BY <1>2, <1>4 DEF CallInv, MainBelow, HostFrames, ErrorsThrown
<1>7. /\ Caller.kind = "host" => Apart(Caller, Len(stack) - 2)
      /\ Caller.kind = "js" /\ Caller.exception # 0 =>
           Newer(Caller.exception, Len(stack) - 2)
  BY <1>2, <1>4, <1>5, Known
<1>8. slot # 0 /\ Caller.kind = "host" /\ Caller.err # Undefined => slot >= Caller.err
  BY <1>2, <1>4, Known DEF Newer
<1>9. \A e : Newer(e, Len(stack) - 1) => Newer(e, Len(stack) - 2)
  BY <1>2, Weaken
<1>10. Tainted(Len(stack) - 2) \/ (Caller.kind = "js" /\ Caller.tainted) =>
         Tainted(Len(stack))
  BY <1>1, <1>2, <1>4 DEF Tainted
<1>11. /\ slot # 0 => Newer(slot, Len(stack) - 2)
       /\ Newer(Undefined, Len(stack) - 2) /\ Newer(throws + 1, Len(stack) - 2)
  BY <1>9, Here
<1>12. Tainted(Len(stack) - 2) \/ (Caller.kind = "js" /\ Caller.tainted) =>
         pending # 0 \/ (Top.kind = "host" /\ Top.unwinding # 0)
  BY <1>10, Known
<1> QED  BY <1>2, <1>4, <1>6, <1>7, <1>8, <1>11, <1>12, Zenon

-----------------------------------------------------------------------------
(* The steps.                                                              *)

\* The innermost frame of host code, replaced by g.
LEMMA HostKeeps ==
  ASSUME CallInv, Top.kind = "host", NEW g \in HostFrame, SetTop(g), g.fn = Top.fn,
         Scalars', BodiesUsed', throws' >= throws, pending' = pending,
         Apart(g, Len(stack) - 1),
         slot' \in Thrown', slot' # 0 => Newer(slot', Len(stack) - 1),
         g.err \in Thrown', slot' # 0 /\ g.err # Undefined => slot' >= g.err,
         Top.unwinding # 0 /\ Len(stack) # 1 => g.unwinding # 0
  PROVE  CallInv'
<1>1. g \in Frame /\ g.kind = "host" /\ Shape /\ Len(stack) \in Nat \ {0}
  BY HostUpdated, Here
<1>2. /\ Shape' /\ Len(stack') = Len(stack) /\ Top' = g /\ stack'[Len(stack)] = g
      /\ \A i \in 1..(Len(stack) - 1) : stack'[i] = stack[i]
  BY <1>1, TopReplaced
<1>3. Tainted(Len(stack) - 1) => pending' # 0 \/ g.unwinding # 0
  <2>1. CASE Len(stack) = 1
    BY <2>1 DEF Tainted
  <2> QED  BY <2>1, Here
<1>4. Len(stack) - 1 <= Len(stack) /\ (g.fn = Main <=> Len(stack) = 1)
  BY <1>1, HostHere
<1> QED  BY <1>1, <1>2, <1>3, <1>4, StepKeeps

\* A panic starts.
LEMMA PanicKeeps ==
  ASSUME CallInv, Running, NewPanic, SetTop([Top EXCEPT !.unwinding = panics']),
         UNCHANGED <<slot, pending, used, bodies, throws>>
  PROVE  CallInv'
<1> DEFINE g == [Top EXCEPT !.unwinding = panics']
<1>1. /\ panics' \in 1..MaxPanics /\ Scalars /\ BodiesUsed /\ throws \in Nat
      /\ slot \in Thrown /\ (slot # 0 => Newer(slot, Len(stack) - 1))
  BY Here, Bounds DEF NewPanic, Scalars
<1>2. /\ Top.kind = "host" /\ Top \in HostFrame /\ Top.err \in Thrown
      /\ Apart(Top, Len(stack) - 1)
      /\ (slot # 0 /\ Top.err # Undefined => slot >= Top.err)
  BY HostHere DEF Running
<1>3. /\ g \in HostFrame /\ g.fn = Top.fn /\ g.holds = Top.holds /\ g.unwinding = panics'
      /\ g.shares = Top.shares /\ g.err = Top.err
  BY <1>1, <1>2, HostUpdated
<1>4. Scalars' /\ BodiesUsed'
  BY <1>1 DEF Scalars, BodiesUsed, Exceptions, Undefined
<1>5. Apart(g, Len(stack) - 1)
  BY <1>2, <1>3 DEF Apart
<1>6. SetTop(g)
  OBVIOUS
<1>7. Thrown' = Thrown
  BY DEF Thrown, Undefined
<1> HIDE DEF g
<1> QED  BY <1>1, <1>2, <1>3, <1>4, <1>5, <1>6, <1>7, HostKeeps

\* A RefCell is borrowed where nobody below does, or a guard is dropped.
LEMMA BorrowStep ==
  ASSUME CallInv, NEW c \in Cells, Borrow(c) \/ BorrowMut(c) \/ DropGuard(c)
  PROVE  CallInv'
<1>1. /\ Running /\ Scalars /\ BodiesUsed /\ throws \in Nat
      /\ slot \in Thrown /\ (slot # 0 => Newer(slot, Len(stack) - 1))
      /\ UNCHANGED <<slot, pending, used, bodies, throws>>
  BY Here DEF Borrow, BorrowMut, DropGuard, Scalars
<1>2. /\ Top.kind = "host" /\ Top \in HostFrame /\ Top.err \in Thrown
      /\ Apart(Top, Len(stack) - 1) /\ Top.unwinding = 0
      /\ (slot # 0 /\ Top.err # Undefined => slot >= Top.err)
  BY <1>1, HostHere DEF Running
<1>3. /\ DOMAIN stack = 1..Len(stack) /\ Len(stack) \in Nat \ {0}
      /\ \A j \in 1..(Len(stack) - 1) : j \in DOMAIN stack
  BY Here, StackFacts
<1>4. ASSUME NEW g \in HostFrame, SetTop(g), g.fn = Top.fn, g.err = Top.err,
             Apart(g, Len(stack) - 1), UNCHANGED panics
      PROVE  CallInv'
  <2>1. Scalars' /\ BodiesUsed' /\ Thrown' = Thrown
    BY <1>1, <1>4 DEF Scalars, BodiesUsed, Exceptions, Undefined, Thrown
  <2> QED  BY <1>1, <1>2, <1>4, <2>1, HostKeeps
<1>5. CASE Borrow(c) /\ ~Held(c)
  <2> DEFINE g == [Top EXCEPT !.shares = @ \cup {c}]
  <2>1. SetTop(g) /\ UNCHANGED panics
    BY <1>5 DEF Borrow
  <2>2. /\ g \in HostFrame /\ g.fn = Top.fn /\ g.err = Top.err
        /\ g.holds = Top.holds /\ g.shares = Top.shares \cup {c}
    BY <1>2, BorrowUpdated
  <2>3. Apart(g, Len(stack) - 1)
    BY <1>2, <1>3, <1>5, <2>2 DEF Apart, Held, HostFrames
  <2> HIDE DEF g
  <2> QED  BY <1>4, <2>1, <2>2, <2>3
<1>6. CASE BorrowMut(c) /\ FreeToBorrow(c)
  <2> DEFINE g == [Top EXCEPT !.holds = @ \cup {c}]
  <2>1. SetTop(g) /\ UNCHANGED panics
    BY <1>6 DEF BorrowMut
  <2>2. /\ g \in HostFrame /\ g.fn = Top.fn /\ g.err = Top.err
        /\ g.holds = Top.holds \cup {c} /\ g.shares = Top.shares
    BY <1>2, BorrowUpdated
  <2>3. Apart(g, Len(stack) - 1)
    <3>1. \A j \in HostFrames : c \notin stack[j].holds \cup stack[j].shares
      BY <1>6 DEF FreeToBorrow, Held, Shared
    <3>2. \A j \in 1..(Len(stack) - 1) : stack[j].kind = "host" => j \in HostFrames
      BY <1>3 DEF HostFrames
    <3> SUFFICES ASSUME NEW j \in 1..(Len(stack) - 1), stack[j].kind = "host"
                 PROVE  /\ g.holds \cap (stack[j].holds \cup stack[j].shares) = {}
                        /\ g.shares \cap stack[j].holds = {}
      BY DEF Apart
    <3> HIDE DEF g
    <3>3. /\ Top.holds \cap (stack[j].holds \cup stack[j].shares) = {}
          /\ Top.shares \cap stack[j].holds = {}
      BY <1>2 DEF Apart
    <3>4. c \notin stack[j].holds \cup stack[j].shares
      BY <3>1, <3>2
    <3> QED  BY <2>2, <3>3, <3>4
  <2> HIDE DEF g
  <2> QED  BY <1>4, <2>1, <2>2, <2>3
<1>7. CASE DropGuard(c)
  <2> DEFINE g == [Top EXCEPT !.shares = @ \ {c}, !.holds = @ \ {c}]
  <2>1. SetTop(g) /\ UNCHANGED panics
    BY <1>7 DEF DropGuard
  <2>2. /\ g \in HostFrame /\ g.fn = Top.fn /\ g.err = Top.err
        /\ g.holds = Top.holds \ {c} /\ g.shares = Top.shares \ {c}
    BY <1>2, BorrowUpdated
  <2>3. Apart(g, Len(stack) - 1)
    BY <1>2, <2>2 DEF Apart
  <2> HIDE DEF g
  <2> QED  BY <1>4, <2>1, <2>2, <2>3
<1>8. CASE NewPanic /\ SetTop([Top EXCEPT !.unwinding = panics'])
  BY <1>1, <1>8, PanicKeeps
<1> QED  BY <1>5, <1>6, <1>7, <1>8 DEF Borrow, BorrowMut

\* What is thrown is newer than all; what was in the slot was too.
LEMMA ErrorStep ==
  ASSUME CallInv, Catch \/ Throw
  PROVE  CallInv'
<1>1. /\ Running /\ Scalars /\ BodiesUsed /\ throws \in Nat
      /\ Newer(throws + 1, Len(stack) - 1)
      /\ UNCHANGED <<pending, used, bodies, panics>>
  BY Here DEF Catch, Throw, Scalars
<1>2. /\ Top.kind = "host" /\ Top \in HostFrame
      /\ Apart(Top, Len(stack) - 1) /\ Top.unwinding = 0
  BY <1>1, HostHere DEF Running
<1>3. ASSUME NEW e \in Thrown', e \in Exceptions, SetTop([Top EXCEPT !.err = e]),
             slot' = e, e # 0 => Newer(e, Len(stack) - 1),
             throws' \in throws..MaxThrows
      PROVE  CallInv'
  <2> DEFINE g == [Top EXCEPT !.err = e]
  <2>1. /\ g \in HostFrame /\ g.fn = Top.fn /\ g.holds = Top.holds /\ g.err = e
        /\ g.shares = Top.shares
    BY <1>2, <1>3, HostUpdated
  <2>2. Scalars' /\ BodiesUsed' /\ e \in Nat
    BY <1>1, <1>3, Bounds DEF Scalars, BodiesUsed, Exceptions, Undefined
  <2>3. Apart(g, Len(stack) - 1)
    BY <1>2, <2>1 DEF Apart
  <2>4. SetTop(g)
    BY <1>3
  <2>5. throws' >= throws
    BY <1>1, <1>3
  <2> HIDE DEF g
  <2> QED  BY <1>1, <1>2, <1>3, <2>1, <2>2, <2>3, <2>4, <2>5, HostKeeps
<1>4. CASE Catch
  <2>1. 0 \in Thrown' /\ 0 \in Exceptions /\ throws' \in throws..MaxThrows
    BY <1>1, <1>4, Bounds DEF Catch, Thrown, Exceptions, Scalars
  <2> QED  BY <1>3, <1>4, <2>1 DEF Catch
<1>5. CASE Throw
  <2>1. /\ throws' = throws + 1 /\ throws' \in Thrown' /\ throws' \in Exceptions
        /\ throws' \in throws..MaxThrows
    BY <1>1, <1>5, Bounds DEF Throw, NewThrow, Thrown, Exceptions, Scalars
  <2> QED  BY <1>1, <1>3, <1>5, <2>1 DEF Throw, ThrowRaw
<1> QED  BY <1>4, <1>5

\* A panic of the host program leaves a new frame of its own.
LEMMA EscapeStep ==
  ASSUME CallInv, Escape
  PROVE  CallInv'
<1> DEFINE g == Host(Main, {})
<1>1. /\ Top.kind = "host" /\ Top.fn = Main /\ SetTop(g)
      /\ UNCHANGED <<slot, pending, used, bodies, throws, panics>>
  BY DEF Escape
<1>2. /\ g \in HostFrame /\ g.fn = Main /\ g.holds = {} /\ g.shares = {} /\ g.err = 0
  BY NewFrames
<1>3. /\ Scalars' /\ BodiesUsed' /\ Thrown' = Thrown /\ throws \in Nat
      /\ slot \in Thrown /\ (slot # 0 => Newer(slot, Len(stack) - 1))
      /\ slot \in Nat
  BY <1>1, Here, Bounds DEF Scalars, BodiesUsed, Thrown, Exceptions, Undefined
<1>4. Len(stack) = 1 /\ Apart(g, Len(stack) - 1) /\ g.err \in Thrown
  BY <1>1, <1>2, <1>3, HostHere DEF Apart, Thrown
<1> HIDE DEF g
<1> QED  BY <1>1, <1>2, <1>3, <1>4, HostKeeps

\* JavaScript is entered, with nothing thrown.
LEMMA EnterStep ==
  ASSUME CallInv, NEW entry \in Entries, Enter(entry)
  PROVE  CallInv'
<1> DEFINE g == Js(entry)
<1>1. /\ Running /\ Len(stack) < MaxDepth /\ stack' = Append(stack, g)
      /\ UNCHANGED <<slot, pending, used, bodies, throws, panics>>
  BY DEF Enter
<1>2. g \in JsFrame /\ g.kind = "js" /\ g.exception = 0 /\ ~g.tainted
  BY NewFrames
<1>3. g \in Frame
  BY <1>2 DEF Frame
<1> HIDE DEF g
<1>4. /\ Shape /\ Scalars /\ BodiesUsed /\ Len(stack) \in Nat \ {0}
      /\ slot \in Thrown /\ throws \in Nat
  BY Here DEF Scalars
<1>5. /\ Shape' /\ Len(stack') = Len(stack) + 1 /\ Top' = g
      /\ stack'[Len(stack) + 1] = g
      /\ \A i \in 1..Len(stack) : stack'[i] = stack[i]
  BY <1>1, <1>2, <1>3, <1>4, Pushed DEF Running
<1>6. Scalars' /\ BodiesUsed' /\ Thrown' = Thrown /\ 0 \in Thrown
  BY <1>1, <1>4 DEF Scalars, BodiesUsed, Thrown, Exceptions, Undefined
<1>7. /\ slot # 0 => Newer(slot, Len(stack))
      /\ Tainted(Len(stack)) => pending # 0
  BY <1>1, Known DEF Running
<1>8. Len(stack) + 1 \in Nat \ {0} /\ (Len(stack) + 1) - 1 = Len(stack)
  BY <1>4
<1>9. Len(stack) <= Len(stack) /\ throws' >= throws
  BY <1>1, <1>4
<1> QED  BY <1>1, <1>2, <1>3, <1>4, <1>5, <1>6, <1>7, <1>8, <1>9, StepKeeps

\* The trampoline takes an FnOnce for good, and borrows what nobody holds.
LEMMA InvokeStep ==
  ASSUME CallInv, NEW f \in Functions, Invoke(f)
  PROVE  CallInv'
<1> DEFINE g == Host(f, NeededBy(f))
<1>1. /\ InJs /\ Len(stack) < MaxDepth /\ Available(f) /\ stack' = Append(stack, g)
      /\ used' = used \cup ({f} \cap OnceFns)
      /\ bodies' = [h \in OnceFns |-> bodies[h] + IF h = f THEN 1 ELSE 0]
      /\ UNCHANGED <<slot, pending, throws, panics>>
  BY DEF Invoke
<1>2. NeededBy(f) \in SUBSET Cells
  BY Bounds DEF NeededBy
<1>3. /\ g \in HostFrame /\ g.kind = "host" /\ g.fn = f /\ g.holds = NeededBy(f)
      /\ g.shares = {} /\ g.err = 0
  BY <1>2, NewFrames
<1>4. g \in Frame
  BY <1>3 DEF Frame
<1> HIDE DEF g
<1>5. /\ Shape /\ Scalars /\ BodiesUsed /\ Len(stack) \in Nat \ {0}
      /\ slot \in Thrown /\ throws \in Nat /\ slot \in Nat
  BY Here, Bounds DEF Scalars, Exceptions, Undefined
<1>6. /\ Shape' /\ Len(stack') = Len(stack) + 1 /\ Top' = g
      /\ stack'[Len(stack) + 1] = g
      /\ \A i \in 1..Len(stack) : stack'[i] = stack[i]
  BY <1>1, <1>3, <1>4, <1>5, Pushed DEF InJs
<1>7. Scalars' /\ Thrown' = Thrown /\ 0 \in Thrown
  BY <1>1, <1>5 DEF Scalars, Thrown, Exceptions, Undefined
<1>8. BodiesUsed'
  <2> SUFFICES ASSUME NEW h \in OnceFns
               PROVE  bodies'[h] = 0 \/ (bodies'[h] = 1 /\ h \in used')
    BY DEF BodiesUsed
  <2>1. CASE h = f
    BY <1>1, <1>5, <2>1 DEF BodiesUsed, Available
  <2>2. CASE h # f
    BY <1>1, <1>5, <2>2 DEF BodiesUsed, Scalars
  <2> QED  BY <2>1, <2>2
<1>9. Apart(g, Len(stack))
  <2>1. \A j \in 1..Len(stack) : j \in DOMAIN stack
    BY StackFacts, <1>5
  <2> QED  BY <1>1, <1>3, <2>1 DEF Apart, Available, FreeToBorrow, Held, Shared, HostFrames
<1>10. /\ slot # 0 => Newer(slot, Len(stack))
       /\ Tainted(Len(stack)) => pending # 0
  BY <1>1, Known DEF InJs
<1>11. /\ Len(stack) + 1 \in Nat \ {0} /\ (Len(stack) + 1) - 1 = Len(stack)
       /\ (g.fn = Main <=> Len(stack) + 1 = 1) /\ Len(stack) <= Len(stack)
       /\ throws' >= throws
  BY <1>1, <1>3, <1>5, Bounds
<1> QED  BY <1>1, <1>3, <1>4, <1>5, <1>6, <1>7, <1>8, <1>9, <1>10, <1>11, StepKeeps

\* The innermost JavaScript frame, replaced by g.
LEMMA JsKeeps ==
  ASSUME CallInv, Top.kind = "js", NEW g \in JsFrame, SetTop(g),
         Scalars', BodiesUsed', throws' >= throws, UNCHANGED <<slot, pending>>,
         g.exception \in Thrown', g.exception # 0 => Newer(g.exception, Len(stack) - 1),
         g.tainted => Top.tainted
  PROVE  CallInv'
<1>1. g \in Frame /\ g.kind = "js" /\ Shape /\ Scalars /\ Len(stack) \in Nat \ {0}
  BY Here DEF JsFrame, Frame
<1>2. /\ Shape' /\ Len(stack') = Len(stack) /\ Top' = g /\ stack'[Len(stack)] = g
      /\ \A i \in 1..(Len(stack) - 1) : stack'[i] = stack[i]
  BY <1>1, TopReplaced
<1>3. /\ slot \in Thrown /\ (slot # 0 => Newer(slot, Len(stack) - 1))
      /\ Tainted(Len(stack) - 1) => pending # 0
  BY Here
<1>4. Top.tainted => pending # 0
  BY JsHere
<1>5. slot' \in Thrown' /\ Len(stack) - 1 <= Len(stack)
  BY <1>1, <1>3 DEF Thrown, Scalars, Undefined
<1> QED  BY <1>1, <1>2, <1>3, <1>4, <1>5, StepKeeps

LEMMA InvokeFailsStep ==
  ASSUME CallInv, JsThrow \/ \E f \in Functions : InvokeFails(f)
  PROVE  CallInv'
<1> DEFINE g == [Top EXCEPT !.exception = throws']
<1>1. /\ InJs /\ NewThrow /\ SetTop(g) /\ UNCHANGED <<slot, pending, bodies, panics>>
      /\ used \subseteq used' /\ used' \subseteq used \cup OnceFns
  BY DEF JsThrow, InvokeFails
<1>2. /\ Scalars /\ BodiesUsed /\ throws \in Nat /\ Newer(throws + 1, Len(stack) - 1)
  BY Here DEF Scalars
<1>3. Top.kind = "js" /\ Top \in JsFrame
  BY <1>1, JsHere DEF InJs
<1>4. /\ throws' = throws + 1 /\ throws' \in Thrown' /\ throws' \in Exceptions
      /\ throws' >= throws
  BY <1>1, <1>2, Bounds DEF NewThrow, Thrown, Exceptions, Scalars
<1>5. Scalars' /\ BodiesUsed'
  BY <1>1, <1>2, <1>4, Bounds DEF NewThrow, Scalars, BodiesUsed, Exceptions, Undefined
<1>6. /\ g \in JsFrame /\ g.exception = throws' /\ g.tainted = Top.tainted
  BY <1>3, <1>4, JsUpdated
<1> HIDE DEF g
<1> QED  BY <1>1, <1>2, <1>3, <1>4, <1>5, <1>6, JsKeeps

LEMMA JsCatchStep ==
  ASSUME CallInv, JsCatch
  PROVE  CallInv'
<1> DEFINE g == [Top EXCEPT !.exception = 0]
<1>1. /\ Top.kind = "js" /\ SetTop(g)
      /\ UNCHANGED <<slot, pending, used, bodies, throws, panics>>
  BY DEF JsCatch
<1>2. Scalars /\ BodiesUsed /\ throws \in Nat /\ Top \in JsFrame
  BY <1>1, Here, JsHere DEF Scalars
<1>3. 0 \in Exceptions /\ 0 \in Thrown' /\ Scalars' /\ BodiesUsed'
  BY <1>1, <1>2, Bounds DEF Scalars, BodiesUsed, Exceptions, Undefined, Thrown
<1>4. g \in JsFrame /\ g.exception = 0 /\ g.tainted = Top.tainted
  BY <1>2, <1>3, JsUpdated
<1> HIDE DEF g
<1>5. throws' >= throws
  BY <1>1, <1>2
<1> QED  BY <1>1, <1>3, <1>4, <1>5, JsKeeps

LEMMA Under ==
  ASSUME CallInv, Len(stack) # 1
  PROVE  /\ Len(stack) >= 2 /\ Len(stack) - 1 \in Nat \ {0}
         /\ (Len(stack) - 1) - 1 = Len(stack) - 2
         /\ (Len(stack) - 1) - 1 <= Len(stack)
         /\ Top.kind = "js" => Caller.kind = "host"
         /\ Top.kind = "host" => Caller.kind = "js"
         /\ Top.kind \in {"host", "js"}
<1>1. Shape /\ Len(stack) \in Nat \ {0} /\ Top \in Frame
  BY Here
<1> QED  BY <1>1, CallerFacts, FrameKinds

\* The innermost frame is left and its caller's is g.
LEMMA LeaveKeeps ==
  ASSUME CallInv, Len(stack) # 1, NEW g \in Frame, g.kind = Caller.kind,
         SetCaller(g) \/ (stack' = Below /\ g = Caller),
         Scalars', BodiesUsed', throws' >= throws,
         g.kind = "host" => /\ g.fn = Caller.fn
                            /\ g.holds = Caller.holds /\ g.shares = Caller.shares,
         slot' \in Thrown', slot' # 0 => Newer(slot', Len(stack) - 2),
         g.kind = "host" =>
           g.err \in Thrown' /\ (slot' # 0 /\ g.err # Undefined => slot' >= g.err),
         g.kind = "js" =>
           /\ g.exception \in Thrown' /\ (g.exception # 0 => Newer(g.exception, Len(stack) - 2))
           /\ g.tainted => Caller.tainted \/ pending' # 0,
         \/ pending' # 0 \/ (g.kind = "host" /\ g.unwinding # 0)
         \/ pending = 0 /\ ~(Top.kind = "host" /\ Top.unwinding # 0)
  PROVE  CallInv'
<1>1. Shape /\ Len(stack) >= 2
  BY Here, Under, Zenon
<1>2. /\ Shape' /\ Len(stack') = Len(stack) - 1 /\ Top' = g
      /\ stack'[Len(stack) - 1] = g
      /\ \A i \in 1..(Len(stack) - 2) : stack'[i] = stack[i]
  <2>1. CASE SetCaller(g)
    BY <1>1, <2>1, CallerReplaced
  <2>2. CASE stack' = Below /\ g = Caller
    BY <1>1, <2>2, Popped DEF Caller
  <2> QED  BY <2>1, <2>2
<1>3. /\ Top.kind = "js" => Caller.kind = "host"
      /\ Top.kind = "host" => Caller.kind = "js"
      /\ Top.kind \in {"host", "js"}
  BY Under, Zenon
<1>4. g.kind = "host" =>
        (g.fn = Main <=> Len(stack) - 1 = 1) /\ Apart(g, Len(stack) - 2)
  <2>1. Top.kind = "js" =>
          (Caller.fn = Main <=> Len(stack) - 1 = 1) /\ Apart(Caller, Len(stack) - 2)
    BY CallerHere, Zenon
  <2> QED  BY <1>3, <2>1 DEF Apart
<1>5. Tainted(Len(stack) - 2) \/ (g.kind = "js" /\ g.tainted) =>
        pending' # 0 \/ (g.kind = "host" /\ g.unwinding # 0)
  <2>1. Tainted(Len(stack) - 2) \/ (Caller.kind = "js" /\ Caller.tainted) =>
          pending # 0 \/ (Top.kind = "host" /\ Top.unwinding # 0)
    BY CallerHere, Zenon
  <2> QED  BY <2>1
<1>6. /\ Len(stack) - 1 \in Nat \ {0} /\ (Len(stack) - 1) - 1 = Len(stack) - 2
      /\ (Len(stack) - 1) - 1 <= Len(stack)
  BY Under, Zenon
<1> DEFINE m == Len(stack) - 1
<1>7. m \in Nat \ {0} /\ m - 1 = Len(stack) - 2 /\ m - 1 <= Len(stack)
  BY <1>6
<1>8. /\ Shape' /\ Len(stack') = m /\ Top' = g /\ stack'[m] = g
      /\ \A i \in 1..(m - 1) : stack'[i] = stack[i]
  BY <1>2, <1>7
<1>9. /\ g.kind = "host" => (g.fn = Main <=> m = 1) /\ Apart(g, m - 1)
      /\ slot' # 0 => Newer(slot', m - 1)
      /\ g.kind = "js" =>
           g.exception \in Thrown' /\ (g.exception # 0 => Newer(g.exception, m - 1))
      /\ Tainted(m - 1) \/ (g.kind = "js" /\ g.tainted) =>
           pending' # 0 \/ (g.kind = "host" /\ g.unwinding # 0)
  BY <1>4, <1>5, <1>7
<1>10. m \in Nat \ {0} /\ m - 1 <= Len(stack)
  BY <1>7
<1> HIDE DEF m
<1> QED  BY <1>8, <1>9, <1>10, StepKeeps, Zenon

\* A host function returns to JavaScript: a value, ...
LEMMA ReturnOkStep ==
  ASSUME CallInv, ReturnOk
  PROVE  CallInv'
<1>1. /\ Running /\ Top.kind = "host" /\ Len(stack) # 1
      /\ stack' = Below /\ UNCHANGED <<slot, pending, used, bodies, throws, panics>>
  BY Here, HostHere DEF ReturnOk, Running
<1>2. /\ Scalars /\ BodiesUsed /\ throws \in Nat /\ slot \in Thrown
      /\ Caller \in JsFrame /\ Caller.exception \in Thrown
      /\ Caller.exception # 0 => Newer(Caller.exception, Len(stack) - 2)
      /\ slot # 0 => Newer(slot, Len(stack) - 2)
  BY <1>1, Here, CallerHere DEF Scalars
<1>3. Caller \in Frame /\ Caller.kind = "js"
  BY <1>2 DEF JsFrame, Frame
<1>4. Scalars' /\ BodiesUsed' /\ Thrown' = Thrown
  BY <1>1, <1>2 DEF Scalars, BodiesUsed, Exceptions, Undefined, Thrown
<1> QED  BY <1>1, <1>2, <1>3, <1>4, LeaveKeeps DEF Running

\* ... an exception, with the slot left empty, ...
LEMMA ReturnThrown ==
  ASSUME CallInv, ReturnException \/ ReturnError
  PROVE  CallInv'
<1>1. /\ Running /\ Top.kind = "host" /\ Top.fn # Main /\ Len(stack) # 1
      /\ UNCHANGED <<pending, used, bodies, panics>>
  <2>1. Running /\ Top.fn # Main /\ UNCHANGED <<pending, used, bodies, panics>>
    BY DEF ReturnException, ReturnError
  <2> QED  BY <2>1, HostHere DEF Running
<1>2. /\ Scalars /\ BodiesUsed /\ throws \in Nat /\ slot \in Thrown /\ Caller \in JsFrame
      /\ slot # 0 => Newer(slot, Len(stack) - 2)
      /\ Newer(Undefined, Len(stack) - 2) /\ Newer(throws + 1, Len(stack) - 2)
  BY <1>1, Here, CallerHere DEF Scalars
<1>3. ASSUME NEW e \in Thrown', e \in Exceptions, Newer(e, Len(stack) - 2),
             SetCaller([Caller EXCEPT !.exception = e]), slot' \in {0, slot},
             throws' \in throws..MaxThrows
      PROVE  CallInv'
  <2> DEFINE g == [Caller EXCEPT !.exception = e]
  <2>1. g \in JsFrame /\ g.kind = "js" /\ g.exception = e /\ g.tainted = Caller.tainted
    BY <1>2, <1>3, JsUpdated
  <2>2. g \in Frame /\ Caller.kind = "js"
    BY <1>2, <2>1 DEF Frame, JsFrame
  <2>3. Scalars' /\ BodiesUsed' /\ slot' \in Thrown' /\ throws' >= throws
    BY <1>1, <1>2, <1>3, Bounds DEF Scalars, BodiesUsed, Exceptions, Undefined, Thrown
  <2>4. SetCaller(g)
    BY <1>3
  <2> HIDE DEF g
  <2> QED  BY <1>1, <1>2, <1>3, <2>1, <2>2, <2>3, <2>4, LeaveKeeps DEF Running
<1>4. CASE ReturnException
  <2>1. Taken \in Thrown' /\ Taken \in Exceptions /\ throws' \in throws..MaxThrows
    BY <1>2, <1>4, Bounds DEF ReturnException, Taken, Thrown, Exceptions, Undefined, Scalars
  <2>2. Newer(Taken, Len(stack) - 2)
    BY <1>2 DEF Taken
  <2> QED  BY <1>3, <1>4, <2>1, <2>2 DEF ReturnException
<1>5. CASE ReturnError
  <2>1. /\ throws' = throws + 1 /\ throws' \in Thrown' /\ throws' \in Exceptions
        /\ throws' \in throws..MaxThrows
    BY <1>2, <1>5, Bounds DEF ReturnError, NewThrow, Thrown, Exceptions, Scalars
  <2> QED  BY <1>2, <1>3, <1>5, <2>1 DEF ReturnError
<1> QED  BY <1>4, <1>5

\* ... or a panic, which is parked.
LEMMA CatchUnwindStep ==
  ASSUME CallInv, CatchUnwind
  PROVE  CallInv'
<1> DEFINE g == [Caller EXCEPT !.exception = throws', !.tainted = TRUE]
<1>1. /\ Top.kind = "host" /\ Top.unwinding # 0 /\ Len(stack) # 1
      /\ NewThrow /\ pending' = Top.unwinding /\ slot' = 0
      /\ SetCaller(g) /\ UNCHANGED <<used, bodies, panics>>
  <2>1. /\ Top.kind = "host" /\ Top.unwinding # 0 /\ Top.fn # Main
        /\ NewThrow /\ pending' = Top.unwinding /\ slot' = 0
        /\ SetCaller(g) /\ UNCHANGED <<used, bodies, panics>>
    BY DEF CatchUnwind
  <2> QED  BY <2>1, HostHere
<1>2. /\ Scalars /\ BodiesUsed /\ throws \in Nat /\ Caller \in JsFrame
      /\ Newer(throws + 1, Len(stack) - 2)
  BY <1>1, Here, CallerHere DEF Scalars
<1>3. /\ throws' = throws + 1 /\ throws' \in Thrown' /\ throws' \in Exceptions
      /\ throws' >= throws /\ throws' <= MaxThrows
  BY <1>1, <1>2, Bounds DEF NewThrow, Thrown, Exceptions, Scalars
<1>4. Top.unwinding \in 0..MaxPanics
  BY <1>1, HostHere, HostUpdated
<1>5. Scalars' /\ BodiesUsed' /\ 0 \in Thrown'
  BY <1>1, <1>2, <1>3, <1>4, Bounds DEF Scalars, BodiesUsed, Exceptions, Undefined, Thrown
<1>6. g \in JsFrame /\ g.kind = "js" /\ g.exception = throws' /\ g.tainted
  BY <1>2, <1>3, JsUpdated
<1>7. g \in Frame /\ Caller.kind = "js"
  BY <1>2, <1>6 DEF Frame, JsFrame
<1> HIDE DEF g
<1> QED  BY <1>1, <1>2, <1>3, <1>5, <1>6, <1>7, LeaveKeeps

\* Back in host code: the payload is resumed, ...
LEMMA JsReturnPanicStep ==
  ASSUME CallInv, JsReturnPanic
  PROVE  CallInv'
<1> DEFINE g == [Caller EXCEPT !.unwinding = pending]
<1>1. /\ Top.kind = "js" /\ pending # 0 /\ pending' = 0
      /\ SetCaller(g) /\ UNCHANGED <<slot, used, bodies, throws, panics>>
  BY DEF JsReturnPanic, Resumes
<1>2. Len(stack) # 1
  BY <1>1, Here, CallerFacts
<1>3. /\ Scalars /\ BodiesUsed /\ throws \in Nat /\ slot \in Thrown
      /\ Caller \in HostFrame /\ Caller.err \in Thrown
      /\ (slot # 0 /\ Caller.err # Undefined => slot >= Caller.err)
      /\ (slot # 0 => Newer(slot, Len(stack) - 2))
  BY <1>1, <1>2, Here, CallerHere DEF Scalars
<1>4. /\ Scalars' /\ BodiesUsed' /\ Thrown' = Thrown /\ pending \in 0..MaxPanics
  BY <1>1, <1>3, Bounds DEF Scalars, BodiesUsed, Exceptions, Undefined, Thrown
<1>5. /\ g \in HostFrame /\ g.kind = "host" /\ g.fn = Caller.fn /\ g.unwinding = pending
      /\ g.holds = Caller.holds /\ g.shares = Caller.shares /\ g.err = Caller.err
  BY <1>3, <1>4, HostUpdated
<1>6. g \in Frame /\ Caller.kind = "host"
  BY <1>3, <1>5, HostUpdated
<1> HIDE DEF g
<1> QED  BY <1>1, <1>2, <1>3, <1>4, <1>5, <1>6, LeaveKeeps

\* ... or the exception comes to the slot, or is dropped, ...
LEMMA JsReturnExceptionStep ==
  ASSUME CallInv, JsReturnException
  PROVE  CallInv'
<1> DEFINE g == [Caller EXCEPT !.err = Top.exception]
<1>1. /\ Top.kind = "js" /\ Top.exception # 0
      /\ UNCHANGED <<pending, used, bodies, throws, panics>>
      /\ \/ stack' = Below /\ UNCHANGED slot
         \/ slot' = Top.exception /\ SetCaller(g)
  BY DEF JsReturnException, ThrowRaw
<1>2. Len(stack) # 1
  BY <1>1, Here, CallerFacts
<1>3. /\ Scalars /\ BodiesUsed /\ throws \in Nat /\ slot \in Thrown
      /\ Caller \in HostFrame /\ Caller.err \in Thrown
      /\ (slot # 0 /\ Caller.err # Undefined => slot >= Caller.err)
      /\ (slot # 0 => Newer(slot, Len(stack) - 2))
  BY <1>1, <1>2, Here, CallerHere DEF Scalars
<1>4. /\ Top.exception \in Thrown /\ Newer(Top.exception, Len(stack) - 2)
      /\ Top \in JsFrame
  BY <1>1, JsHere
<1>5. Top.exception \in Exceptions /\ Top.exception \in Nat /\ Thrown' = Thrown
  BY <1>1, <1>4, Bounds DEF JsFrame, Exceptions, Undefined, Thrown
<1>6. Caller \in Frame /\ Caller.kind = "host"
  BY <1>3, HostUpdated
<1>7. CASE stack' = Below /\ UNCHANGED slot
  <2>1. Scalars' /\ BodiesUsed'
    BY <1>1, <1>3, <1>7 DEF Scalars, BodiesUsed, Exceptions, Undefined
  <2> QED  BY <1>1, <1>2, <1>3, <1>5, <1>6, <1>7, <2>1, LeaveKeeps
<1>8. CASE slot' = Top.exception /\ SetCaller(g)
  <2>1. Scalars' /\ BodiesUsed'
    BY <1>1, <1>3, <1>5, <1>8 DEF Scalars, BodiesUsed, Exceptions, Undefined
  <2>2. /\ g \in HostFrame /\ g.kind = "host" /\ g.fn = Caller.fn
        /\ g.holds = Caller.holds /\ g.shares = Caller.shares /\ g.err = Top.exception
    BY <1>3, <1>5, HostUpdated
  <2>3. g \in Frame
    BY <2>2, HostUpdated
  <2> HIDE DEF g
  <2> QED  BY <1>1, <1>2, <1>4, <1>5, <1>3, <1>6, <1>8, <2>1, <2>2, <2>3, LeaveKeeps
<1> QED  BY <1>1, <1>7, <1>8

\* ... or there is a value, after the microtasks of a call.
LEMMA JsReturnValueStep ==
  ASSUME CallInv, JsReturnValue
  PROVE  CallInv'
<1> DEFINE g == Js("microtasks")
<1>1. /\ Top.kind = "js" /\ UNCHANGED <<slot, pending, used, bodies, throws, panics>>
      /\ stack' = Below \/ SetTop(g)
  BY DEF JsReturnValue, InJs
<1>2. Len(stack) # 1
  BY <1>1, Here, CallerFacts
<1>3. /\ Scalars /\ BodiesUsed /\ throws \in Nat /\ slot \in Thrown
      /\ Caller \in HostFrame /\ Caller.err \in Thrown
      /\ (slot # 0 /\ Caller.err # Undefined => slot >= Caller.err)
      /\ (slot # 0 => Newer(slot, Len(stack) - 2))
  BY <1>1, <1>2, Here, CallerHere DEF Scalars
<1>4. Scalars' /\ BodiesUsed' /\ Thrown' = Thrown /\ 0 \in Thrown
  BY <1>1, <1>3 DEF Scalars, BodiesUsed, Exceptions, Undefined, Thrown
<1>5. CASE stack' = Below
  <2>1. Caller \in Frame /\ Caller.kind = "host"
    BY <1>3, HostUpdated
  <2> QED  BY <1>1, <1>2, <1>3, <1>4, <1>5, <2>1, LeaveKeeps
<1>6. CASE SetTop(g)
  <2>1. g \in JsFrame /\ g.exception = 0 /\ ~g.tainted
    BY NewFrames
  <2> HIDE DEF g
  <2> QED  BY <1>1, <1>3, <1>4, <1>6, <2>1, JsKeeps
<1> QED  BY <1>1, <1>5, <1>6

-----------------------------------------------------------------------------
(* The invariant, and what follows from it.                                *)

LEMMA CallInit ==
  Init => CallInv
<1> SUFFICES ASSUME Init PROVE CallInv
  OBVIOUS
<1>1. stack = <<Host(Main, {})>> /\ Host(Main, {}) \in HostFrame
  BY NewFrames DEF Init
<1>2. /\ stack[1].kind = "host" /\ stack[1].fn = Main /\ stack[1].err = 0
      /\ DOMAIN stack = {1} /\ Len(stack) = 1 /\ stack \in Seq(Frame) /\ stack # <<>>
  BY <1>1, NewFrames DEF Frame
<1>3. TypeOK
  <2>1. Shape
    BY <1>2, Bounds DEF Shape
  <2>2. Scalars
    BY Bounds DEF Init, Scalars, Exceptions, Undefined
  <2> QED  BY <2>1, <2>2, TypeParts
<1>4. MainBelow /\ BorrowsExclusive /\ NewerAbove /\ PanicUnderWay
  BY <1>2 DEF MainBelow, BorrowsExclusive, NewerAbove, PanicUnderWay, HostFrames
<1>5. BodiesUsed
  BY DEF Init, BodiesUsed
<1>6. ErrorsThrown /\ NoOlderException
  BY <1>2 DEF Init, ErrorsThrown, NoOlderException, HostFrames, Thrown
<1> QED  BY <1>3, <1>4, <1>5, <1>6 DEF CallInv

LEMMA CallStep ==
  CallInv /\ [Next]_vars => CallInv'
<1> SUFFICES ASSUME CallInv, [Next]_vars PROVE CallInv'
  OBVIOUS
<1>1. CASE UNCHANGED vars
  BY <1>1 DEF vars, CallInv, TypeOK, MainBelow, BodiesUsed, BorrowsExclusive, ErrorsThrown,
    NoOlderException, NewerAbove, PanicUnderWay, HostFrames, Thrown, Top
<1>2. CASE HostStep
  BY <1>2, EnterStep, BorrowStep, ErrorStep, PanicKeeps, ReturnOkStep, ReturnThrown,
    CatchUnwindStep, EscapeStep DEF HostStep, Panic
<1>3. CASE JsStep
  BY <1>3, InvokeStep, InvokeFailsStep, JsCatchStep, JsReturnPanicStep,
    JsReturnExceptionStep, JsReturnValueStep DEF JsStep
<1> QED  BY <1>1, <1>2, <1>3 DEF Next

LEMMA CallAlways ==
  Spec => []CallInv
BY CallInit, CallStep, PTL DEF Spec

\* Frames of host code and of JavaScript take turns on the stack, and the slot,
\* the parked payload and the closures taken are what the code keeps there.
THEOREM CallsTyped ==
  Spec => []TypeOK
<1>1. CallInv => TypeOK
  BY DEF CallInv
<1> QED  BY <1>1, CallAlways, PTL

\* function.rs: the body of an FnOnce is entered at most once, however many calls
\* of it there are, nested or failing in their arguments.
THEOREM OnceOnly ==
  Spec => []OnceRunsOnce
<1>1. CallInv => OnceRunsOnce
  BY DEF CallInv, BodiesUsed, OnceRunsOnce
<1> QED  BY <1>1, CallAlways, PTL

\* class.rs and function.rs: however calls nest, no two frames of host code have
\* a closure or an instance borrowed when one of them borrows it mutably.
THEOREM BorrowsApart ==
  Spec => []BorrowsExclusive
<1>1. CallInv => BorrowsExclusive
  BY DEF CallInv
<1> QED  BY <1>1, CallAlways, PTL

\* error.rs: what is in the slot while host code has an Error::Exception is the
\* exception of that error or one thrown later.
THEOREM SlotNeverOlder ==
  Spec => []NoOlderException
<1>1. CallInv => NoOlderException
  BY DEF CallInv
<1> QED  BY <1>1, CallAlways, PTL

\* What JavaScript does within its frame leaves the stack as deep as it was.
LEMMA StaysDeep ==
  ASSUME CallInv, JsThrow \/ JsCatch \/ \E f \in Functions : InvokeFails(f)
  PROVE  Len(stack') = Len(stack)
<1>1. Top.kind = "js" /\ Top \in JsFrame /\ Shape /\ Scalars
  <2>1. Top.kind = "js"
    BY DEF JsThrow, JsCatch, InvokeFails, InJs
  <2> QED  BY <2>1, Here, JsHere
<1>2. PICK e \in Exceptions : SetTop([Top EXCEPT !.exception = e])
  <2>1. CASE JsCatch
    <3>1. 0 \in Exceptions
      BY Bounds DEF Exceptions
    <3> QED  BY <2>1, <3>1 DEF JsCatch
  <2>2. CASE JsThrow \/ \E f \in Functions : InvokeFails(f)
    <3>1. NewThrow /\ SetTop([Top EXCEPT !.exception = throws'])
      BY <2>2 DEF JsThrow, InvokeFails
    <3>2. throws' \in Exceptions
      BY <1>1, <3>1, Bounds DEF NewThrow, Scalars, Exceptions
    <3> QED  BY <3>1, <3>2
  <2> QED  BY <2>1, <2>2
<1> DEFINE g == [Top EXCEPT !.exception = e]
<1>3. g \in JsFrame /\ g.kind = "js" /\ SetTop(g)
  BY <1>1, <1>2, JsUpdated
<1>4. g \in Frame
  BY <1>3 DEF Frame
<1> HIDE DEF g
<1> QED  BY <1>1, <1>3, <1>4, TopReplaced

\* A JavaScript frame in which a host function panicked is left only by unwinding
\* its caller.
LEMMA TaintedResumes ==
  ASSUME CallInv, Next, Top.kind = "js", Len(stack') < Len(stack),
         Top.tainted, Top.entry \in Resuming
  PROVE  Last(stack').unwinding # 0
<1>1. pending # 0 /\ Resumes
  BY JsHere DEF Resumes
<1>2. Shape /\ Len(stack) \in Nat \ {0} /\ stack \in Seq(Frame)
  BY Here DEF Shape
<1>3. CASE HostStep
  BY <1>3 DEF HostStep, Enter, Borrow, BorrowMut, DropGuard, Catch, Throw, Panic,
    ReturnOk, ReturnException, ReturnError, CatchUnwind, Escape, Running
<1>4. CASE \E f \in Functions : Invoke(f)
  <2>1. PICK f \in Functions : stack' = Append(stack, Host(f, NeededBy(f)))
    BY <1>4 DEF Invoke
  <2>2. Len(stack') = Len(stack) + 1
    <3>1. NeededBy(f) \in SUBSET Cells
      BY Bounds DEF NeededBy
    <3>2. Host(f, NeededBy(f)) \in Frame
      BY <3>1, NewFrames DEF Frame
    <3> QED  BY <1>2, <2>1, <3>2, AppendFacts
  <2> QED  BY <1>2, <2>2
<1>5. CASE JsThrow \/ JsCatch \/ \E f \in Functions : InvokeFails(f)
  BY <1>2, <1>5, StaysDeep
<1>6. CASE JsReturnException \/ JsReturnValue
  BY <1>1, <1>6 DEF JsReturnException, JsReturnValue
<1>7. CASE JsReturnPanic
  <2> DEFINE g == [Caller EXCEPT !.unwinding = pending]
  <2>1. SetCaller(g)
    BY <1>7 DEF JsReturnPanic
  <2>2. Caller \in HostFrame /\ Caller.kind = "host" /\ Len(stack) >= 2
    BY <1>2, CallerFacts
  <2>3. pending \in 0..MaxPanics
    BY Here DEF Scalars
  <2>4. g \in HostFrame /\ g.kind = "host" /\ g.unwinding = pending
    BY <2>2, <2>3, HostUpdated
  <2>5. g \in Frame
    BY <2>4, HostUpdated
  <2> HIDE DEF g
  <2>6. Top' = g
    BY <1>2, <2>1, <2>2, <2>4, <2>5, CallerReplaced
  <2> QED  BY <1>1, <2>4, <2>6 DEF Top
<1> QED  BY <1>3, <1>4, <1>5, <1>6, <1>7 DEF Next, JsStep

\* function.rs:565-574: no panic of a host function is lost, whatever JavaScript
\* does with the exception thrown in its place: the entry point that called that
\* JavaScript, if it resumes panics at all, unwinds the frame that called it.
THEOREM PanicsArrive ==
  Spec => PanicReachesCaller
<1>1. CallInv /\ [Next]_vars =>
        [(Top.kind = "js" /\ Len(stack') < Len(stack) /\ Top.tainted
            /\ Top.entry \in Resuming)
           => Last(stack').unwinding # 0]_vars
  BY TaintedResumes
<1> QED  BY <1>1, CallAlways, PTL DEF Spec, PanicReachesCaller
=============================================================================
