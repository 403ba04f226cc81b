---------------------------- MODULE HostLoopProofs ----------------------------
(***************************************************************************)
(* Proofs about HostLoop, for any sets of futures, tasks and events and    *)
(* any bounds: the type invariant, that a future is held exactly once      *)
(* however drivers nest, that deferred calls run in order, that a driver   *)
(* which reports the runtime idle left nothing behind, that the executor   *)
(* implements WorkPool, and that no wakeup is lost.                        *)
(***************************************************************************)
EXTENDS HostLoopProps, Facts, TLAPS

\* What is true of the frames between any two steps.  The local vectors of
\* poll_all are empty outside its loop; while a future of theirs is being
\* polled there is one to poll.
FrameOK(frame) ==
  /\ frame.pc \notin {"poll", "pollReady"} => frame.todo = <<>> /\ frame.kept = <<>>
  /\ frame.pc \in {"poll", "pollReady"} /\ frame.busy => frame.todo # <<>>
  /\ frame.pc \in {"main", "mainReady"} => frame.driver = "with"
  /\ frame.driver = "with" => frame.self \in WithTasks
  /\ frame.driver \in {"run", "job"} => frame.self = NoTask
  /\ frame.driver = "finish" => frame.self \in Futures

\* The drivers that host code or a poll starts inside another one.
Nested == Synchronous \cup {"promise"}

\* Only the innermost frame runs driver code, only the outermost belongs to an
\* outer task, and below a PromiseFuture is the poll of what awaits it.
FramesOK ==
  /\ \A i \in DOMAIN stack : FrameOK(stack[i])
  /\ \A i \in DOMAIN stack : i # Len(stack) => stack[i].busy
  /\ \A i \in DOMAIN stack : i > 1 => stack[i].driver \in Nested
  /\ \A i \in DOMAIN stack : stack[i].driver = "promise" =>
        i > 1 /\ stack[i - 1].pc \in {"main", "poll"}
  /\ \A i \in DOMAIN stack : i = 1 => stack[i].self \notin done

\* EachHeldOnce without the length of the stack: an index that is no holder's
\* holds nothing.
Holding == [h \in Int |-> Held(h)]

HeldOnce ==
  /\ \A h \in Int : IsInjective(Holding[h])
  /\ \A g, h \in Int : g # h => ToSet(Holding[g]) \cap ToSet(Holding[h]) = {}
  /\ \A f \in Futures : (\E h \in Int : f \in ToSet(Holding[h]))
                          <=> f \in spawned \ (finished \cup lost)
  /\ finished \cup lost \subseteq spawned

JobsCounted == ran \in 0..jobs /\ JobsInOrder

IInv == TypeOK /\ FramesOK /\ HeldOnce /\ JobsCounted

-----------------------------------------------------------------------------
(* The call stack.                                                         *)

\* The frames of a stack that is not empty.
LEMMA StackFacts ==
  ASSUME stack \in Seq(Frame), stack # <<>>
  PROVE  /\ Len(stack) \in Nat \ {0} /\ DOMAIN stack = 1..Len(stack)
         /\ Top = stack[Len(stack)] /\ Top \in Frame
         /\ Below \in Seq(Frame) /\ Len(Below) = Len(stack) - 1
         /\ DOMAIN Below = 1..(Len(stack) - 1)
         /\ \A i \in DOMAIN Below : Below[i] = stack[i]
  BY FrontFacts DEF Top, Below

\* A driver's own step replaces its frame.
LEMMA SetTopKeeps ==
  ASSUME TypeOK, FramesOK, stack # <<>>, NEW frame \in Frame,
         SetTop(frame), FrameOK(frame), done' = done,
         frame.driver = Top.driver, frame.self = Top.self
  PROVE  /\ stack' \in Seq(Frame) /\ FramesOK' /\ DOMAIN stack' = DOMAIN stack
         /\ stack'[Len(stack)] = frame
         /\ \A i \in DOMAIN stack : i # Len(stack) => stack'[i] = stack[i]
<1> USE DEF TypeOK
<1>1. /\ stack' \in Seq(Frame) /\ DOMAIN stack' = DOMAIN stack
      /\ Len(stack') = Len(stack) /\ stack'[Len(stack)] = frame
      /\ \A i \in DOMAIN stack : i # Len(stack) => stack'[i] = stack[i]
  BY StackFacts DEF SetTop
<1>2. \A i \in DOMAIN stack : /\ stack'[i].driver = stack[i].driver
                              /\ stack'[i].self = stack[i].self
                              /\ FrameOK(stack'[i])
  BY <1>1, StackFacts DEF FramesOK
<1>3. \A i \in DOMAIN stack' : i # Len(stack') => stack'[i].busy
  BY <1>1 DEF FramesOK
<1>4. ASSUME NEW i \in DOMAIN stack', stack'[i].driver = "promise"
      PROVE  i > 1 /\ stack'[i - 1].pc \in {"main", "poll"}
  <2>1. i > 1 /\ stack[i - 1].pc \in {"main", "poll"}
    BY <1>1, <1>2, <1>4 DEF FramesOK
  <2>2. i - 1 \in DOMAIN stack /\ i - 1 # Len(stack)
    BY <1>1, <2>1, <1>4, StackFacts
  <2> QED  BY <2>1, <2>2, <1>1
<1>5. \A i \in DOMAIN stack' : i = 1 => stack'[i].self \notin done'
  BY <1>1, <1>2 DEF FramesOK
<1>6. \A i \in DOMAIN stack' : i > 1 => stack'[i].driver \in Nested
  BY <1>1, <1>2 DEF FramesOK
<1>7. \A i \in DOMAIN stack' : FrameOK(stack'[i])
  BY <1>1, <1>2
<1>8. FramesOK'
  BY <1>3, <1>4, <1>5, <1>6, <1>7 DEF FramesOK, FrameOK
<1> QED  BY <1>1, <1>8

\* Host code calls a driver, or a poll reaches a PromiseFuture.
LEMMA PushKeeps ==
  ASSUME TypeOK, FramesOK, Running, NEW frame \in Frame,
         stack' = Append(stack, frame), FrameOK(frame), done' = done,
         \/ frame.driver \in Synchronous
         \/ frame.driver = "promise" /\ stack # <<>> /\ Top.pc \in {"main", "poll"},
         frame.driver \in Synchronous => frame.self \notin done
  PROVE  /\ stack' \in Seq(Frame) /\ FramesOK'
         /\ DOMAIN stack' = DOMAIN stack \cup {Len(stack) + 1}
         /\ stack'[Len(stack) + 1] = frame /\ Len(stack) + 1 \notin DOMAIN stack
         /\ \A i \in DOMAIN stack : stack'[i] = stack[i]
<1> USE DEF TypeOK
<1>1. /\ stack' \in Seq(Frame) /\ Len(stack') = Len(stack) + 1
      /\ DOMAIN stack' = DOMAIN stack \cup {Len(stack) + 1}
      /\ stack'[Len(stack) + 1] = frame /\ Len(stack) + 1 \notin DOMAIN stack
      /\ Len(stack) \in Nat /\ DOMAIN stack = 1..Len(stack)
      /\ \A i \in DOMAIN stack : stack'[i] = stack[i]
  OBVIOUS
<1>2. \A i \in DOMAIN stack' : FrameOK(stack'[i])
  BY <1>1 DEF FramesOK
<1>3. ASSUME NEW i \in DOMAIN stack', i # Len(stack')
      PROVE  stack'[i].busy
  <2>1. i \in DOMAIN stack
    BY <1>1, <1>3
  <2>2. CASE i = Len(stack)
    BY <2>1, <2>2, <1>1, StackFacts DEF Running
  <2>3. CASE i # Len(stack)
    BY <2>1, <2>3, <1>1 DEF FramesOK
  <2> QED  BY <2>2, <2>3
<1>4. \A i \in DOMAIN stack' : i > 1 => stack'[i].driver \in Nested
  BY <1>1 DEF FramesOK, Nested
<1>5. ASSUME NEW i \in DOMAIN stack', stack'[i].driver = "promise"
      PROVE  i > 1 /\ stack'[i - 1].pc \in {"main", "poll"}
  <2>1. CASE i \in DOMAIN stack
    <3>1. i > 1 /\ stack[i - 1].pc \in {"main", "poll"}
      BY <2>1, <1>1, <1>5 DEF FramesOK
    <3>2. i - 1 \in DOMAIN stack
      BY <2>1, <3>1, <1>1
    <3> QED  BY <3>1, <3>2, <1>1
  <2>2. CASE i = Len(stack) + 1
    <3>1. stack # <<>> /\ Top.pc \in {"main", "poll"}
      BY <2>2, <1>1, <1>5 DEF Synchronous
    <3>2. Len(stack) \in DOMAIN stack /\ stack[Len(stack)].pc \in {"main", "poll"}
      BY <3>1, StackFacts
    <3> QED  BY <2>2, <3>2, <1>1
  <2> QED  BY <2>1, <2>2, <1>1
<1>6. ASSUME 1 \in DOMAIN stack'
      PROVE  stack'[1].self \notin done'
  <2>1. CASE 1 \in DOMAIN stack
    BY <2>1, <1>1 DEF FramesOK
  <2>2. CASE 1 = Len(stack) + 1
    BY <2>2, <1>1, <1>5
  <2> QED  BY <2>1, <2>2, <1>1, <1>6
<1>7. FramesOK'
  BY <1>2, <1>3, <1>4, <1>5, <1>6 DEF FramesOK, FrameOK
<1> QED  BY <1>1, <1>7

\* A driver returns to the host code that called it, or its task returns.
LEMMA PopKeeps ==
  ASSUME TypeOK, FramesOK, stack # <<>>, stack' = Below,
         Len(stack) > 1 => done' = done
  PROVE  /\ stack' \in Seq(Frame) /\ FramesOK'
         /\ DOMAIN stack' = DOMAIN stack \ {Len(stack)}
         /\ \A i \in DOMAIN stack' : stack'[i] = stack[i]
<1> USE DEF TypeOK
<1>1. /\ stack' \in Seq(Frame) /\ Len(stack') = Len(stack) - 1
      /\ Len(stack) \in Nat \ {0} /\ DOMAIN stack = 1..Len(stack)
      /\ DOMAIN stack' = DOMAIN stack \ {Len(stack)}
      /\ \A i \in DOMAIN stack' : stack'[i] = stack[i]
  <2>1. /\ Len(stack) \in Nat \ {0} /\ DOMAIN stack = 1..Len(stack)
        /\ stack' \in Seq(Frame) /\ Len(stack') = Len(stack) - 1
        /\ DOMAIN stack' = 1..(Len(stack) - 1)
        /\ \A i \in DOMAIN stack' : stack'[i] = stack[i]
    BY StackFacts
  <2> QED  BY <2>1
<1>2. \A i \in DOMAIN stack' : FrameOK(stack'[i]) /\ stack'[i].busy
  BY <1>1 DEF FramesOK
<1>3. \A i \in DOMAIN stack' : i > 1 => stack'[i].driver \in Nested
  BY <1>1 DEF FramesOK
<1>4. ASSUME NEW i \in DOMAIN stack', stack'[i].driver = "promise"
      PROVE  i > 1 /\ stack'[i - 1].pc \in {"main", "poll"}
  <2>1. i > 1 /\ stack[i - 1].pc \in {"main", "poll"}
    BY <1>1, <1>4 DEF FramesOK
  <2>2. i - 1 \in DOMAIN stack'
    BY <2>1, <1>1, <1>4
  <2> QED  BY <2>1, <2>2, <1>1
<1>5. \A i \in DOMAIN stack' : i = 1 => stack'[i].self \notin done'
  BY <1>1 DEF FramesOK
<1>6. FramesOK'
  BY <1>2, <1>3, <1>4, <1>5 DEF FramesOK, FrameOK
<1> QED  BY <1>1, <1>6

\* A PromiseFuture returns to the poll it is nested in.
LEMMA ReturnKeeps ==
  ASSUME TypeOK, FramesOK, Len(stack) > 1, NEW frame \in Frame,
         stack' = [Below EXCEPT ![Len(stack) - 1] = frame],
         FrameOK(frame), done' = done,
         frame.driver = stack[Len(stack) - 1].driver,
         frame.self = stack[Len(stack) - 1].self
  PROVE  /\ stack' \in Seq(Frame) /\ FramesOK'
         /\ DOMAIN stack' = DOMAIN stack \ {Len(stack)}
         /\ stack'[Len(stack) - 1] = frame
         /\ \A i \in DOMAIN stack' : i # Len(stack) - 1 => stack'[i] = stack[i]
<1> USE DEF TypeOK
<1>1. /\ stack' \in Seq(Frame) /\ Len(stack') = Len(stack) - 1
      /\ Len(stack) \in Nat \ {0} /\ DOMAIN stack = 1..Len(stack)
      /\ DOMAIN stack' = DOMAIN stack \ {Len(stack)}
      /\ stack'[Len(stack) - 1] = frame
      /\ \A i \in DOMAIN stack' : i # Len(stack) - 1 => stack'[i] = stack[i]
  <2>1. /\ Len(stack) \in Nat \ {0} /\ DOMAIN stack = 1..Len(stack)
        /\ Below \in Seq(Frame) /\ Len(Below) = Len(stack) - 1
        /\ DOMAIN Below = 1..(Len(stack) - 1)
        /\ \A i \in DOMAIN Below : Below[i] = stack[i]
    BY StackFacts
  <2>2. Len(stack) - 1 \in DOMAIN Below
    BY <2>1
  <2>3. /\ stack' \in Seq(Frame) /\ Len(stack') = Len(Below)
        /\ DOMAIN stack' = DOMAIN Below /\ stack'[Len(stack) - 1] = frame
        /\ \A i \in DOMAIN Below : i # Len(stack) - 1 => stack'[i] = Below[i]
    <3>1. Below \in Seq(Frame) /\ stack' = [Below EXCEPT ![Len(stack) - 1] = frame]
      BY <2>1
    <3>2. Len(stack) - 1 \in 1..Len(Below)
      BY <2>1, <2>2
    <3>3. stack' \in Seq(Frame)
      BY <3>1, <3>2
    <3>4. Len(stack') = Len(Below) /\ DOMAIN stack' = DOMAIN Below
      BY <3>1, <3>2
    <3>5. stack'[Len(stack) - 1] = frame
      BY <3>1, <3>2
    <3>6. \A i \in DOMAIN Below : i # Len(stack) - 1 => stack'[i] = Below[i]
      BY <3>1, <3>2
    <3> QED  BY <3>3, <3>4, <3>5, <3>6
  <2>4. DOMAIN stack' = DOMAIN stack \ {Len(stack)}
    BY <2>1, <2>3
  <2> QED  BY <2>1, <2>3, <2>4
<1>2. \A i \in DOMAIN stack' : /\ stack'[i].driver = stack[i].driver
                               /\ stack'[i].self = stack[i].self
                               /\ FrameOK(stack'[i])
  BY <1>1 DEF FramesOK
<1>3. \A i \in DOMAIN stack' : i # Len(stack') => stack'[i].busy
  BY <1>1 DEF FramesOK
<1>4. \A i \in DOMAIN stack' : i > 1 => stack'[i].driver \in Nested
  BY <1>1, <1>2 DEF FramesOK
<1>5. ASSUME NEW i \in DOMAIN stack', stack'[i].driver = "promise"
      PROVE  i > 1 /\ stack'[i - 1].pc \in {"main", "poll"}
  <2>1. i > 1 /\ stack[i - 1].pc \in {"main", "poll"}
    BY <1>1, <1>2, <1>5 DEF FramesOK
  <2>2. i - 1 \in DOMAIN stack' /\ i - 1 # Len(stack) - 1
    BY <2>1, <1>1
  <2> QED  BY <2>1, <2>2, <1>1
<1>6. \A i \in DOMAIN stack' : i = 1 => stack'[i].self \notin done'
  BY <1>1, <1>2 DEF FramesOK
<1>7. \A i \in DOMAIN stack' : FrameOK(stack'[i])
  BY <1>2
<1>8. FramesOK'
  BY <1>3, <1>4, <1>5, <1>6, <1>7 DEF FramesOK, FrameOK
<1> QED  BY <1>1, <1>8

-----------------------------------------------------------------------------
(* Who holds which future.                                                 *)

HoldingOK == Holding \in [Int -> Seq(Futures)]

\* Every holder has a vector of futures.
LEMMA HoldingTyped ==
  TypeOK => HoldingOK
<1> SUFFICES ASSUME TypeOK, NEW h \in Int PROVE Held(h) \in Seq(Futures)
  BY DEF Holding, HoldingOK
<1>1. CASE h \in {-1, 0}
  BY <1>1 DEF TypeOK, Held
<1>2. CASE h \notin {-1, 0} /\ h \in DOMAIN stack
  <2>1. stack[h] \in Frame
    BY <1>2 DEF TypeOK
  <2>2. stack[h].kept \in Seq(Futures) /\ stack[h].todo \in Seq(Futures)
    BY <2>1 DEF Frame
  <2>3. Vector(stack[h]) \in Seq(Futures)
    BY <2>2 DEF Vector
  <2> QED  BY <2>3, <1>2 DEF Held
<1>3. CASE h \notin {-1, 0} /\ h \notin DOMAIN stack
  BY <1>3 DEF Held
<1> QED  BY <1>1, <1>2, <1>3

\* The inductive form implies the invariant the runs check.
LEMMA HeldOnceImplies ==
  TypeOK /\ HeldOnce => EachHeldOnce
<1> SUFFICES ASSUME TypeOK, HeldOnce PROVE EachHeldOnce
  OBVIOUS
<1>1. Holders \subseteq Int /\ \A h \in Int : Holding[h] = Held(h)
  BY DEF TypeOK, Holders, Holding
<1>2. \A h \in Int \ Holders : Held(h) = <<>>
  BY DEF TypeOK, Holders, Held
<1>3. Pool = spawned \ (finished \cup lost)
  <2>1. Pool \subseteq Futures
    BY <1>1, HoldingTyped DEF Pool, ToSet, HoldingOK
  <2>2. ASSUME NEW f \in Futures
        PROVE  f \in Pool <=> \E h \in Int : f \in ToSet(Holding[h])
    <3>1. ToSet(<<>>) = {}
      BY DEF ToSet
    <3> QED  BY <3>1, <1>1, <1>2, Zenon DEF Pool
  <2> QED  BY <2>1, <2>2, Zenon DEF HeldOnce, TypeOK
<1> QED  BY <1>1, <1>3 DEF HeldOnce, EachHeldOnce

\* A step that moves no future.
LEMMA SameHeld ==
  ASSUME HeldOnce, Holding' = Holding, UNCHANGED <<spawned, finished, lost>>
  PROVE  HeldOnce'
BY DEF HeldOnce

\* A driver's own step keeps every future where it is, unless it changes the
\* vectors.
LEMMA SetTopHolds ==
  ASSUME TypeOK, FramesOK, stack # <<>>, NEW frame \in Frame,
         SetTop(frame), FrameOK(frame), done' = done,
         frame.driver = Top.driver, frame.self = Top.self
  PROVE  Holding' = [Holding EXCEPT ![-1] = incoming', ![0] = futures',
                                    ![Len(stack)] = Vector(frame)]
<1> DEFINE H == [Holding EXCEPT ![-1] = incoming', ![0] = futures',
                                ![Len(stack)] = Vector(frame)]
<1>1. ASSUME NEW h \in Int PROVE Holding'[h] = H[h]
  <2>1. Len(stack) \in Nat \ {0} /\ Len(stack) \in DOMAIN stack
    BY StackFacts DEF TypeOK
  <2>2. /\ DOMAIN stack' = DOMAIN stack /\ stack'[Len(stack)] = frame
        /\ \A i \in DOMAIN stack : i # Len(stack) => stack'[i] = stack[i]
    BY SetTopKeeps
  <2>3. CASE h \in {-1, 0}
    BY <2>1, <2>3 DEF Holding, Held
  <2>4. CASE h = Len(stack)
    <3>1. H[h] = Vector(frame) /\ Holding'[h] = Held(h)'
      BY <2>1, <2>4 DEF Holding
    <3>2. h \notin {-1, 0} /\ h \in DOMAIN stack' /\ stack'[h] = frame
      BY <2>1, <2>2, <2>4
    <3>3. Held(h)' = Vector(frame)
      BY <3>2 DEF Held
    <3> QED  BY <3>1, <3>3, Zenon
  <2>5. CASE h \notin {-1, 0, Len(stack)}
    <3>1. H[h] = Held(h) /\ Holding'[h] = Held(h)'
      BY <2>1, <2>5 DEF Holding
    <3>2. h \in DOMAIN stack => stack'[h] = stack[h]
      BY <2>2, <2>5
    <3> QED  BY <3>1, <3>2, <2>2, <2>5 DEF Held
  <2> QED  BY <2>3, <2>4, <2>5
<1>2. Holding' = [h \in Int |-> Holding'[h]] /\ H = [h \in Int |-> H[h]]
  BY DEF Holding
<1> QED  BY <1>1, <1>2, Zenon

\* A step that leaves every vector as it is, and starts or ends frames with
\* empty ones only.
LEMMA SameVectors ==
  ASSUME UNCHANGED <<futures, incoming>>,
         \A h \in DOMAIN stack :
            IF h \in DOMAIN stack' THEN Vector(stack'[h]) = Vector(stack[h])
                                   ELSE Vector(stack[h]) = <<>>,
         \A h \in DOMAIN stack' \ DOMAIN stack : Vector(stack'[h]) = <<>>
  PROVE  Holding' = Holding
<1>1. ASSUME NEW h \in Int PROVE Holding'[h] = Holding[h]
  <2>1. Held(h)' = Held(h)
    BY DEF Held
  <2> QED  BY <2>1 DEF Holding
<1>2. Holding' = [h \in Int |-> Holding'[h]] /\ Holding = [h \in Int |-> Holding[h]]
  BY DEF Holding
<1> QED  BY <1>1, <1>2, Zenon

-----------------------------------------------------------------------------
(* The steps that move no future.                                          *)

StackSafe == stack \in Seq(Frame) /\ FramesOK

\* A driver's own step that leaves its vectors as they are moves no future.
LEMMA Advance ==
  ASSUME TypeOK, FramesOK, stack # <<>>, NEW frame \in Frame,
         SetTop(frame), FrameOK(frame), done' = done,
         frame.driver = Top.driver, frame.self = Top.self,
         UNCHANGED <<futures, incoming>>, Vector(frame) = Vector(Top)
  PROVE  StackSafe' /\ Holding' = Holding
<1>1. /\ StackSafe' /\ DOMAIN stack' = DOMAIN stack /\ stack'[Len(stack)] = frame
      /\ \A i \in DOMAIN stack : i # Len(stack) => stack'[i] = stack[i]
  BY SetTopKeeps DEF StackSafe
<1>2. \A i \in DOMAIN stack : Vector(stack'[i]) = Vector(stack[i])
  BY <1>1, StackFacts DEF TypeOK
<1> QED  BY <1>1, <1>2, SameVectors

\* Neither does a new frame, ...
LEMMA Enter ==
  ASSUME TypeOK, FramesOK, Running, NEW frame \in Frame,
         stack' = Append(stack, frame), FrameOK(frame), done' = done,
         \/ frame.driver \in Synchronous
         \/ frame.driver = "promise" /\ stack # <<>> /\ Top.pc \in {"main", "poll"},
         frame.driver \in Synchronous => frame.self \notin done, UNCHANGED <<futures, incoming>>,
         Vector(frame) = <<>>
  PROVE  StackSafe' /\ Holding' = Holding
<1>1. /\ StackSafe' /\ DOMAIN stack' = DOMAIN stack \cup {Len(stack) + 1}
      /\ stack'[Len(stack) + 1] = frame
      /\ \A i \in DOMAIN stack : stack'[i] = stack[i]
  BY PushKeeps DEF StackSafe
<1> QED  BY <1>1, SameVectors

\* ... a frame that returns with empty vectors, ...
LEMMA Leave ==
  ASSUME TypeOK, FramesOK, stack # <<>>, stack' = Below,
         Len(stack) > 1 => done' = done,
         UNCHANGED <<futures, incoming>>, Vector(Top) = <<>>
  PROVE  StackSafe' /\ Holding' = Holding
<1>1. /\ StackSafe' /\ DOMAIN stack' = DOMAIN stack \ {Len(stack)}
      /\ \A i \in DOMAIN stack' : stack'[i] = stack[i]
  BY PopKeeps DEF StackSafe
<1>2. Top = stack[Len(stack)]
  BY StackFacts DEF TypeOK
<1> QED  BY <1>1, <1>2, SameVectors

\* ... or a PromiseFuture that returns to the poll below it.
LEMMA BackToPoll ==
  ASSUME TypeOK, FramesOK, Len(stack) > 1, NEW frame \in Frame,
         stack' = [Below EXCEPT ![Len(stack) - 1] = frame],
         FrameOK(frame), done' = done,
         frame.driver = stack[Len(stack) - 1].driver,
         frame.self = stack[Len(stack) - 1].self,
         UNCHANGED <<futures, incoming>>, Vector(Top) = <<>>,
         Vector(frame) = Vector(stack[Len(stack) - 1])
  PROVE  StackSafe' /\ Holding' = Holding
<1>1. /\ StackSafe' /\ DOMAIN stack' = DOMAIN stack \ {Len(stack)}
      /\ stack'[Len(stack) - 1] = frame
      /\ \A i \in DOMAIN stack' : i # Len(stack) - 1 => stack'[i] = stack[i]
  BY ReturnKeeps DEF StackSafe
<1>2. stack # <<>> /\ Top = stack[Len(stack)]
  BY StackFacts DEF TypeOK
<1>3. \A h \in DOMAIN stack :
         IF h \in DOMAIN stack' THEN Vector(stack'[h]) = Vector(stack[h])
                                ELSE Vector(stack[h]) = <<>>
  BY <1>1, <1>2
<1> QED  BY <1>1, <1>3, SameVectors

\* The innermost frame is well formed.
LEMMA TopFacts ==
  ASSUME TypeOK, FramesOK, stack # <<>>
  PROVE  Top \in Frame /\ FrameOK(Top) /\ Vector(Top) \in Seq(Futures)
<1>1. Len(stack) \in DOMAIN stack /\ Top = stack[Len(stack)] /\ Top \in Frame
  BY StackFacts DEF TypeOK
<1>2. Top.kept \in Seq(Futures) /\ Top.todo \in Seq(Futures)
  BY <1>1 DEF Frame
<1>3. Vector(Top) \in Seq(Futures)
  BY <1>2 DEF Vector
<1> QED  BY <1>1, <1>3 DEF FramesOK

\* Steps of the innermost driver that stay in its frame.
Inside ==
  \/ RunJob \/ NoJob \/ PendingJob \/ EndCallback \/ PollNext
  \/ EndTick \/ EndWait \/ PromiseTick \/ Repoll \/ Block \/ Yield

\* A frame that only moved its program counter or its `busy' flag, not into
\* or out of poll_all's loop.
Moved(frame, pc, busy) ==
  /\ frame = [Top EXCEPT !.pc = pc, !.busy = busy]
  /\ pc \in PCs /\ busy \in BOOLEAN
  /\ pc = Top.pc \/ {pc, Top.pc} \cap {"poll", "pollReady"} = {}
  /\ pc = "poll" /\ busy => Top.todo # <<>>
  /\ pc = "pollReady" /\ busy => Top.todo # <<>>
  /\ pc \in {"main", "mainReady"} => Top.driver = "with"

\* A frame that changes only its pc and its busy flag.
LEMMA MovedSafe ==
  ASSUME TypeOK, FramesOK, stack # <<>>, NEW frame, NEW pc, NEW busy,
         Moved(frame, pc, busy), SetTop(frame), done' = done,
         UNCHANGED <<futures, incoming>>
  PROVE  StackSafe' /\ Holding' = Holding
<1>1. Top \in Frame /\ FrameOK(Top)
  BY TopFacts
<1>2. frame \in Frame /\ frame.driver = Top.driver /\ frame.self = Top.self
      /\ frame.todo = Top.todo /\ frame.kept = Top.kept
      /\ frame.pc = pc /\ frame.busy = busy
  BY <1>1 DEF Moved, Frame
<1>3. FrameOK(frame) /\ Vector(frame) = Vector(Top)
  BY <1>1, <1>2 DEF FrameOK, Moved, Vector
<1> QED  BY <1>2, <1>3, Advance

\* Steps of a driver within its frame keep the stack and every vector.
LEMMA InsideSafe ==
  ASSUME TypeOK, FramesOK, Inside
  PROVE  StackSafe' /\ Holding' = Holding
<1>1. stack # <<>> => Top \in Frame /\ FrameOK(Top)
  BY TopFacts
<1> USE DEF At, Busy, Moved, Goto, Call, PCs, Start, Resume, AfterJobs, InPromise,
            Deciding, execVars, wakeVars, Frame
<1>2. CASE RunJob
  <2>1. Moved([Top EXCEPT !.pc = "deferred", !.busy = TRUE], "deferred", TRUE)
    BY <1>1, <1>2 DEF RunJob
  <2> QED  BY <2>1, <1>2, MovedSafe DEF RunJob
<1>3. CASE NoJob
  <2>1. CASE Top.driver = "with"
    <3>1. Moved([Top EXCEPT !.pc = "main", !.busy = TRUE], "main", TRUE)
      BY <1>1, <1>3, <2>1 DEF NoJob
    <3> QED  BY <3>1, <1>3, <2>1, MovedSafe DEF NoJob
  <2>2. CASE Top.driver # "with"
    <3>1. Moved([Top EXCEPT !.pc = AfterJobs(Top)], AfterJobs(Top), FALSE)
      BY <1>1, <1>3, <2>2 DEF NoJob
    <3> QED  BY <3>1, <1>3, <2>2, MovedSafe DEF NoJob
  <2> QED  BY <2>1, <2>2
<1>4. CASE EndCallback
  <2>1. Moved([Top EXCEPT !.busy = FALSE], Top.pc, FALSE)
    BY <1>1, <1>4 DEF EndCallback
  <2> QED  BY <2>1, <1>4, MovedSafe DEF EndCallback
<1>5. CASE PollNext
  <2>1. Moved([Top EXCEPT !.pc = "poll", !.busy = TRUE], "poll", TRUE)
    BY <1>1, <1>5 DEF PollNext
  <2> QED  BY <2>1, <1>5, MovedSafe DEF PollNext
<1>6. CASE EndTick
  <2>1. Moved([Top EXCEPT !.pc = "decide"], "decide", FALSE)
    BY <1>1, <1>6 DEF EndTick
  <2> QED  BY <2>1, <1>6, MovedSafe DEF EndTick
<1>7. CASE EndWait
  <2>1. Moved([Top EXCEPT !.pc = Resume(Top.driver)], Resume(Top.driver), FALSE)
    BY <1>1, <1>7 DEF EndWait
  <2> QED  BY <2>1, <1>7, MovedSafe DEF EndWait
<1>8. CASE PromiseTick
  <2>1. Moved([Top EXCEPT !.pc = "tick"], "tick", FALSE)
    BY <1>1, <1>8 DEF PromiseTick
  <2> QED  BY <2>1, <1>8, MovedSafe DEF PromiseTick
<1>9. CASE Repoll
  <2>1. Moved([Top EXCEPT !.pc = "deferred"], "deferred", FALSE)
    BY <1>1, <1>9 DEF Repoll
  <2> QED  BY <2>1, <1>9, MovedSafe DEF Repoll
<1>10. CASE Block
  <2>1. Moved([Top EXCEPT !.pc = "wait"], "wait", FALSE)
    BY <1>1, <1>10 DEF Block
  <2> QED  BY <2>1, <1>10, MovedSafe DEF Block
<1>11. CASE Yield
  <2>1. Moved([Top EXCEPT !.pc = Resume(Top.driver)], Resume(Top.driver), FALSE)
    BY <1>1, <1>11 DEF Yield
  <2> QED  BY <2>1, <1>11, MovedSafe DEF Yield
<1>12. CASE PendingJob
  <2>1. Moved([Top EXCEPT !.pc = "decide", !.busy = TRUE], "decide", TRUE)
    BY <1>1, <1>12 DEF PendingJob
  <2>2. Moved([Top EXCEPT !.pc = "tick"], "tick", FALSE)
    BY <1>1, <1>12 DEF PendingJob
  <2> QED  BY <2>1, <2>2, <1>12, MovedSafe DEF PendingJob
<1> QED  BY <1>2, <1>3, <1>4, <1>5, <1>6, <1>7, <1>8, <1>9, <1>10, <1>11, <1>12
         DEF Inside

\* A callback of Bun's loop starts in the tick or the wait of the frame.
LEMMA FireSafe ==
  ASSUME TypeOK, FramesOK, NEW e \in Events, Fire(e)
  PROVE  StackSafe' /\ Holding' = Holding
<1>1. /\ stack # <<>> /\ done' = done /\ UNCHANGED <<futures, incoming>>
      /\ \/ Top.pc = "tick" /\ SetTop([Top EXCEPT !.pc = "tick", !.busy = TRUE])
         \/ /\ Top.pc \in {"wait", "waited"}
            /\ SetTop([Top EXCEPT !.pc = "waited", !.busy = TRUE])
  BY DEF Fire, At, Call, execVars, wakeVars
<1>2. Top \in Frame /\ FrameOK(Top)
  BY <1>1, TopFacts
<1>3. /\ Top.pc = "tick" =>
           Moved([Top EXCEPT !.pc = "tick", !.busy = TRUE], "tick", TRUE)
      /\ Top.pc \in {"wait", "waited"} =>
           Moved([Top EXCEPT !.pc = "waited", !.busy = TRUE], "waited", TRUE)
  BY <1>2 DEF Moved, PCs, Frame
<1> QED  BY <1>1, <1>3, MovedSafe

\* The poll of a future ends: the frame that polled it goes on.  The future
\* stays in its vectors, now behind those already polled.
LEMMA AfterPoll ==
  ASSUME NEW frame \in Frame, FrameOK(frame), frame.pc \in {"main", "poll"},
         frame.busy
  PROVE  /\ AfterPending(frame) \in Frame /\ FrameOK(AfterPending(frame))
         /\ AfterPending(frame).driver = frame.driver
         /\ AfterPending(frame).self = frame.self
         /\ Vector(AfterPending(frame)) = Vector(frame)
         /\ AfterReady(frame) \in Frame /\ FrameOK(AfterReady(frame))
         /\ AfterReady(frame).driver = frame.driver
         /\ AfterReady(frame).self = frame.self
         /\ Vector(AfterReady(frame)) = Vector(frame)
<1>1. AfterReady(frame) \in Frame /\ FrameOK(AfterReady(frame))
      /\ AfterReady(frame).driver = frame.driver
      /\ AfterReady(frame).self = frame.self
      /\ AfterReady(frame).todo = frame.todo
      /\ AfterReady(frame).kept = frame.kept
  BY DEF AfterReady, Frame, FrameOK, PCs
<1>2. CASE frame.pc = "main"
  <2>1. /\ AfterPending(frame) \in Frame /\ FrameOK(AfterPending(frame))
        /\ AfterPending(frame).driver = frame.driver
        /\ AfterPending(frame).self = frame.self
        /\ AfterPending(frame).todo = frame.todo
        /\ AfterPending(frame).kept = frame.kept
    BY <1>2 DEF AfterPending, Frame, FrameOK, PCs
  <2> QED  BY <1>1, <2>1 DEF Vector
<1>3. CASE frame.pc = "poll"
  <2>1. frame.todo \in Seq(Futures) /\ frame.todo # <<>> /\ frame.kept \in Seq(Futures)
    BY <1>3 DEF Frame, FrameOK
  <2>2. /\ Head(frame.todo) \in Futures /\ Tail(frame.todo) \in Seq(Futures)
        /\ Append(frame.kept, Head(frame.todo)) \in Seq(Futures)
    BY <2>1
  <2>3. AfterPending(frame) = [frame EXCEPT !.busy = FALSE, !.todo = Tail(@),
                                 !.kept = Append(@, Head(frame.todo))]
    BY <1>3 DEF AfterPending
  <2>4. /\ AfterPending(frame) \in Frame
        /\ AfterPending(frame).driver = frame.driver
        /\ AfterPending(frame).self = frame.self
        /\ AfterPending(frame).pc = "poll" /\ ~AfterPending(frame).busy
        /\ AfterPending(frame).todo = Tail(frame.todo)
        /\ AfterPending(frame).kept = Append(frame.kept, Head(frame.todo))
    BY <1>3, <2>2, <2>3 DEF Frame
  <2>5. FrameOK(AfterPending(frame))
    BY <1>3, <2>4 DEF FrameOK
  <2>6. Vector(AfterPending(frame)) = Vector(frame)
    <3>1. Append(frame.kept, Head(frame.todo)) \o Tail(frame.todo) = frame.kept \o frame.todo
      <4> DEFINE t == frame.todo
                 k == frame.kept
      <4>1. k \in Seq(Futures) /\ t \in Seq(Futures) /\ t # <<>>
        BY <2>1
      <4> HIDE DEF t, k
      <4>2. Append(k, Head(t)) \o Tail(t) = k \o t
        BY <4>1, MoveHead
      <4> QED  BY <4>2 DEF t, k
    <3> QED  BY <2>4, <3>1 DEF Vector
  <2> QED  BY <1>1, <2>4, <2>5, <2>6 DEF Vector
<1> QED  BY <1>2, <1>3

\* The code being polled reaches its await: the future stays in the vectors of the
\* frame, whether it is ready, pending, or waits in a nested PromiseFuture.
LEMMA AwaitSafe ==
  ASSUME TypeOK, FramesOK, Await
  PROVE  StackSafe' /\ Holding' = Holding
<1> DEFINE x == Polled(Top)
<1>1. /\ stack # <<>> /\ Top.busy /\ Top.pc \in {"main", "poll"}
      /\ done' = done /\ UNCHANGED <<futures, incoming>>
      /\ \/ stack' = Append(stack, NewFrame("promise", x)) /\ x \in OnPromise
         \/ SetTop(AfterReady(Top)) \/ SetTop(AfterPending(Top))
  BY DEF Await, Busy, execVars, wakeVars
<1>2. Top \in Frame /\ FrameOK(Top)
  BY <1>1, TopFacts
<1>3. CASE SetTop(AfterReady(Top)) \/ SetTop(AfterPending(Top))
  BY <1>1, <1>2, <1>3, AfterPoll, Advance
<1>4. CASE stack' = Append(stack, NewFrame("promise", x)) /\ x \in OnPromise
  <2>1. x \in Tasks \cup Futures
    BY <1>4, HostLoopAssumption DEF Awaiters, Tasks
  <2>2. /\ NewFrame("promise", x) \in Frame /\ FrameOK(NewFrame("promise", x))
        /\ NewFrame("promise", x).driver = "promise"
        /\ Vector(NewFrame("promise", x)) = <<>>
    BY <2>1 DEF NewFrame, Start, Frame, FrameOK, PCs, Drivers, Synchronous, Vector
  <2>3. Running
    BY <1>1 DEF Running
  <2> QED  BY <1>1, <1>4, <2>2, <2>3, Enter DEF Synchronous
<1> QED  BY <1>1, <1>3, <1>4

\* A driver that host code calls starts with empty vectors of its own.
LEMMA CallSafe ==
  ASSUME TypeOK, FramesOK, CallRun \/ CallJob \/ \E f \in Futures : CallFinish(f)
  PROVE  StackSafe' /\ Holding' = Holding
<1>1. PICK driver \in Synchronous, self \in Futures \cup {NoTask} :
        /\ stack' = Append(stack, NewFrame(driver, self))
        /\ driver \in {"run", "job"} => self = NoTask
        /\ driver = "finish" => self \in Futures
  BY DEF CallRun, CallJob, CallFinish, Synchronous
<1>2. Running /\ done' = done /\ UNCHANGED <<futures, incoming>>
  BY DEF CallRun, CallJob, CallFinish, execVars, wakeVars
<1>3. /\ NewFrame(driver, self) \in Frame /\ FrameOK(NewFrame(driver, self))
      /\ NewFrame(driver, self).driver = driver
      /\ NewFrame(driver, self).self = self
      /\ Vector(NewFrame(driver, self)) = <<>>
  BY <1>1 DEF NewFrame, Start, Frame, FrameOK, PCs, Drivers, Synchronous, Vector
<1>4. self \notin done
  BY HostLoopAssumption DEF TypeOK
<1> DEFINE frame == NewFrame(driver, self)
<1>5. /\ stack' = Append(stack, frame) /\ frame \in Frame /\ FrameOK(frame)
      /\ frame.driver \in Synchronous /\ frame.self \notin done
      /\ Vector(frame) = <<>>
  BY <1>1, <1>3, <1>4
<1> HIDE DEF frame
<1> QED  BY <1>2, <1>5, Enter

\* PromiseFuture::poll holds nothing, and returns to a poll that goes on or ends.
LEMMA PromiseReturnSafe ==
  ASSUME TypeOK, FramesOK, PromiseReturn
  PROVE  StackSafe' /\ Holding' = Holding
<1> DEFINE caller == stack[Len(stack) - 1]
<1>1. /\ Len(stack) > 1 /\ done' = done /\ UNCHANGED <<futures, incoming>>
      /\ stack # <<>> /\ Top.driver = "promise" /\ Top.pc \in {"check", "decide"}
      /\ \/ stack' = [Below EXCEPT ![Len(stack) - 1] = AfterReady(caller)]
         \/ stack' = [Below EXCEPT ![Len(stack) - 1] = AfterPending(caller)]
  BY DEF PromiseReturn, InPromise, At, execVars, wakeVars
<1>2. /\ Len(stack) - 1 \in DOMAIN stack /\ Len(stack) \in DOMAIN stack
      /\ Top = stack[Len(stack)] /\ Len(stack) - 1 # Len(stack)
  <2>1. /\ Len(stack) \in Nat \ {0} /\ DOMAIN stack = 1..Len(stack)
        /\ Top = stack[Len(stack)]
    BY <1>1, StackFacts DEF TypeOK
  <2>2. Len(stack) > 1
    BY <1>1
  <2>3. Len(stack) - 1 \in 1..Len(stack) /\ Len(stack) \in 1..Len(stack)
    BY <2>1, <2>2
  <2>4. Len(stack) - 1 # Len(stack)
    <3>1. \A n \in Nat : n - 1 # n
      OBVIOUS
    <3> QED  BY <2>1, <3>1, Zenon
  <2> QED  BY <2>1, <2>3, <2>4, Zenon
<1>3. caller.pc \in {"main", "poll"} /\ caller.busy
  BY <1>1, <1>2 DEF FramesOK
<1>4. caller \in Frame /\ FrameOK(caller)
  BY <1>2 DEF TypeOK, FramesOK
<1>5. Vector(Top) = <<>>
  BY <1>1, TopFacts DEF FrameOK, Vector
<1>6. /\ AfterPending(caller) \in Frame /\ FrameOK(AfterPending(caller))
      /\ AfterPending(caller).driver = caller.driver
      /\ AfterPending(caller).self = caller.self
      /\ Vector(AfterPending(caller)) = Vector(caller)
      /\ AfterReady(caller) \in Frame /\ FrameOK(AfterReady(caller))
      /\ AfterReady(caller).driver = caller.driver
      /\ AfterReady(caller).self = caller.self
      /\ Vector(AfterReady(caller)) = Vector(caller)
  BY <1>3, <1>4, AfterPoll
<1> HIDE DEF caller
<1> QED  BY <1>1, <1>5, <1>6, BackToPoll DEF caller

\* A task returns, or a synchronous driver to its caller.
LEMMA LeaveSafe ==
  ASSUME TypeOK, FramesOK, Park \/ ReturnIdle \/ ReturnCall \/ ReturnMain
  PROVE  StackSafe' /\ Holding' = Holding
<1>1. /\ stack # <<>> /\ stack' = Below /\ UNCHANGED <<futures, incoming>>
      /\ Top.pc \in {"decide", "mainReady"}
      /\ \/ done' = done
         \/ done' = done \cup ({Top.self} \cap Tasks)
              /\ Top.driver \in {"run", "idle"}
         \/ Top.pc = "mainReady"
  BY DEF Park, ReturnIdle, ReturnCall, ReturnMain, Deciding, At, Busy, execVars,
     wakeVars
<1>2. /\ Top \in Frame /\ FrameOK(Top) /\ Top = stack[Len(stack)]
      /\ Len(stack) \in DOMAIN stack
  BY <1>1, TopFacts, StackFacts DEF TypeOK
<1>3. Vector(Top) = <<>>
  BY <1>1, <1>2 DEF FrameOK, Vector
<1>4. ASSUME Len(stack) > 1
      PROVE  done' = done
  <2>1. Top.driver \in {"run", "finish", "job", "promise"}
    BY <1>2, <1>4 DEF FramesOK, Nested, Synchronous
  <2>2. CASE Top.driver = "run" /\ done' = done \cup ({Top.self} \cap Tasks)
    BY <2>2, <1>2, HostLoopAssumption DEF FrameOK
  <2> QED  BY <1>1, <1>2, <2>1, <2>2 DEF FrameOK
<1> QED  BY <1>1, <1>3, <1>4, Leave

\* Steps outside any driver, and host code that changes no frame.
LEMMA ElsewhereSafe ==
  ASSUME TypeOK, FramesOK,
         \/ Defer \/ \E e \in Events : Arm(e)
         \/ \E x \in Awaiters : Settle(x) \/ Provide(x)
         \/ \E t \in Tasks : Cancel(t) \/ PollTask(t)
  PROVE  StackSafe' /\ Holding' = Holding
<1>1. CASE stack' = stack /\ done' = done /\ UNCHANGED <<futures, incoming>>
  <2>1. Holding' = Holding
    BY <1>1, SameVectors DEF TypeOK
  <2> QED  BY <1>1, <2>1 DEF TypeOK, StackSafe, FramesOK, FrameOK
<1>2. CASE stack' = stack /\ stack = <<>> /\ UNCHANGED <<futures, incoming>>
  <2>1. Holding' = Holding
    BY <1>2, SameVectors DEF TypeOK
  <2> QED  BY <1>2, <2>1 DEF TypeOK, StackSafe, FramesOK, FrameOK
<1>3. ASSUME NEW t \in Tasks, PollTask(t)
      PROVE  StackSafe' /\ Holding' = Holding
  <2>1. /\ NewFrame(Kind(t), t) \in Frame /\ FrameOK(NewFrame(Kind(t), t))
        /\ NewFrame(Kind(t), t).driver \in {"with", "idle", "drive"}
        /\ NewFrame(Kind(t), t).self = t
        /\ Vector(NewFrame(Kind(t), t)) = <<>>
    BY HostLoopAssumption
       DEF NewFrame, Kind, Start, Frame, FrameOK, PCs, Drivers, Synchronous,
           Vector, Tasks
  <2>2. /\ stack = <<>> /\ stack' = <<NewFrame(Kind(t), t)>> /\ t \notin done
        /\ done' = done /\ UNCHANGED <<futures, incoming>>
    BY <1>3 DEF PollTask
  <2>3. /\ stack' \in Seq(Frame) /\ Len(stack') = 1 /\ DOMAIN stack' = {1}
        /\ stack'[1] = NewFrame(Kind(t), t) /\ DOMAIN stack = {}
    BY <2>1, <2>2
  <2>4. Holding' = Holding
    BY <2>1, <2>2, <2>3, SameVectors
  <2> QED  BY <2>1, <2>2, <2>3, <2>4 DEF StackSafe, FramesOK, FrameOK
<1>4. CASE Defer
  BY <1>1, <1>4 DEF Defer, execVars, wakeVars
<1>5. ASSUME NEW e \in Events, Arm(e) PROVE StackSafe' /\ Holding' = Holding
  BY <1>1, <1>5 DEF Arm, execVars, wakeVars
<1>6. ASSUME NEW x \in Awaiters, Settle(x) \/ Provide(x)
      PROVE  StackSafe' /\ Holding' = Holding
  BY <1>1, <1>6 DEF Settle, Provide, execVars
<1>7. ASSUME NEW t \in Tasks, Cancel(t) PROVE StackSafe' /\ Holding' = Holding
  BY <1>2, <1>7 DEF Cancel, execVars
<1> QED  BY <1>3, <1>4, <1>5, <1>6, <1>7

\* Every step that neither spawns, takes, stores, completes nor unwinds.
Quiet ==
  \/ Inside \/ Await \/ PromiseReturn
  \/ CallRun \/ CallJob \/ \E f \in Futures : CallFinish(f)
  \/ \E e \in Events : Fire(e) \/ Arm(e)
  \/ Park \/ ReturnIdle \/ ReturnCall \/ ReturnMain
  \/ Defer
  \/ \E x \in Awaiters : Settle(x) \/ Provide(x)
  \/ \E t \in Tasks : Cancel(t) \/ PollTask(t)

\* None of the steps above loses or duplicates a future.
LEMMA QuietStep ==
  ASSUME TypeOK, FramesOK, HeldOnce, Quiet
  PROVE  StackSafe' /\ HeldOnce'
<1>1. StackSafe' /\ Holding' = Holding
  BY InsideSafe, AwaitSafe, PromiseReturnSafe, CallSafe, FireSafe, LeaveSafe,
     ElsewhereSafe DEF Quiet
<1>2. UNCHANGED <<spawned, finished, lost>>
  BY DEF Quiet, Inside, RunJob, NoJob, PendingJob, EndCallback, PollNext, EndTick,
     EndWait, PromiseTick, Repoll, Block, Yield, Await, PromiseReturn, CallRun,
     CallJob, CallFinish, Fire, Arm, Park, ReturnIdle, ReturnCall, ReturnMain, Defer, Settle, Provide, Cancel, PollTask,
     execVars
<1> QED  BY <1>1, <1>2, SameHeld

-----------------------------------------------------------------------------
(* The steps that move futures.                                            *)

\* An empty vector holds nothing.
LEMMA EmptyVector ==
  ToSet(<<>>) = {} /\ IsInjective(<<>>)
BY DEF ToSet, IsInjective

\* A step which leaves at holder n what the holders in From and n itself had,
\* with the futures New added and Gone removed.
Gathers(n, From, New, Gone) ==
  /\ n \in Int /\ From \subseteq Int /\ n \notin From
  /\ \A h \in Int \ (From \cup {n}) : Holding'[h] = Holding[h]
  /\ \A h \in From : Holding'[h] = <<>>
  /\ IsInjective(Holding'[n])
  /\ \A f : f \in ToSet(Holding'[n]) <=>
              /\ f \notin Gone
              /\ f \in New \/ \E h \in From \cup {n} : f \in ToSet(Holding[h])
  /\ New \subseteq Futures /\ New \cap spawned = {}
  /\ spawned' = spawned \cup New
  /\ Gone \subseteq ToSet(Holding[n])
  /\ finished' \cup lost' = finished \cup lost \cup Gone

\* Such a step keeps every live future in exactly one place.
LEMMA GatherHolds ==
  ASSUME HeldOnce, HoldingOK, HoldingOK',
         NEW n, NEW From, NEW New, NEW Gone, Gathers(n, From, New, Gone)
  PROVE  HeldOnce'
<1> USE DEF Gathers, HoldingOK
<1> DEFINE Els(h) == ToSet(Holding[h])
           NewEls(h) == ToSet(Holding'[h])
<1>1. \A f \in Futures : (\E h \in Int : f \in Els(h))
                            <=> f \in spawned /\ f \notin finished \cup lost
  BY DEF HeldOnce
<1>2. \A g, h \in Int : g # h => Els(g) \cap Els(h) = {}
  BY DEF HeldOnce
<1>3. \A h \in Int : Els(h) \subseteq Futures /\ NewEls(h) \subseteq Futures
  <2> TAKE h \in Int
  <2>1. Holding[h] \in Seq(Futures) /\ Holding'[h] \in Seq(Futures)
    OBVIOUS
  <2> QED  BY <2>1, ElemsTyped
<1>4. \A h \in Int \ {n} : IF h \in From THEN NewEls(h) = {}
                                           ELSE NewEls(h) = Els(h)
  BY EmptyVector
<1>10. \A f : f \in NewEls(n) <=> /\ f \notin Gone
                                  /\ f \in New \/ \E g \in From \cup {n} : f \in Els(g)
  OBVIOUS
<1>5. \A h \in Int : IsInjective(Holding'[h])
  BY EmptyVector DEF HeldOnce
<1>6. Gone \subseteq Els(n)
  OBVIOUS
<1> HIDE DEF Els, NewEls
<1>7. \A h \in Int : New \cap Els(h) = {}
  BY <1>1, <1>3
<1>8. ASSUME NEW g \in Int, NEW h \in Int, g # h
      PROVE  NewEls(g) \cap NewEls(h) = {}
  <2>1. ASSUME NEW k \in Int, k # n PROVE NewEls(k) \cap NewEls(n) = {}
    <3> SUFFICES ASSUME NEW f, f \in NewEls(k), f \in NewEls(n) PROVE FALSE
      BY Zenon
    <3>1. f \in Els(k) /\ k \notin From
      BY <2>1, <1>4
    <3>2. \A j \in From \cup {n} : f \notin Els(j)
      BY <3>1, <2>1, <1>2
    <3> QED  BY <3>1, <3>2, <1>7, <1>10
  <2>2. CASE g # n /\ h # n
    BY <2>2, <1>2, <1>4, <1>8
  <2> QED  BY <2>1, <2>2, <1>8
<1>9. ASSUME NEW f \in Futures
      PROVE  (\E h \in Int : f \in NewEls(h))
                <=> f \in spawned' /\ f \notin finished' \cup lost'
  <2>1. ASSUME NEW h \in Int, f \in NewEls(h)
        PROVE  f \in spawned' /\ f \notin finished' \cup lost'
    <3>1. f \in New \/ \E g \in Int : f \in Els(g)
      BY <2>1, <1>4, <1>10
    <3>2. f \notin Gone
      <4>1. CASE h = n
        BY <2>1, <4>1, <1>10
      <4>2. CASE h # n
        <5>1. f \in Els(h)
          BY <2>1, <4>2, <1>4
        <5> QED  BY <5>1, <4>2, <1>2, <1>6
      <4> QED  BY <4>1, <4>2
    <3>3. f \in New => f \notin finished \cup lost
      BY DEF HeldOnce
    <3> QED  BY <3>1, <3>2, <3>3, <1>1
  <2>2. ASSUME f \in spawned', f \notin finished' \cup lost'
        PROVE  \E h \in Int : f \in NewEls(h)
    <3>1. f \notin Gone /\ (f \in New \/ \E g \in Int : f \in Els(g))
      BY <2>2, <1>1
    <3>2. CASE f \in New
      BY <3>1, <3>2, <1>10
    <3>3. ASSUME NEW g \in Int, f \in Els(g)
          PROVE  \E h \in Int : f \in NewEls(h)
      <4>1. CASE g \in From \cup {n}
        BY <3>1, <3>3, <4>1, <1>10
      <4>2. CASE g \notin From \cup {n}
        BY <3>3, <4>2, <1>4
      <4> QED  BY <4>1, <4>2
    <3> QED  BY <3>1, <3>2, <3>3
  <2> QED  BY <2>1, <2>2
<1>11. (finished \cup lost \subseteq spawned)'
  <2>1. Gone \subseteq spawned
    BY <1>1, <1>3, <1>6
  <2> QED  BY <2>1 DEF HeldOnce
<1> QED  BY <1>5, <1>8, <1>9, <1>11 DEF HeldOnce, Els, NewEls

\* Executor::spawn: the new future is in `incoming'.
LEMMA SpawnHolds ==
  ASSUME TypeOK, HeldOnce, TypeOK', NEW f \in Futures, Spawn(f)
  PROVE  HeldOnce'
<1>1. /\ f \notin spawned /\ spawned' = spawned \cup {f}
      /\ incoming' = Append(incoming, f)
      /\ UNCHANGED <<futures, stack, finished, lost>>
  BY DEF Spawn
<1>2. HoldingOK /\ HoldingOK'
  BY HoldingTyped, PTL
<1>3. \A h \in Int : Holding'[h] = IF h = -1 THEN Append(Holding[-1], f)
                                              ELSE Holding[h]
  BY <1>1 DEF Holding, Held
<1>4. /\ f \notin ToSet(Holding[-1]) /\ IsInjective(Holding[-1])
      /\ Holding[-1] \in Seq(Futures) /\ Holding'[-1] = Append(Holding[-1], f)
  <2>1. -1 \in Int
    OBVIOUS
  <2>2. \A h \in Int : f \notin ToSet(Holding[h]) /\ IsInjective(Holding[h])
    BY <1>1, Zenon DEF HeldOnce
  <2>3. Holding[-1] \in Seq(Futures)
    BY <1>2, <2>1 DEF HoldingOK
  <2>4. Holding'[-1] = Append(Holding[-1], f)
    BY <1>3, <2>1
  <2> QED  BY <2>1, <2>2, <2>3, <2>4, Zenon
<1>5. /\ ToSet(Holding'[-1]) = ToSet(Holding[-1]) \cup {f}
      /\ IsInjective(Holding'[-1])
  BY <1>4, AppendElems
<1>6. Gathers(-1, {}, {f}, {})
  BY <1>1, <1>3, <1>5 DEF Gathers
<1> QED  BY <1>2, <1>6, GatherHolds

\* The step of frame `frame' by which a poll_all changes its vectors.
Stores(frame) ==
  Holding' = [Holding EXCEPT ![-1] = incoming', ![0] = futures',
                             ![Len(stack)] = Vector(frame)]

\* Joining with an empty vector changes nothing.
LEMMA JoinEmpty ==
  \A s \in Seq(Futures) : s \o <<>> = s /\ <<>> \o s = s
OBVIOUS

\* poll_all takes both queues into the empty vectors of its frame.
LEMMA TakeSafe ==
  ASSUME TypeOK, FramesOK, Take
  PROVE  /\ StackSafe' /\ stack # <<>> /\ Vector(Top) = <<>>
         /\ \E frame \in Frame : Stores(frame) /\ Vector(frame) = futures \o incoming
<1> DEFINE frame == [Top EXCEPT !.pc = "poll", !.todo = futures \o incoming,
                                !.completed = FALSE]
<1>1. /\ stack # <<>> /\ ~Top.busy /\ Top.pc = "take" /\ SetTop(frame)
      /\ done' = done
  BY DEF Take, At, wakeVars
<1>2. Top \in Frame /\ FrameOK(Top)
  BY <1>1, TopFacts
<1>3. futures \o incoming \in Seq(Futures)
  BY DEF TypeOK
<1>4. /\ frame \in Frame /\ frame.driver = Top.driver /\ frame.self = Top.self
      /\ frame.pc = "poll" /\ frame.busy = Top.busy
      /\ frame.todo = futures \o incoming /\ frame.kept = Top.kept
  BY <1>2, <1>3 DEF Frame, PCs
<1>5. Top.kept = <<>> /\ Top.todo = <<>>
  BY <1>1, <1>2 DEF FrameOK
<1> HIDE DEF frame
<1>6. FrameOK(frame)
  BY <1>1, <1>2, <1>4 DEF FrameOK
<1>7. Vector(Top) = <<>> /\ Vector(frame) = futures \o incoming
  BY <1>3, <1>4, <1>5, JoinEmpty DEF Vector
<1> QED  BY <1>1, <1>4, <1>6, <1>7, SetTopKeeps, SetTopHolds DEF Stores, StackSafe

\* poll_all stores what is pending and leaves its vectors empty.
LEMMA StoreBackSafe ==
  ASSUME TypeOK, FramesOK, StoreBack
  PROVE  /\ StackSafe' /\ stack # <<>> /\ Vector(Top) = Top.kept /\ Top \in Frame
         /\ \E frame \in Frame : Stores(frame) /\ Vector(frame) = <<>>
<1> DEFINE frame == [Top EXCEPT !.pc = "tick", !.kept = <<>>]
<1>1. /\ stack # <<>> /\ ~Top.busy /\ Top.todo = <<>> /\ SetTop(frame)
      /\ done' = done
  BY DEF StoreBack, At, wakeVars
<1>2. Top \in Frame /\ FrameOK(Top)
  BY <1>1, TopFacts
<1>3. /\ frame \in Frame /\ frame.driver = Top.driver /\ frame.self = Top.self
      /\ frame.pc = "tick" /\ frame.todo = <<>> /\ frame.kept = <<>>
  BY <1>1, <1>2 DEF Frame, PCs
<1> HIDE DEF frame
<1>4. FrameOK(frame)
  BY <1>2, <1>3 DEF FrameOK
<1>5. Top.kept \in Seq(Futures)
  BY <1>2 DEF Frame
<1>6. Vector(Top) = Top.kept /\ Vector(frame) = <<>>
  BY <1>1, <1>3, <1>5, JoinEmpty DEF Vector
<1> QED  BY <1>1, <1>2, <1>3, <1>4, <1>6, SetTopKeeps, SetTopHolds DEF Stores, StackSafe

\* A future that is done leaves the vectors of its frame.
LEMMA FinishSafe ==
  ASSUME TypeOK, FramesOK, Finish
  PROVE  /\ StackSafe' /\ stack # <<>> /\ Top \in Frame /\ Top.todo # <<>>
         /\ \E frame \in Frame : Stores(frame) /\ Vector(frame) = Top.kept \o Tail(Top.todo)
<1> DEFINE frame == [Top EXCEPT !.pc = "poll", !.busy = FALSE, !.todo = Tail(@),
                                !.completed = TRUE]
<1>1. /\ stack # <<>> /\ Top.busy /\ Top.pc = "pollReady" /\ SetTop(frame)
      /\ done' = done
  BY DEF Finish, AfterDone, Busy, wakeVars
<1>2. Top \in Frame /\ FrameOK(Top)
  BY <1>1, TopFacts
<1>3. Top.todo # <<>> /\ Top.todo \in Seq(Futures)
  BY <1>1, <1>2 DEF Frame, FrameOK
<1>4. Tail(Top.todo) \in Seq(Futures)
  BY <1>3
<1>5. /\ frame \in Frame /\ frame.driver = Top.driver /\ frame.self = Top.self
      /\ frame.pc = "poll" /\ ~frame.busy
      /\ frame.todo = Tail(Top.todo) /\ frame.kept = Top.kept
  BY <1>2, <1>4 DEF Frame, PCs
<1> HIDE DEF frame
<1>6. FrameOK(frame) /\ Vector(frame) = Top.kept \o Tail(Top.todo)
  BY <1>2, <1>5 DEF FrameOK, Vector
<1> QED  BY <1>1, <1>2, <1>3, <1>5, <1>6, SetTopKeeps, SetTopHolds DEF Stores, StackSafe

\* Every step keeps the call stack well formed.
LEMMA StackStep ==
  ASSUME TypeOK, FramesOK, [Next]_vars
  PROVE  StackSafe'
<1>1. CASE Quiet
  BY <1>1, InsideSafe, AwaitSafe, PromiseReturnSafe, CallSafe, FireSafe,
     LeaveSafe, ElsewhereSafe DEF Quiet
<1>2. CASE stack' = stack /\ done' = done
  BY <1>2 DEF StackSafe, FramesOK, FrameOK, TypeOK
<1>3. CASE Panic
  <2>1. stack' = <<>>
    BY <1>3 DEF Panic
  <2> QED  BY <2>1 DEF StackSafe, FramesOK
<1>4. ASSUME NEW f \in Futures, Spawn(f) PROVE StackSafe'
  BY <1>2, <1>4 DEF Spawn
<1>5. CASE UNCHANGED vars
  BY <1>2, <1>5 DEF vars, wakeVars
<1> QED  BY <1>1, <1>3, <1>4, <1>5, TakeSafe, StoreBackSafe, FinishSafe
         DEF Next, HostCode, Driver, Bun, Outside, Quiet, Inside

-----------------------------------------------------------------------------
(* Types.                                                                  *)

\* A waker called schedules tasks and wakes the loop, nothing else.
LEMMA WakeTyped ==
  ASSUME TypeOK, NEW x \in Awaiters, Wake(x)
  PROVE  woken' \in [Tasks -> BOOLEAN] /\ loopWake' \in BOOLEAN
BY DEF Wake, TypeOK

\* The waker of a frame wakes tasks and the loop.
LEMMA FrameWakerTyped ==
  ASSUME NEW frame \in Frame
  PROVE  FrameWaker(frame) \in SUBSET (Tasks \cup {Loop})
BY DEF FrameWaker

\* Every step keeps the type invariant; its stack is that of StackStep.
LEMMA TypeStep ==
  ASSUME TypeOK, FramesOK, [Next]_vars
  PROVE  TypeOK'
<1>0. stack' \in Seq(Frame)
  BY StackStep DEF StackSafe
<1>1. stack # <<>> => Top \in Frame /\ FrameOK(Top)
  BY TopFacts
<1> USE HostLoopAssumption, <1>0 DEF TypeOK
<1>2. ASSUME NEW f \in Futures, Spawn(f) PROVE TypeOK'
  <2>1. woken' \in [Tasks -> BOOLEAN]
    BY <1>2 DEF Spawn, DriveWoken
  <2> QED  BY <1>2, <2>1 DEF Spawn, jobVars, bunVars
<1>3. CASE Defer
  <2>1. jobs' \in 0..MaxJobs /\ deferred' \in Seq(Nat)
    BY <1>3 DEF Defer, Enqueue
  <2> QED  BY <1>3, <2>1 DEF Defer, execVars, bunVars, wakeVars
<1>4. ASSUME NEW e \in Events, Arm(e) PROVE TypeOK'
  BY <1>4 DEF Arm, execVars, jobVars, wakeVars
<1>5. ASSUME NEW x \in Awaiters, Settle(x) \/ Provide(x) PROVE TypeOK'
  <2>1. woken' \in [Tasks -> BOOLEAN] /\ loopWake' \in BOOLEAN
    BY <1>5, WakeTyped DEF Settle, Provide
  <2> QED  BY <1>5, <2>1 DEF Settle, Provide, execVars, jobVars
<1>6. CASE CallRun \/ CallJob \/ \E f \in Futures : CallFinish(f)
  <2>1. UNCHANGED <<execVars, jobVars, bunVars, wakeVars, panics>> /\ runs < MaxRuns
        /\ runs' = runs + 1
    BY <1>6 DEF CallRun, CallJob, CallFinish
  <2>2. runs' \in 0..MaxRuns
    BY <2>1
  <2> QED  BY <1>0, <2>1, <2>2 DEF execVars, jobVars, bunVars, wakeVars
<1>7. CASE Panic
  <2>1. ASSUME NEW i \in DOMAIN stack
        PROVE  ToSet(stack[i].todo) \cup ToSet(stack[i].kept) \subseteq Futures
    <3>1. stack[i].todo \in Seq(Futures) /\ stack[i].kept \in Seq(Futures)
      <4>1. stack[i] \in Frame
        OBVIOUS
      <4> HIDE DEF TypeOK
      <4> QED  BY <4>1 DEF Frame
    <3> QED  BY <3>1, ElemsTyped
  <2>2. lost' \subseteq Futures
    BY <1>7, <2>1 DEF Panic
  <2>3. done' \subseteq Tasks
    BY <1>7 DEF Panic
  <2>4. panics' \in 0..MaxPanics
    BY <1>7 DEF Panic
  <2> QED  BY <1>7, <2>2, <2>3, <2>4 DEF Panic, jobVars, bunVars
<1>8. ASSUME NEW t \in Tasks, PollTask(t) PROVE TypeOK'
  <2>1. driveWaker' \in DriveTasks \cup {NoTask} /\ woken' \in [Tasks -> BOOLEAN]
    BY <1>8 DEF PollTask, Register
  <2> QED  BY <1>8, <2>1 DEF PollTask, jobVars, bunVars
<1>9. ASSUME NEW t \in Tasks, Cancel(t) PROVE TypeOK'
  BY <1>9 DEF Cancel, execVars, jobVars, bunVars
<1>10. CASE RunJob \/ PendingJob
  <2>1. deferred' \in Seq(Nat) /\ ran' \in Nat
    <3>1. deferred # <<>> => Tail(deferred) \in Seq(Nat)
      BY DEF TypeOK
    <3>2. ran \in Nat /\ deferred \in Seq(Nat)
      BY DEF TypeOK
    <3>3. \/ deferred # <<>> /\ deferred' = Tail(deferred) /\ ran' = ran + 1
          \/ UNCHANGED <<deferred, ran>>
      BY <1>10 DEF RunJob, PendingJob
    <3>4. ran + 1 \in Nat
      BY <3>2
    <3> QED  BY <3>1, <3>2, <3>3, <3>4, Zenon
  <2> QED  BY <1>10, <2>1 DEF RunJob, PendingJob, execVars, bunVars, wakeVars
<1>11. CASE NoJob
  <2>1. waker' \in [Awaiters -> SUBSET (Tasks \cup {Loop})]
    BY <1>11, <1>1, FrameWakerTyped DEF NoJob, At
  <2> QED  BY <1>11, <2>1 DEF NoJob, execVars, jobVars, bunVars
<1>12. CASE PollNext
  <2>1. waker' \in [Awaiters -> SUBSET (Tasks \cup {Loop})]
    BY <1>1, <1>12, FrameWakerTyped DEF PollNext, At
  <2> QED  BY <1>12, <2>1 DEF PollNext, execVars, jobVars, bunVars
<1>13. CASE EndCallback \/ Await \/ EndTick \/ PromiseReturn \/ PromiseTick
             \/ Repoll \/ Block \/ Yield \/ ReturnCall
  BY <1>13 DEF EndCallback, Await, EndTick, PromiseReturn, PromiseTick, Repoll,
     Block, Yield, ReturnCall, execVars, jobVars, bunVars, wakeVars
<1>14. ASSUME NEW e \in Events, Fire(e) PROVE TypeOK'
  BY <1>14 DEF Fire, execVars, jobVars, wakeVars
<1>15. CASE EndWait
  BY <1>15 DEF EndWait, execVars, jobVars, wakeVars
<1>16. CASE Take
  BY <1>16 DEF Take, jobVars, bunVars, wakeVars
<1>17. CASE StoreBack
  <2>1. Top.kept \in Seq(Futures)
    BY <1>17, <1>1 DEF StoreBack, At, Frame
  <2>2. futures' \in Seq(Futures)
    BY <1>17, <2>1 DEF StoreBack
  <2> QED  BY <1>17, <2>2 DEF StoreBack, jobVars, bunVars, wakeVars
<1>18. CASE Finish
  <2>1. Top.todo \in Seq(Futures) /\ Top.todo # <<>>
    BY <1>18, <1>1 DEF Finish, Busy, Frame, FrameOK
  <2>2. Head(Top.todo) \in Futures
    BY <2>1
  <2> QED  BY <1>18, <2>2 DEF Finish, jobVars, bunVars, wakeVars
<1>19. CASE Park
  <2>1. woken' \in [Tasks -> BOOLEAN]
    BY <1>19, <1>1 DEF Park, Again, HasPending
  <2> QED  BY <1>19, <2>1 DEF Park, execVars, jobVars, bunVars
<1>20. CASE ReturnIdle
  BY <1>20 DEF ReturnIdle, execVars, jobVars, bunVars
<1>21. CASE ReturnMain
  <2>1. Top.self \in Tasks
    BY <1>21, <1>1 DEF ReturnMain, Busy, FrameOK, Tasks
  <2> QED  BY <1>21, <2>1 DEF ReturnMain, execVars, jobVars, bunVars
<1>22. CASE UNCHANGED vars
  BY <1>22 DEF vars, execVars, jobVars, bunVars, wakeVars
<1> QED  BY <1>2, <1>3, <1>4, <1>5, <1>6, <1>7, <1>8, <1>9, <1>10, <1>11, <1>12,
            <1>13, <1>14, <1>15, <1>16, <1>17, <1>18, <1>19, <1>20, <1>21, <1>22
         DEF Next, HostCode, Driver, Bun, Outside

-----------------------------------------------------------------------------
(* Every future is held exactly once.                                      *)

\* What the holders hold after a step that stores `frame' at the top.
LEMMA StoresFacts ==
  ASSUME HoldingOK, Len(stack) \in Nat \ {0}, NEW frame, Stores(frame)
  PROVE  /\ Holding'[-1] = incoming' /\ Holding'[0] = futures'
         /\ Holding'[Len(stack)] = Vector(frame)
         /\ \A h \in Int \ {-1, 0, Len(stack)} : Holding'[h] = Holding[h]
BY DEF Stores, HoldingOK

\* The queues and the vectors of the innermost frame, as holders.
LEMMA HolderFacts ==
  ASSUME TypeOK
  PROVE  /\ HoldingOK /\ Holding[-1] = incoming /\ Holding[0] = futures
         /\ stack # <<>> => /\ Len(stack) \in Nat \ {0}
                            /\ Holding[Len(stack)] = Vector(Top)
<1>1. HoldingOK /\ Holding[-1] = incoming /\ Holding[0] = futures
  BY HoldingTyped DEF Holding, Held
<1>2. ASSUME stack # <<>>
      PROVE  Len(stack) \in Nat \ {0} /\ Holding[Len(stack)] = Vector(Top)
  <2>1. /\ Len(stack) \in Nat \ {0} /\ Len(stack) \in DOMAIN stack
        /\ Top = stack[Len(stack)]
    BY <1>2, StackFacts DEF TypeOK
  <2> QED  BY <2>1 DEF Holding, Held
<1> QED  BY <1>1, <1>2

\* Executor::poll_all takes both queues: nothing is lost or taken twice.
LEMMA TakeHolds ==
  ASSUME TypeOK, FramesOK, HeldOnce, TypeOK', Take
  PROVE  HeldOnce'
<1> DEFINE n == Len(stack)
<1>1. HoldingOK /\ HoldingOK'
  BY HoldingTyped, PTL
<1>2. /\ Holding[-1] = incoming /\ Holding[0] = futures /\ n \in Nat \ {0}
      /\ Holding[n] = <<>>
  BY HolderFacts, TakeSafe
<1>3. /\ Holding'[-1] = <<>> /\ Holding'[0] = <<>>
      /\ Holding'[n] = Holding[0] \o Holding[-1]
      /\ \A h \in Int \ {-1, 0, n} : Holding'[h] = Holding[h]
  <2>1. PICK frame \in Frame : Stores(frame) /\ Vector(frame) = futures \o incoming
    BY TakeSafe
  <2>2. futures' = <<>> /\ incoming' = <<>>
    BY DEF Take
  <2> QED  BY <1>1, <1>2, <2>1, <2>2, StoresFacts
<1>4. /\ Holding[0] \in Seq(Futures) /\ Holding[-1] \in Seq(Futures)
      /\ IsInjective(Holding[0]) /\ IsInjective(Holding[-1])
      /\ ToSet(Holding[0]) \cap ToSet(Holding[-1]) = {}
  <2>1. -1 \in Int /\ 0 \in Int /\ 0 # -1
    OBVIOUS
  <2> QED  BY <2>1, <1>1, Zenon DEF HoldingOK, HeldOnce
<1>5. /\ ToSet(Holding'[n]) = ToSet(Holding[0]) \cup ToSet(Holding[-1])
      /\ IsInjective(Holding'[n])
  BY <1>3, <1>4, ConcatElems
<1>6. UNCHANGED <<spawned, finished, lost>>
  BY DEF Take
<1>7. Gathers(n, {-1, 0}, {}, {})
  BY <1>2, <1>3, <1>5, <1>6, EmptyVector DEF Gathers
<1> QED  BY <1>1, <1>7, GatherHolds

\* poll_all stores what is pending before what nested drivers stored.
LEMMA StoreBackHolds ==
  ASSUME TypeOK, FramesOK, HeldOnce, TypeOK', StoreBack
  PROVE  HeldOnce'
<1> DEFINE n == Len(stack)
<1>1. HoldingOK /\ HoldingOK'
  BY HoldingTyped, PTL
<1>2. /\ Holding[-1] = incoming /\ Holding[0] = futures /\ n \in Nat \ {0}
      /\ Holding[n] = Top.kept
  BY HolderFacts, StoreBackSafe
<1>3. /\ Holding'[-1] = Holding[-1] /\ Holding'[0] = Holding[n] \o Holding[0]
      /\ Holding'[n] = <<>>
      /\ \A h \in Int \ {-1, 0, n} : Holding'[h] = Holding[h]
  <2>1. PICK frame \in Frame : Stores(frame) /\ Vector(frame) = <<>>
    BY StoreBackSafe
  <2>2. futures' = Top.kept \o futures /\ incoming' = incoming
    BY DEF StoreBack
  <2> QED  BY <1>1, <1>2, <2>1, <2>2, StoresFacts
<1>4. /\ Holding[0] \in Seq(Futures) /\ Holding[n] \in Seq(Futures)
      /\ IsInjective(Holding[0]) /\ IsInjective(Holding[n])
      /\ ToSet(Holding[n]) \cap ToSet(Holding[0]) = {}
  <2>1. n \in Int /\ 0 \in Int /\ n # 0
    BY <1>2
  <2> QED  BY <2>1, <1>1, Zenon DEF HoldingOK, HeldOnce
<1>5. /\ ToSet(Holding'[0]) = ToSet(Holding[n]) \cup ToSet(Holding[0])
      /\ IsInjective(Holding'[0])
  BY <1>3, <1>4, ConcatElems
<1>6. UNCHANGED <<spawned, finished, lost>>
  BY DEF StoreBack
<1>7. Gathers(0, {n}, {}, {})
  BY <1>2, <1>3, <1>5, <1>6, EmptyVector DEF Gathers
<1> QED  BY <1>1, <1>7, GatherHolds

\* A future that completes was alive, and is held nowhere afterwards.
LEMMA FinishHolds ==
  ASSUME TypeOK, FramesOK, HeldOnce, TypeOK', Finish
  PROVE  /\ HeldOnce' /\ Head(Top.todo) \in spawned \ (finished \cup lost)
         /\ Head(Top.todo) \in Futures
<1> DEFINE n == Len(stack)
           f == Head(Top.todo)
<1>1. HoldingOK /\ HoldingOK'
  BY HoldingTyped, PTL
<1>2. /\ Holding[-1] = incoming /\ Holding[0] = futures /\ n \in Nat \ {0}
      /\ Holding[n] = Top.kept \o Top.todo
      /\ Top.kept \in Seq(Futures) /\ Top.todo \in Seq(Futures) /\ Top.todo # <<>>
  BY HolderFacts, FinishSafe DEF Vector, Frame
<1>3. /\ Holding'[-1] = Holding[-1] /\ Holding'[0] = Holding[0]
      /\ Holding'[n] = Top.kept \o Tail(Top.todo)
      /\ \A h \in Int \ {-1, 0, n} : Holding'[h] = Holding[h]
  <2>1. PICK frame \in Frame : Stores(frame) /\ Vector(frame) = Top.kept \o Tail(Top.todo)
    BY FinishSafe
  <2>2. futures' = futures /\ incoming' = incoming
    BY DEF Finish
  <2> QED  BY <1>1, <1>2, <2>1, <2>2, StoresFacts
<1>4. IsInjective(Top.kept \o Top.todo)
  <2>1. n \in Int
    BY <1>2
  <2> QED  BY <2>1, <1>2 DEF HeldOnce
<1>5. /\ IsInjective(Top.kept) /\ IsInjective(Top.todo)
      /\ ToSet(Top.kept) \cap ToSet(Top.todo) = {}
      /\ ToSet(Top.kept \o Top.todo) = ToSet(Top.kept) \cup ToSet(Top.todo)
  BY <1>2, <1>4, ConcatElems
<1>6. /\ f \in Futures /\ f \in ToSet(Top.todo) /\ Tail(Top.todo) \in Seq(Futures)
      /\ ToSet(Top.todo) = {f} \cup ToSet(Tail(Top.todo))
      /\ IsInjective(Tail(Top.todo)) /\ f \notin ToSet(Tail(Top.todo))
  BY <1>2, <1>5, TailElems
<1>7. /\ IsInjective(Holding'[n])
      /\ ToSet(Holding'[n]) = ToSet(Top.kept) \cup ToSet(Tail(Top.todo))
  <2>1. ToSet(Top.kept) \cap ToSet(Tail(Top.todo)) = {}
    BY <1>5, <1>6
  <2>2. /\ IsInjective(Top.kept \o Tail(Top.todo))
        /\ ToSet(Top.kept \o Tail(Top.todo)) = ToSet(Top.kept) \cup ToSet(Tail(Top.todo))
    BY <1>2, <1>5, <1>6, <2>1, ConcatElems
  <2> QED  BY <1>3, <2>2
<1>8. ToSet(Holding'[n]) = ToSet(Holding[n]) \ {f} /\ f \in ToSet(Holding[n])
  BY <1>2, <1>5, <1>6, <1>7
<1>9. finished' = finished \cup {f} /\ UNCHANGED <<spawned, lost>>
  BY DEF Finish
<1> HIDE DEF f
<1>10. Gathers(n, {}, {}, {f})
  <2>1. \A h \in Int \ {n} : Holding'[h] = Holding[h]
    BY <1>2, <1>3
  <2>2. n \in Int
    BY <1>2
  <2> HIDE DEF n
  <2> QED  BY <1>7, <1>8, <1>9, <2>1, <2>2 DEF Gathers
<1>11. f \in spawned \ (finished \cup lost)
  <2>1. n \in Int
    BY <1>2
  <2> QED  BY <1>6, <1>8, <2>1, Zenon DEF HeldOnce
<1> QED  BY <1>1, <1>6, <1>10, <1>11, GatherHolds DEF f

\* A panic drops what the frames hold, and nothing else.
LEMMA PanicHolds ==
  ASSUME TypeOK, FramesOK, HeldOnce, Panic
  PROVE  /\ HeldOnce' /\ finished' = finished /\ spawned' = spawned
         /\ \E S \in SUBSET (spawned \ (finished \cup lost)) : lost' = lost \cup S
<1> DEFINE Unwound == UNION {ToSet(stack[i].todo) \cup ToSet(stack[i].kept) :
                             i \in DOMAIN stack}
<1>1. /\ lost' = lost \cup Unwound /\ stack' = <<>>
      /\ UNCHANGED <<futures, incoming, spawned, finished>>
  BY DEF Panic
<1>2. HoldingOK /\ Holding[-1] = incoming /\ Holding[0] = futures
  BY HolderFacts
<1>3. ASSUME NEW i \in DOMAIN stack
      PROVE  /\ i \in Int \ {-1, 0}
             /\ ToSet(Holding[i]) = ToSet(stack[i].todo) \cup ToSet(stack[i].kept)
  <2>1. i \in Int \ {-1, 0} /\ stack[i] \in Frame
    BY DEF TypeOK
  <2>2. stack[i].kept \in Seq(Futures) /\ stack[i].todo \in Seq(Futures)
    BY <2>1 DEF Frame
  <2>3. Holding[i] = stack[i].kept \o stack[i].todo
    BY <2>1 DEF Holding, Held, Vector
  <2> QED  BY <2>1, <2>2, <2>3, ConcatElems
<1>4. \A h \in Int \ {-1, 0} : h \notin DOMAIN stack => Holding[h] = <<>>
  BY DEF Holding, Held
<1>5. /\ Holding'[-1] = Holding[-1] /\ Holding'[0] = Holding[0]
      /\ \A h \in Int \ {-1, 0} : Holding'[h] = <<>>
  BY <1>1, <1>2 DEF Holding, Held
<1>6. \A f : f \in Unwound <=> \E h \in Int \ {-1, 0} : f \in ToSet(Holding[h])
  <2>1. \A f : f \in Unwound <=> \E i \in DOMAIN stack : f \in ToSet(Holding[i])
    BY <1>3
  <2> HIDE DEF Unwound
  <2> QED  BY <2>1, <1>3, <1>4, EmptyVector
<1> HIDE DEF Unwound
<1>7. ASSUME NEW f \in Unwound
      PROVE  f \in spawned \ (finished \cup lost) /\ f \notin ToSet(Holding[-1])
             /\ f \notin ToSet(Holding[0])
  <2>1. PICK h \in Int \ {-1, 0} : f \in ToSet(Holding[h])
    BY <1>6
  <2>2. f \in Futures
    BY <2>1, <1>2, ElemsTyped DEF HoldingOK
  <2>3. -1 \in Int /\ 0 \in Int
    OBVIOUS
  <2> QED  BY <2>1, <2>2, <2>3, Zenon DEF HeldOnce
<1>8. \A h \in Int : IsInjective(Holding'[h])
  <2>1. -1 \in Int /\ 0 \in Int
    OBVIOUS
  <2> QED  BY <2>1, <1>5, EmptyVector, Zenon DEF HeldOnce
<1>9. \A h \in Int : ToSet(Holding'[h]) \subseteq ToSet(Holding[h])
  BY <1>5, EmptyVector
<1>10. \A g, h \in Int : g # h => ToSet(Holding'[g]) \cap ToSet(Holding'[h]) = {}
  BY <1>9 DEF HeldOnce
<1>11. ASSUME NEW f \in Futures
       PROVE  (\E h \in Int : f \in ToSet(Holding'[h]))
                 <=> f \in spawned' \ (finished' \cup lost')
  <2>1. ASSUME NEW h \in Int, f \in ToSet(Holding'[h])
        PROVE  f \in spawned' \ (finished' \cup lost')
    <3>1. h \in {-1, 0} /\ f \in ToSet(Holding[h])
      BY <2>1, <1>5, EmptyVector
    <3>2. f \in spawned \ (finished \cup lost)
      BY <3>1, <2>1, Zenon DEF HeldOnce
    <3>3. f \notin Unwound
      BY <3>1, <1>7
    <3> QED  BY <3>2, <3>3, <1>1
  <2>2. ASSUME f \in spawned' \ (finished' \cup lost')
        PROVE  \E h \in Int : f \in ToSet(Holding'[h])
    <3>1. f \in spawned \ (finished \cup lost) /\ f \notin Unwound
      BY <2>2, <1>1
    <3>2. PICK h \in Int : f \in ToSet(Holding[h])
      BY <3>1, Zenon DEF HeldOnce
    <3>3. h \in {-1, 0}
      BY <3>1, <3>2, <1>6
    <3> QED  BY <3>2, <3>3, <1>5
  <2> QED  BY <2>1, <2>2
<1>12. (finished \cup lost \subseteq spawned)'
  BY <1>1, <1>7 DEF HeldOnce
<1> QED  BY <1>1, <1>7, <1>8, <1>10, <1>11, <1>12 DEF HeldOnce

\* Every step keeps each live future in exactly one place.
LEMMA HeldStep ==
  ASSUME TypeOK, FramesOK, HeldOnce, [Next]_vars
  PROVE  HeldOnce'
<1>1. TypeOK'
  BY TypeStep
<1>2. CASE Quiet
  BY <1>2, QuietStep
<1>3. CASE UNCHANGED vars
  <2>1. Holding' = Holding
    BY <1>3, SameVectors DEF vars, execVars
  <2> QED  BY <1>3, <2>1, SameHeld DEF vars, execVars
<1> QED  BY <1>1, <1>2, <1>3, SpawnHolds, TakeHolds, StoreBackHolds, FinishHolds,
            PanicHolds
         DEF Next, HostCode, Driver, Bun, Outside, Quiet, Inside

\* The queue of deferred calls.
LEMMA JobsStep ==
  ASSUME TypeOK, JobsCounted, [Next]_vars
  PROVE  JobsCounted'
<1>1. CASE UNCHANGED jobVars
  BY <1>1 DEF jobVars, JobsCounted, JobsInOrder
<1>2. CASE Defer
  <2>1. /\ jobs' = jobs + 1 /\ ran' = ran /\ deferred' = Append(deferred, jobs + 1)
        /\ jobs \in Nat /\ ran \in 0..jobs
        /\ deferred = [i \in 1..(jobs - ran) |-> ran + i]
    BY <1>2 DEF Defer, Enqueue, TypeOK, JobsCounted, JobsInOrder
  <2>2. deferred' = [i \in 1..(jobs + 1 - ran) |-> ran + i]
    BY <2>1
  <2> QED  BY <2>1, <2>2 DEF JobsCounted, JobsInOrder
<1>3. CASE ran' = ran + 1 /\ deferred # <<>> /\ deferred' = Tail(deferred) /\ jobs' = jobs
  <2>1. jobs' = jobs /\ ran' = ran + 1 /\ deferred' = Tail(deferred)
    BY <1>3
  <2>2. deferred # <<>>
    BY <1>3
  <2>3. /\ jobs \in Nat /\ ran \in 0..jobs /\ deferred \in Seq(Nat)
        /\ deferred = [i \in 1..(jobs - ran) |-> ran + i]
    BY DEF TypeOK, JobsCounted, JobsInOrder
  <2>4. Len(deferred) = jobs - ran
    BY <2>3
  <2>5. /\ ran + 1 <= jobs /\ Tail(deferred) \in Seq(Nat)
        /\ DOMAIN Tail(deferred) = 1..(jobs - (ran + 1))
        /\ \A i \in 1..(jobs - (ran + 1)) :
             Tail(deferred)[i] = deferred[i + 1] /\ i + 1 \in 1..(jobs - ran)
    BY <2>2, <2>3, <2>4
  <2>6. \A i \in 1..(jobs - (ran + 1)) : Tail(deferred)[i] = ran + 1 + i
    BY <2>3, <2>5
  <2>7. Tail(deferred) = [i \in 1..(jobs - (ran + 1)) |-> ran + 1 + i]
    <3>1. Tail(deferred) = [i \in DOMAIN Tail(deferred) |-> Tail(deferred)[i]]
      BY <2>5, SeqIsFunction, Zenon
    <3> QED  BY <3>1, <2>5, <2>6
  <2> QED  BY <2>1, <2>3, <2>5, <2>7 DEF JobsCounted, JobsInOrder
<1>4. CASE RunJob \/ PendingJob
  BY <1>1, <1>3, <1>4 DEF RunJob, PendingJob, jobVars
<1>5. UNCHANGED jobVars \/ Defer \/ RunJob \/ PendingJob
  BY DEF Next, HostCode, Driver, Bun, Outside, Spawn, Arm, Settle, CallRun, CallJob,
     CallFinish, Panic, Provide, PollTask, Cancel, NoJob, EndCallback, Take,
     PollNext, StoreBack, Await, Finish, Fire, EndTick, EndWait, PromiseReturn,
     PromiseTick, Repoll, Block, Yield, Park, ReturnIdle, ReturnCall, ReturnMain,
     vars
<1> QED  BY <1>1, <1>2, <1>4, <1>5

\* The inductive invariant holds initially, ...
LEMMA InitOK ==
  Init => IInv
<1> SUFFICES ASSUME Init PROVE IInv
  OBVIOUS
<1>1. TypeOK
  <2>1. waker \in [Awaiters -> SUBSET (Tasks \cup {Loop})]
    BY DEF Init
  <2>2. woken \in [Tasks -> BOOLEAN]
    BY DEF Init
  <2>3. jobs \in 0..MaxJobs /\ ran \in Nat /\ runs \in 0..MaxRuns /\ panics \in 0..MaxPanics
    BY HostLoopAssumption DEF Init
  <2>4. /\ futures \in Seq(Futures) /\ incoming \in Seq(Futures)
        /\ deferred \in Seq(Nat) /\ stack \in Seq(Frame)
    BY DEF Init
  <2>5. /\ driveWaker \in DriveTasks \cup {NoTask} /\ loopWake \in BOOLEAN
        /\ spawned \subseteq Futures /\ finished \subseteq Futures
        /\ lost \subseteq Futures /\ armed \subseteq Events /\ fired \subseteq Events
        /\ due \subseteq Awaiters /\ done \subseteq Tasks
    BY DEF Init
  <2> QED  BY <2>1, <2>2, <2>3, <2>4, <2>5, Zenon DEF TypeOK
<1>2. FramesOK
  BY DEF Init, FramesOK
<1>3. \A h \in Int : Holding[h] = <<>>
  BY DEF Init, Holding, Held
<1>4. HeldOnce
  BY <1>3, EmptyVector DEF HeldOnce, Init
<1>5. JobsCounted
  BY DEF Init, JobsCounted, JobsInOrder
<1> QED  BY <1>1, <1>2, <1>4, <1>5 DEF IInv

\* ... every step keeps it, ...
LEMMA Inductive ==
  IInv /\ [Next]_vars => IInv'
BY StackStep, TypeStep, HeldStep, JobsStep DEF IInv, StackSafe

\* ... and so it always holds.
LEMMA Invariance ==
  Spec => []IInv
BY InitOK, Inductive, PTL DEF Spec

-----------------------------------------------------------------------------
(* The theorems.                                                           *)

\* Every variable keeps its type: the frames of the call stack stay well
\* formed however host code nests drivers, polls and panics.
THEOREM TypeCorrect ==
  Spec => []TypeOK
<1>1. IInv => TypeOK
  BY DEF IInv
<1> QED  BY <1>1, Invariance, PTL

\* async_rt.rs:56-73: re-entrant polls of the executor neither lose nor
\* duplicate a future, for any number of futures, tasks and nested drivers.
THEOREM HeldExactlyOnce ==
  Spec => []EachHeldOnce
<1>1. IInv => EachHeldOnce
  BY HeldOnceImplies DEF IInv
<1> QED  BY <1>1, Invariance, PTL

\* runtime.rs:748-761: deferred calls start in the order they were queued.
THEOREM JobsRunInOrder ==
  Spec => []JobsInOrder
<1>1. IInv => JobsInOrder
  BY DEF IInv, JobsCounted
<1> QED  BY <1>1, Invariance, PTL

\* When a driver that nobody's poll contains reports idle, all futures are gone
\* and all deferred calls were made.
LEMMA IdleStep ==
  ASSUME IInv, Next, ReturnsIdle
  PROVE  spawned \subseteq finished \cup lost /\ ran = jobs /\ armed = {}
<1>1. /\ Len(stack) = 1 /\ stack' = <<>> /\ panics' = panics /\ stack # <<>>
      /\ Top.driver = "run" \/ (Top.driver = "idle" /\ Top.self \in done')
  BY DEF ReturnsIdle
<1>2. /\ Top \in Frame /\ FrameOK(Top) /\ Top = stack[1] /\ DOMAIN stack = {1}
      /\ Top.self \notin done
  <2>1. Top = stack[1] /\ DOMAIN stack = {1} /\ Top \in Frame
    BY <1>1, StackFacts DEF IInv, TypeOK
  <2> QED  BY <2>1 DEF IInv, FramesOK
<1>3. CASE ReturnIdle
  <2>1. /\ futures = <<>> /\ incoming = <<>> /\ deferred = <<>> /\ armed = {}
        /\ Top.pc = "decide"
    BY <1>3 DEF ReturnIdle, LoopAlive, HasPending, Deciding, At
  <2>2. Vector(Top) = <<>>
    BY <1>2, <2>1 DEF FrameOK, Vector
  <2>3. \A h \in Int : Holding[h] = <<>>
    BY <1>2, <2>1, <2>2 DEF Holding, Held
  <2>4. spawned \subseteq finished \cup lost
    BY <2>3, EmptyVector DEF IInv, HeldOnce, TypeOK
  <2>5. ran = jobs
    <3>1. deferred = [i \in 1..(jobs - ran) |-> ran + i] /\ jobs \in Nat /\ ran \in 0..jobs
      BY DEF IInv, TypeOK, JobsCounted, JobsInOrder
    <3>2. 1..(jobs - ran) = {}
      BY <3>1, <2>1
    <3> QED  BY <3>1, <3>2
  <2> QED  BY <2>1, <2>4, <2>5
<1>4. ~Panic
  BY <1>1 DEF Panic, IInv, TypeOK
<1>5. ~Park
  BY <1>1, <1>2 DEF Park, Deciding
<1>6. ~(ReturnCall \/ ReturnMain)
  BY <1>1, <1>2 DEF ReturnCall, ReturnMain, Deciding, Busy, FrameOK
<1>7. ASSUME NEW frame, SetTop(frame) PROVE FALSE
  <2>1. DOMAIN stack' = {1}
    BY <1>2, <1>7 DEF SetTop
  <2> QED  BY <2>1, <1>1
<1>8. ASSUME NEW frame, stack' = Append(stack, frame) PROVE FALSE
  <2>1. Len(stack') = 2
    <3>1. stack \in Seq(Frame)
      BY DEF IInv, TypeOK
    <3> QED  BY <1>1, <1>8, <3>1
  <2> QED  BY <2>1, <1>1
<1>9. stack' # stack
  BY <1>1
<1>10. ~(PromiseReturn \/ \E t \in Tasks : PollTask(t))
  BY <1>1 DEF PromiseReturn, PollTask
<1>11. ~(Inside \/ Await \/ Take \/ StoreBack \/ Finish \/ \E e \in Events : Fire(e))
  BY <1>7, <1>8 DEF Inside, RunJob, NoJob, PendingJob, EndCallback, PollNext,
     EndTick, EndWait, PromiseTick, Repoll, Block, Yield, Await, Take, StoreBack,
     Finish, Fire, Goto, Call
<1>12. ~(HostCode \/ \E x \in Awaiters : Provide(x))
  BY <1>4, <1>8, <1>9 DEF HostCode, Spawn, Defer, Arm, Settle, CallRun,
     CallJob, CallFinish, Provide
<1>13. ~\E t \in Tasks : Cancel(t)
  BY <1>9 DEF Cancel
<1> QED  BY <1>3, <1>5, <1>6, <1>10, <1>11, <1>12, <1>13
         DEF Next, Driver, Bun, Outside, Inside

\* The promise of Ctx::run_until_idle and AsyncRuntime::idle: when one that no
\* driver contains finishes, every future spawned is gone, no deferred call is
\* left, and nothing keeps Bun's loop alive.
THEOREM IdleIsDone ==
  Spec => IdleMeansDone
<1>1. IInv /\ [Next]_vars =>
        [ReturnsIdle => spawned \subseteq finished \cup lost /\ ran = jobs
                          /\ armed = {}]_vars
  BY IdleStep
<1> QED  BY <1>1, Invariance, PTL DEF Spec, IdleMeansDone

-----------------------------------------------------------------------------
(* The refinement.                                                         *)

\* A step of the drivers is a step of the pool of work, or none.
LEMMA PoolStep ==
  ASSUME IInv, IInv', [Next]_vars
  PROVE  [WorkPool!PoolNext]_WorkPool!poolVars
<1>1. Pool = spawned \ (finished \cup lost)
  BY HeldOnceImplies DEF IInv, EachHeldOnce
<1>2. Pool' = spawned' \ (finished' \cup lost')
  <2>1. EachHeldOnce'
    BY HeldOnceImplies, PTL DEF IInv
  <2> QED  BY <2>1 DEF EachHeldOnce
<1>3. finished \cup lost \subseteq spawned
  BY DEF IInv, HeldOnce
<1> USE DEF WorkPool!PoolNext, WorkPool!poolVars
<1>4. CASE UNCHANGED <<spawned, finished, lost, deferred, jobs>>
  BY <1>1, <1>2, <1>4
<1>5. ASSUME NEW f \in Futures, Spawn(f) PROVE WorkPool!Submit(f)
  BY <1>1, <1>2, <1>3, <1>5 DEF Spawn, jobVars, WorkPool!Submit
<1>6. CASE Finish
  <2>1. WorkPool!Complete(Head(Top.todo)) /\ Head(Top.todo) \in Futures
    BY <1>1, <1>2, <1>6, FinishHolds DEF IInv, Finish, jobVars, WorkPool!Complete
  <2> QED  BY <2>1
<1>7. CASE Panic
  <2>1. PICK S \in SUBSET (spawned \ (finished \cup lost)) : lost' = lost \cup S
    BY <1>7, PanicHolds DEF IInv
  <2>2. finished' = finished /\ spawned' = spawned /\ UNCHANGED jobVars
    BY <1>7 DEF Panic
  <2>3. WorkPool!Unwind(S) /\ S \in SUBSET Futures
    BY <1>1, <1>2, <2>1, <2>2 DEF WorkPool!Unwind, jobVars, IInv, TypeOK
  <2> QED  BY <2>3
<1>8. CASE Defer
  <2>1. WorkPool!Issue
    BY <1>1, <1>2, <1>8 DEF Defer, Enqueue, execVars, WorkPool!Issue
  <2> QED  BY <2>1
<1>9. CASE RunJob \/ PendingJob
  <2>1. CASE deferred # <<>>
    <3>1. WorkPool!RunFirst
      BY <1>1, <1>2, <1>9, <2>1 DEF RunJob, PendingJob, execVars, WorkPool!RunFirst
    <3> QED  BY <3>1
  <2>2. CASE deferred = <<>>
    BY <1>4, <1>9, <2>2 DEF RunJob, PendingJob, execVars
  <2> QED  BY <2>1, <2>2
<1>10. \/ UNCHANGED <<spawned, finished, lost, deferred, jobs>>
       \/ \E f \in Futures : Spawn(f)
       \/ Finish \/ Panic \/ Defer \/ RunJob \/ PendingJob
  BY DEF Next, HostCode, Driver, Bun, Outside, Arm, Settle, CallRun, CallJob,
     CallFinish, Provide, PollTask, Cancel, NoJob, EndCallback, Take, PollNext,
     StoreBack, Await, Fire, EndTick, EndWait, PromiseReturn, PromiseTick, Repoll,
     Block, Yield, Park, ReturnIdle, ReturnCall, ReturnMain, vars, execVars, jobVars
<1> QED  BY <1>4, <1>5, <1>6, <1>7, <1>8, <1>9, <1>10

\* The executor and the queue of deferred calls, under any mix of the seven
\* drivers, implement WorkPool.
THEOREM PoolImplemented ==
  Spec => ImplementsWorkPool
<1>1. Init => WorkPool!PoolInit
  <2> SUFFICES ASSUME Init PROVE WorkPool!PoolInit
    OBVIOUS
  <2>1. IInv
    BY InitOK
  <2>2. Pool = spawned \ (finished \cup lost)
    BY <2>1, HeldOnceImplies DEF IInv, EachHeldOnce
  <2> QED  BY <2>2 DEF Init, WorkPool!PoolInit
<1>2. IInv /\ IInv' /\ [Next]_vars => [WorkPool!PoolNext]_WorkPool!poolVars
  BY PoolStep
<1> QED  BY <1>1, <1>2, Invariance, PTL DEF Spec, ImplementsWorkPool, WorkPool!PoolSpec

-----------------------------------------------------------------------------
(* The wakers: no wakeup of an outer task is lost however polls, nested     *)
(* drivers, panics and wakes interleave, and the task of drive() never      *)
(* sleeps over an executor that is not empty.                               *)

\* The outermost frame of a task is of the driver that the task runs.
FirstOK ==
  stack # <<>> /\ stack[1].self \in Tasks => stack[1].driver = Kind(stack[1].self)

\* A PromiseFuture is polled by what awaits a promise.
PromisePCs == {"check", "tick", "decide", "wait", "waited"}
PromisesOK ==
  \A i \in DOMAIN stack : stack[i].driver = "promise" =>
     /\ stack[i].pc \in PromisePCs
     /\ i > 1 => Polled(stack[i - 1]) \in OnPromise

\* The body of async_with is polled by its own task only, and what was never
\* spawned by none.
WakersOK ==
  /\ \A x \in WithTasks : waker[x] \cap Tasks \subseteq {x}
  /\ \A f \in Futures \ spawned : waker[f] = {}

\* The poll of a task that is in this frame has yet to reach x.
Ahead(x, frame) ==
  \/ frame.pc \in {"deferred", "main", "mainReady"}
  \/ x \in Futures /\ frame.pc = "take"
  \/ x \in Futures /\ frame.pc \in {"poll", "pollReady"} /\ x \in ToSet(frame.todo)

\* NoLostWakeup does not say that the poll which is going on still reaches x:
\* this does, and it is inductive.
Wakeups ==
  \A x \in due \ OnPromise : \A t \in (waker[x] \cap Tasks) \ done :
    \/ x \in finished \cup lost \/ woken[t]
    \/ stack # <<>> /\ stack[1].self = t /\ Ahead(x, stack[1])

\* DriveWatchesExecutor, also while other tasks are polled and the executor's
\* futures are in their frames.
Live == spawned \ (finished \cup lost)
DriveWakes ==
  \A t \in DriveTasks \ done :
    /\ driveWaker = t /\ Live # {}
    /\ stack # <<>> => stack[1].self # t
    => woken[t]

WakeInv == IInv /\ FirstOK /\ PromisesOK /\ WakersOK /\ Wakeups /\ DriveWakes

-----------------------------------------------------------------------------
(* What a step does to the frames.                                         *)

\* The steps of the innermost driver that stay in its frame.
OwnStep ==
  \/ Inside \/ Take \/ StoreBack \/ Finish
  \/ \E e \in Events : Fire(e)
  \/ Await /\ Polled(Top) \notin OnPromise

\* The steps that leave the call stack as it is.
StackSame ==
  \/ \E f \in Futures : Spawn(f)
  \/ Defer
  \/ \E e \in Events : Arm(e)
  \/ \E x \in Awaiters : Settle(x) \/ Provide(x)
  \/ \E t \in Tasks : Cancel(t)
  \/ UNCHANGED vars

Push ==
  \/ CallRun \/ CallJob \/ \E f \in Futures : CallFinish(f)
  \/ Await /\ Polled(Top) \in OnPromise
Pop == Park \/ ReturnIdle \/ ReturnCall \/ ReturnMain

\* These are all the steps.
LEMMA StepKinds ==
  ASSUME [Next]_vars
  PROVE  \/ OwnStep \/ StackSame \/ Push \/ Pop \/ PromiseReturn \/ Panic
         \/ \E t \in Tasks : PollTask(t)
BY DEF Next, HostCode, Driver, Bun, Outside, OwnStep, Inside, StackSame, Push, Pop

\* What the step of a driver within its frame leaves in that frame.
Advances(frame) ==
  /\ SetTop(frame) /\ frame.self = Top.self /\ frame.driver = Top.driver
  /\ Top.driver = "promise" /\ Top.pc \in PromisePCs => frame.pc \in PromisePCs

\* What the poll of the task was to reach, is not done with and is not woken
\* for, it is still to reach.
StillAhead(frame) ==
  \A x \in due \ OnPromise :
    /\ x \in WithTasks => x = Top.self
    /\ x \in Futures => x \in Live'
    /\ Ahead(x, Top)
    => Ahead(x, frame)

\* A task polls its own driver.
OfTask == Top.self \in Tasks /\ Top.driver = Kind(Top.self) /\ Len(stack) = 1

\* Most of a driver's steps move its program counter only.
LEMMA MoveAdvances ==
  ASSUME TypeOK, FramesOK, Inside
  PROVE  /\ stack # <<>>
         /\ \E frame : Advances(frame) /\ (OfTask => StillAhead(frame))
<1>1. stack # <<>> /\ Top \in Frame /\ FrameOK(Top)
  <2>1. stack # <<>>
    BY DEF Inside, RunJob, NoJob, PendingJob, EndCallback, PollNext, EndTick,
       EndWait, PromiseTick, Repoll, Block, Yield, InPromise, Deciding, At, Busy
  <2> QED  BY <2>1, TopFacts
<1>2. ASSUME NEW pc, NEW busy, SetTop([Top EXCEPT !.pc = pc, !.busy = busy]),
             Top.driver = "promise" /\ Top.pc \in PromisePCs => pc \in PromisePCs,
             \/ Top.pc \notin {"deferred", "main", "mainReady", "take", "poll", "pollReady"}
             \/ pc = Top.pc
             \/ pc = "main"
             \/ OfTask => pc = "take" /\ Top.self \notin WithTasks
      PROVE  \E frame : Advances(frame) /\ (OfTask => StillAhead(frame))
  <2> DEFINE frame == [Top EXCEPT !.pc = pc, !.busy = busy]
  <2>1. /\ frame.self = Top.self /\ frame.driver = Top.driver
        /\ frame.pc = pc /\ frame.todo = Top.todo
    BY <1>1 DEF Frame
  <2>2. SetTop(frame)
    BY <1>2
  <2> HIDE DEF frame
  <2>3. Advances(frame)
    BY <1>2, <2>1, <2>2 DEF Advances
  <2>4. ASSUME OfTask, NEW x \in due \ OnPromise,
               x \in WithTasks => x = Top.self, Ahead(x, Top)
        PROVE  Ahead(x, frame)
    <3>1. x \in WithTasks \cup Futures
      BY DEF TypeOK, Awaiters
    <3> QED  BY <1>2, <2>1, <2>4, <3>1 DEF Ahead
  <2> QED  BY <2>3, <2>4 DEF StillAhead
<1> USE DEF At, Busy, Goto, Call, Start, Resume, AfterJobs, InPromise, Deciding,
            PromisePCs, Frame
<1>3. CASE RunJob \/ EndCallback \/ PollNext
  <2>1. PICK busy \in BOOLEAN : SetTop([Top EXCEPT !.pc = Top.pc, !.busy = busy])
    BY <1>1, <1>3 DEF RunJob, EndCallback, PollNext
  <2> QED  BY <1>1, <1>2, <2>1
<1>4. CASE NoJob
  <2>1. Top.pc = "deferred" /\ ~Top.busy
    BY <1>4 DEF NoJob
  <2>2. CASE Top.driver = "with"
    <3>1. SetTop([Top EXCEPT !.pc = "main", !.busy = TRUE])
      BY <1>4, <2>2 DEF NoJob
    <3> QED  BY <1>1, <1>2, <2>1, <3>1
  <2>3. CASE Top.driver # "with"
    <3>1. SetTop([Top EXCEPT !.pc = AfterJobs(Top), !.busy = FALSE])
      BY <1>1, <1>4, <2>1, <2>3 DEF NoJob
    <3>2. OfTask => AfterJobs(Top) = "take" /\ Top.self \notin WithTasks
      BY <2>3 DEF OfTask, Kind
    <3> QED  BY <1>1, <1>2, <2>1, <3>1, <3>2
  <2> QED  BY <2>2, <2>3
<1>5. CASE PendingJob \/ EndTick \/ EndWait \/ PromiseTick \/ Repoll \/ Block \/ Yield
  <2>1. Top.pc \in {"job", "tick", "waited", "wait", "check", "decide"}
    BY <1>5 DEF PendingJob, EndTick, EndWait, PromiseTick, Repoll, Block, Yield
  <2>2. CASE PendingJob
    <3>1. \/ SetTop([Top EXCEPT !.pc = "decide", !.busy = TRUE])
          \/ SetTop([Top EXCEPT !.pc = "tick", !.busy = FALSE])
      BY <1>1, <2>2 DEF PendingJob
    <3> QED  BY <1>1, <1>2, <2>1, <3>1
  <2>3. CASE EndTick \/ PromiseTick \/ Block
    <3>1. PICK pc \in PromisePCs : SetTop([Top EXCEPT !.pc = pc, !.busy = FALSE])
      BY <1>1, <2>3 DEF EndTick, PromiseTick, Block
    <3> QED  BY <1>1, <1>2, <2>1, <3>1
  <2>4. CASE EndWait \/ Repoll \/ Yield
    <3>1. \/ /\ SetTop([Top EXCEPT !.pc = Resume(Top.driver), !.busy = FALSE])
             /\ EndWait \/ Yield
          \/ /\ SetTop([Top EXCEPT !.pc = "deferred", !.busy = FALSE])
             /\ Top.driver # "promise"
      BY <1>1, <2>4 DEF EndWait, Repoll, Yield
    <3>2. Top.driver = "promise" => Resume(Top.driver) \in PromisePCs
      OBVIOUS
    <3> QED  BY <1>1, <1>2, <2>1, <3>1, <3>2
  <2> QED  BY <1>5, <2>2, <2>3, <2>4
<1> QED  BY <1>1, <1>3, <1>4, <1>5 DEF Inside

\* Executor::poll_all takes what the poll is to reach, and polls it in turn.
LEMMA PollAdvances ==
  ASSUME IInv, Take \/ StoreBack \/ Finish
  PROVE  /\ stack # <<>>
         /\ \E frame : Advances(frame) /\ (OfTask => StillAhead(frame))
<1>1. stack # <<>> /\ Top \in Frame /\ FrameOK(Top)
  <2>1. stack # <<>>
    BY DEF Take, StoreBack, Finish, At, Busy
  <2> QED  BY <2>1, TopFacts DEF IInv
<1>2. Top.todo \in Seq(Futures) /\ Top.kept \in Seq(Futures)
  BY <1>1 DEF Frame
<1>3. CASE Take
  <2> DEFINE frame == [Top EXCEPT !.pc = "poll", !.todo = futures \o incoming,
                                  !.completed = FALSE]
  <2>1. /\ SetTop(frame) /\ Top.pc = "take" /\ UNCHANGED <<spawned, finished, lost>>
    BY <1>3 DEF Take, At
  <2>2. /\ frame.self = Top.self /\ frame.driver = Top.driver /\ frame.pc = "poll"
        /\ frame.todo = futures \o incoming
    BY <1>1 DEF Frame
  <2> HIDE DEF frame
  <2>3. Advances(frame)
    BY <2>1, <2>2 DEF Advances, PromisePCs
  <2>4. ASSUME OfTask, NEW x \in Futures, x \in Live'
        PROVE  x \in ToSet(frame.todo)
    <3>1. x \in Pool
      BY <2>1, <2>4, HeldOnceImplies DEF IInv, EachHeldOnce, Live
    <3>2. PICK h \in Holders : x \in ToSet(Held(h))
      BY <3>1 DEF Pool
    <3>3. h \in {-1, 0, 1} /\ (h = 1 => Held(h) = <<>>)
      <4>1. Vector(stack[1]) = <<>> /\ DOMAIN stack = {1}
        BY <1>1, <1>3, <2>4, TakeSafe, StackFacts DEF OfTask, IInv, TypeOK
      <4> QED  BY <4>1, <2>4 DEF OfTask, Holders, Held
    <3>4. x \in ToSet(incoming) \/ x \in ToSet(futures)
      BY <3>2, <3>3, EmptyVector DEF Held
    <3>5. futures \in Seq(Futures) /\ incoming \in Seq(Futures)
      BY DEF IInv, TypeOK
    <3> QED  BY <2>2, <3>4, <3>5, ConcatElems
  <2>5. OfTask => StillAhead(frame)
    BY <2>1, <2>2, <2>4 DEF StillAhead, Ahead
  <2> QED  BY <1>1, <2>3, <2>5
<1>4. CASE StoreBack
  <2> DEFINE frame == [Top EXCEPT !.pc = "tick", !.kept = <<>>]
  <2>1. SetTop(frame) /\ Top.pc = "poll" /\ Top.todo = <<>>
    BY <1>4 DEF StoreBack, At
  <2>2. frame.self = Top.self /\ frame.driver = Top.driver /\ frame.pc = "tick"
    BY <1>1 DEF Frame
  <2> HIDE DEF frame
  <2>3. Advances(frame)
    BY <2>1, <2>2 DEF Advances, PromisePCs
  <2>4. StillAhead(frame)
    BY <2>1, EmptyVector DEF StillAhead, Ahead
  <2> QED  BY <1>1, <2>3, <2>4
<1>5. CASE Finish
  <2> DEFINE frame == AfterDone(Top)
  <2>1. /\ SetTop(frame) /\ Top.pc = "pollReady" /\ Top.todo # <<>>
        /\ finished' = finished \cup {Head(Top.todo)} /\ UNCHANGED <<spawned, lost>>
    BY <1>1, <1>5 DEF Finish, Busy, FrameOK
  <2>2. /\ frame.self = Top.self /\ frame.driver = Top.driver /\ frame.pc = "poll"
        /\ frame.todo = Tail(Top.todo)
    BY <1>1 DEF AfterDone, Frame
  <2> HIDE DEF frame
  <2>3. Advances(frame)
    BY <2>1, <2>2 DEF Advances, PromisePCs
  <2>4. ToSet(Top.todo) = {Head(Top.todo)} \cup ToSet(Tail(Top.todo))
    BY <1>2, <2>1, TailElems
  <2>5. StillAhead(frame)
    BY <2>1, <2>2, <2>4 DEF StillAhead, Ahead, Live
  <2> QED  BY <1>1, <2>3, <2>5
<1> QED  BY <1>3, <1>4, <1>5

\* What an await that is over or not leaves ahead: all but a pending future,
\* and that one is not due.
LEMMA AfterPollAhead ==
  ASSUME NEW frame \in Frame, FrameOK(frame), frame.pc \in {"main", "poll"},
         frame.busy, NEW x \in Awaiters, Ahead(x, frame)
  PROVE  /\ Ahead(x, AfterReady(frame))
         /\ x # Polled(frame) /\ (x \in WithTasks => x = frame.self)
              => Ahead(x, AfterPending(frame))
<1>1. Ahead(x, AfterReady(frame))
  <2>1. /\ AfterReady(frame).pc \in {"mainReady", "pollReady"}
        /\ frame.pc = "main" => AfterReady(frame).pc = "mainReady"
        /\ frame.pc = "poll" => AfterReady(frame).pc = "pollReady"
        /\ AfterReady(frame).todo = frame.todo
    BY DEF AfterReady, Frame
  <2> QED  BY <2>1 DEF Ahead
<1>2. ASSUME x # Polled(frame), x \in Futures
      PROVE  Ahead(x, AfterPending(frame))
  <2>1. CASE frame.pc = "main"
    <3>1. AfterPending(frame).pc = "take"
      BY <2>1 DEF AfterPending, Frame
    <3> QED  BY <3>1, <1>2 DEF Ahead
  <2>2. CASE frame.pc = "poll"
    <3>1. /\ frame.todo \in Seq(Futures) /\ frame.todo # <<>> /\ x \in ToSet(frame.todo)
          /\ x # Head(frame.todo)
      BY <1>2, <2>2 DEF Frame, FrameOK, Ahead, Polled
    <3>2. x \in ToSet(Tail(frame.todo))
      BY <3>1, TailElems
    <3>3. AfterPending(frame).pc = "poll" /\ AfterPending(frame).todo = Tail(frame.todo)
      BY <2>2 DEF AfterPending, Frame
    <3> QED  BY <3>2, <3>3, <1>2 DEF Ahead
  <2> QED  BY <2>1, <2>2
<1>3. ASSUME x # Polled(frame), x \in WithTasks, x = frame.self
      PROVE  FALSE
  <2>1. frame.pc = "poll" /\ x \in Futures
    BY <1>3 DEF Ahead, Polled
  <2> QED  BY <1>3, <2>1, HostLoopAssumption DEF Tasks
<1> QED  BY <1>1, <1>2, <1>3 DEF Awaiters

\* A callback of Bun's loop and an await that needs no nested poll.
LEMMA OtherAdvances ==
  ASSUME IInv,
         (\E e \in Events : Fire(e)) \/ (Await /\ Polled(Top) \notin OnPromise)
  PROVE  /\ stack # <<>>
         /\ \E frame : Advances(frame) /\ (OfTask => StillAhead(frame))
<1>1. stack # <<>> /\ Top \in Frame /\ FrameOK(Top)
  <2>1. stack # <<>>
    BY DEF Fire, Await, At, Busy
  <2> QED  BY <2>1, TopFacts DEF IInv
<1>2. CASE \E e \in Events : Fire(e)
  <2>1. /\ Top.pc \in {"tick", "wait", "waited"}
        /\ \E pc \in {"tick", "waited"} : SetTop([Top EXCEPT !.pc = pc, !.busy = TRUE])
    BY <1>2 DEF Fire, At, Call
  <2>2. PICK pc \in {"tick", "waited"} : SetTop([Top EXCEPT !.pc = pc, !.busy = TRUE])
    BY <2>1
  <2> DEFINE frame == [Top EXCEPT !.pc = pc, !.busy = TRUE]
  <2>3. frame.self = Top.self /\ frame.driver = Top.driver /\ frame.pc = pc
    BY <1>1 DEF Frame
  <2>4. SetTop(frame)
    BY <2>2
  <2> HIDE DEF frame
  <2>5. Advances(frame) /\ StillAhead(frame)
    BY <2>1, <2>3, <2>4 DEF Advances, PromisePCs, StillAhead, Ahead
  <2> QED  BY <1>1, <2>5
<1>3. CASE Await /\ Polled(Top) \notin OnPromise
  <2>1. /\ Top.busy /\ Top.pc \in {"main", "poll"}
        /\ \/ Polled(Top) \in due /\ SetTop(AfterReady(Top))
           \/ Polled(Top) \notin due /\ SetTop(AfterPending(Top))
    BY <1>3 DEF Await, Busy
  <2>2. /\ AfterReady(Top).self = Top.self /\ AfterReady(Top).driver = Top.driver
        /\ AfterPending(Top).self = Top.self /\ AfterPending(Top).driver = Top.driver
    BY <1>1, <2>1, AfterPoll
  <2>3. /\ SetTop(AfterReady(Top)) => Advances(AfterReady(Top))
        /\ SetTop(AfterPending(Top)) => Advances(AfterPending(Top))
    BY <2>1, <2>2 DEF Advances, PromisePCs
  <2>4. StillAhead(AfterReady(Top))
    BY <1>1, <2>1, AfterPollAhead DEF StillAhead, IInv, TypeOK
  <2>5. Polled(Top) \notin due => StillAhead(AfterPending(Top))
    BY <1>1, <2>1, AfterPollAhead DEF StillAhead, IInv, TypeOK
  <2> QED  BY <1>1, <2>1, <2>3, <2>4, <2>5
<1> QED  BY <1>2, <1>3

\* Whatever a driver does within its frame.
LEMMA OwnAdvances ==
  ASSUME IInv, OwnStep
  PROVE  /\ stack # <<>>
         /\ \E frame : Advances(frame) /\ (OfTask => StillAhead(frame))
BY MoveAdvances, PollAdvances, OtherAdvances DEF OwnStep, IInv

\* The outermost frame after a driver's own step, ...
LEMMA OwnFirst ==
  ASSUME TypeOK, stack # <<>>, NEW frame, SetTop(frame)
  PROVE  /\ stack' # <<>> /\ DOMAIN stack' = DOMAIN stack /\ 1 \in DOMAIN stack
         /\ Len(stack) = 1 => Top = stack[1] /\ stack'[1] = frame
         /\ Len(stack) # 1 => stack'[1] = stack[1]
         /\ stack'[Len(stack)] = frame
         /\ \A i \in DOMAIN stack : i # Len(stack) => stack'[i] = stack[i]
<1>1. /\ Len(stack) \in Nat \ {0} /\ DOMAIN stack = 1..Len(stack)
      /\ Top = stack[Len(stack)]
  BY StackFacts DEF TypeOK
<1>2. stack' = [stack EXCEPT ![Len(stack)] = frame] /\ stack \in Seq(Frame)
  BY DEF SetTop, TypeOK
<1>3. /\ DOMAIN stack' = DOMAIN stack /\ stack'[Len(stack)] = frame
      /\ \A i \in DOMAIN stack : i # Len(stack) => stack'[i] = stack[i]
  BY <1>1, <1>2
<1>4. 1 \in DOMAIN stack' /\ 1 \in DOMAIN stack
  BY <1>1, <1>3
<1>5. stack' # <<>>
  BY <1>4
<1> QED  BY <1>1, <1>3, <1>4, <1>5

\* ... once a driver is called from within another, ...
LEMMA PushFirst ==
  ASSUME TypeOK, NEW frame, stack' = Append(stack, frame)
  PROVE  /\ stack' # <<>> /\ DOMAIN stack' = DOMAIN stack \cup {Len(stack) + 1}
         /\ stack = <<>> => stack'[1] = frame
         /\ stack # <<>> => stack'[1] = stack[1]
         /\ stack'[Len(stack) + 1] = frame /\ Len(stack) + 1 \notin DOMAIN stack
         /\ \A i \in DOMAIN stack : stack'[i] = stack[i]
<1>1. stack \in Seq(Frame)
  BY DEF TypeOK
<1>2. stack # <<>> => 1 \in DOMAIN stack
  BY <1>1
<1> QED  BY <1>1, <1>2

\* ... and after a return.
LEMMA PopFirst ==
  ASSUME TypeOK, stack # <<>>, stack' = Below
  PROVE  /\ Len(stack) = 1 => stack' = <<>> /\ Top = stack[1]
         /\ Len(stack) # 1 => stack' # <<>> /\ stack'[1] = stack[1]
         /\ DOMAIN stack' \subseteq DOMAIN stack
         /\ \A i \in DOMAIN stack' : stack'[i] = stack[i]
<1>1. /\ Len(stack) \in Nat \ {0} /\ DOMAIN stack = 1..Len(stack)
      /\ Top = stack[Len(stack)] /\ stack' \in Seq(Frame)
      /\ DOMAIN stack' = 1..(Len(stack) - 1) /\ Len(stack') = Len(stack) - 1
      /\ \A i \in DOMAIN stack' : stack'[i] = stack[i]
  BY StackFacts DEF TypeOK
<1>2. Len(stack) = 1 => stack' = <<>>
  BY <1>1
<1>3. Len(stack) # 1 => 1 \in DOMAIN stack' /\ stack' # <<>>
  BY <1>1
<1> QED  BY <1>1, <1>2, <1>3

\* A PromiseFuture returns to the poll which awaits the promise.
ReturnsTo(frame) ==
  LET caller == stack[Len(stack) - 1]
  IN  /\ frame \in {AfterReady(caller), AfterPending(caller)}
      /\ stack' # <<>> /\ Len(stack) > 1
      /\ Len(stack) - 1 \in DOMAIN stack /\ 1 \in DOMAIN stack'
      /\ DOMAIN stack' = DOMAIN stack \ {Len(stack)}
      /\ stack'[Len(stack) - 1] = frame
      /\ \A i \in DOMAIN stack' : i # Len(stack) - 1 => stack'[i] = stack[i]
      /\ frame.self = caller.self /\ frame.driver = caller.driver
      /\ caller \in Frame /\ FrameOK(caller)
      /\ caller.pc \in {"main", "poll"} /\ caller.busy
      /\ Polled(caller) \in OnPromise

LEMMA ReturnFirst ==
  ASSUME TypeOK, FramesOK, PromisesOK, PromiseReturn
  PROVE  stack # <<>> /\ \E frame : ReturnsTo(frame)
<1> DEFINE caller == stack[Len(stack) - 1]
<1>1. /\ Len(stack) > 1 /\ done' = done /\ stack # <<>> /\ Top.driver = "promise"
      /\ \/ stack' = [Below EXCEPT ![Len(stack) - 1] = AfterReady(caller)]
         \/ stack' = [Below EXCEPT ![Len(stack) - 1] = AfterPending(caller)]
  BY DEF PromiseReturn, InPromise, At, wakeVars
<1>2. /\ Len(stack) - 1 \in DOMAIN stack /\ Len(stack) \in DOMAIN stack
      /\ Top = stack[Len(stack)] /\ Len(stack) \in Nat /\ DOMAIN stack = 1..Len(stack)
      /\ Len(stack) - 1 # Len(stack) /\ 1 \in DOMAIN stack \ {Len(stack)}
  <2>1. /\ Len(stack) \in Nat \ {0} /\ DOMAIN stack = 1..Len(stack)
        /\ Top = stack[Len(stack)]
    BY <1>1, StackFacts DEF TypeOK
  <2>2. \A n \in Nat : n > 1 => n - 1 # n /\ n - 1 \in 1..n /\ n \in 1..n /\ 1 \in (1..n) \ {n}
    OBVIOUS
  <2> QED  BY <1>1, <2>1, <2>2
<1>3. caller.pc \in {"main", "poll"} /\ caller.busy /\ Polled(caller) \in OnPromise
  BY <1>1, <1>2 DEF FramesOK, PromisesOK
<1>4. caller \in Frame /\ FrameOK(caller)
  <2>1. Len(stack) - 1 \in DOMAIN stack /\ stack \in Seq(Frame)
    BY <1>2 DEF TypeOK
  <2>2. \A i \in DOMAIN stack : stack[i] \in Frame
    BY <2>1
  <2> QED  BY <2>1, <2>2, Zenon DEF FramesOK
<1> HIDE DEF caller
<1>5. PICK frame \in {AfterReady(caller), AfterPending(caller)} :
         stack' = [Below EXCEPT ![Len(stack) - 1] = frame]
  BY <1>1
<1>6. frame \in Frame /\ FrameOK(frame) /\ frame.self = caller.self
      /\ frame.driver = caller.driver
  BY <1>3, <1>4, <1>5, AfterPoll
<1>7. /\ DOMAIN stack' = DOMAIN stack \ {Len(stack)}
      /\ stack'[Len(stack) - 1] = frame
      /\ \A i \in DOMAIN stack' : i # Len(stack) - 1 => stack'[i] = stack[i]
  BY <1>1, <1>5, <1>6, ReturnKeeps DEF caller
<1>8. stack' # <<>> /\ 1 \in DOMAIN stack'
  <2>1. 1 \in DOMAIN stack'
    BY <1>2, <1>7, Zenon
  <2>2. DOMAIN <<>> = {}
    OBVIOUS
  <2> QED  BY <2>1, <2>2, Zenon
<1> QED  BY <1>1, <1>2, <1>3, <1>4, <1>5, <1>6, <1>7, <1>8 DEF ReturnsTo, caller

-----------------------------------------------------------------------------
(* The outermost frame is that of its task.                                *)

FirstStays ==
  /\ stack # <<>> /\ stack' # <<>>
  /\ stack'[1].self = stack[1].self /\ stack'[1].driver = stack[1].driver

\* A frame stays outermost until the stack is empty.
LEMMA FirstStep ==
  ASSUME IInv, PromisesOK, [Next]_vars
  PROVE  \/ stack' = <<>> \/ FirstStays
         \/ stack = <<>> /\ stack'[1].self \notin Tasks
         \/ /\ stack = <<>>
            /\ \E t \in Tasks : /\ PollTask(t)
                                /\ stack'[1].self = t /\ stack'[1].driver = Kind(t)
                                /\ stack'[1].pc = "deferred"
<1> USE DEF IInv
<1>1. CASE OwnStep
  <2>1. PICK frame : Advances(frame)
    BY <1>1, OwnAdvances
  <2> QED  BY <1>1, <2>1, OwnAdvances, OwnFirst DEF FirstStays, Advances
<1>2. CASE StackSame
  <2>1. stack' = stack
    BY <1>2 DEF StackSame, Spawn, Defer, Arm, Settle, Provide, Cancel, vars
  <2> QED  BY <2>1 DEF FirstStays
<1>3. CASE Push
  <2>1. PICK driver, self : stack' = Append(stack, NewFrame(driver, self))
                            /\ (stack = <<>> => self \notin Tasks)
    BY <1>3, HostLoopAssumption
       DEF Push, CallRun, CallJob, CallFinish, Await, Busy
  <2>2. NewFrame(driver, self).self = self
    BY DEF NewFrame
  <2> QED  BY <2>1, <2>2, PushFirst DEF FirstStays
<1>4. CASE Pop
  <2>1. stack # <<>> /\ stack' = Below
    BY <1>4 DEF Pop, Park, ReturnIdle, ReturnCall, ReturnMain, Deciding, At, Busy
  <2> QED  BY <2>1, PopFirst DEF FirstStays
<1>5. CASE PromiseReturn
  <2>1. stack # <<>>
    BY <1>5, ReturnFirst
  <2>2. PICK frame : ReturnsTo(frame)
    BY <1>5, ReturnFirst
  <2> QED  BY <2>1, <2>2 DEF ReturnsTo, FirstStays
<1>6. CASE Panic
  BY <1>6 DEF Panic
<1>7. ASSUME NEW t \in Tasks, PollTask(t)
      PROVE  /\ stack = <<>> /\ stack'[1].self = t /\ stack'[1].driver = Kind(t)
             /\ stack'[1].pc = "deferred"
  BY <1>7 DEF PollTask, NewFrame, Kind, Start
<1> QED  BY <1>1, <1>2, <1>3, <1>4, <1>5, <1>6, <1>7, StepKinds

LEMMA FirstOKStep ==
  ASSUME IInv, FirstOK, PromisesOK, [Next]_vars
  PROVE  FirstOK'
BY FirstStep DEF FirstOK, FirstStays, Kind

-----------------------------------------------------------------------------
(* PromiseFutures are where they are awaited.                              *)

LEMMA PromisesStep ==
  ASSUME IInv, PromisesOK, [Next]_vars
  PROVE  PromisesOK'
<1> USE DEF IInv
<1>1. CASE OwnStep
  <2>1. PICK frame : Advances(frame)
    BY <1>1, OwnAdvances
  <2>2. /\ stack # <<>> /\ Top = stack[Len(stack)] /\ DOMAIN stack' = DOMAIN stack
        /\ DOMAIN stack = 1..Len(stack) /\ Len(stack) \in Nat
        /\ stack'[Len(stack)] = frame
        /\ \A i \in DOMAIN stack : i # Len(stack) => stack'[i] = stack[i]
    BY <1>1, <2>1, OwnAdvances, OwnFirst, StackFacts DEF Advances, TypeOK
  <2>3. ASSUME NEW i \in DOMAIN stack, stack'[i].driver = "promise"
        PROVE  stack'[i].pc \in PromisePCs /\ (i > 1 => Polled(stack'[i - 1]) \in OnPromise)
    <3>1. stack[i].driver = "promise"
      BY <2>1, <2>2, <2>3 DEF Advances
    <3>2. stack'[i].pc \in PromisePCs
      BY <2>1, <2>2, <2>3, <3>1 DEF Advances, PromisesOK
    <3>3. i > 1 => i - 1 \in DOMAIN stack /\ i - 1 # Len(stack)
      BY <2>2
    <3> QED  BY <2>2, <3>1, <3>2, <3>3 DEF PromisesOK
  <2> QED  BY <2>2, <2>3 DEF PromisesOK, Polled
<1>2. CASE stack' = stack
  BY <1>2 DEF PromisesOK, Polled
<1>3. CASE StackSame
  BY <1>2, <1>3 DEF StackSame, Spawn, Defer, Arm, Settle, Provide, Cancel, vars
<1>4. CASE Push
  <2>1. PICK driver, self :
           /\ stack' = Append(stack, NewFrame(driver, self))
           /\ driver = "promise" => Polled(Top) \in OnPromise /\ stack # <<>>
    BY <1>4 DEF Push, CallRun, CallJob, CallFinish, Await, Busy
  <2>2. /\ NewFrame(driver, self).driver = driver
        /\ driver = "promise" => NewFrame(driver, self).pc = "check"
    BY DEF NewFrame, Start
  <2>3. /\ Len(stack) \in Nat /\ DOMAIN stack = 1..Len(stack)
        /\ stack # <<>> => Top = stack[Len(stack)] /\ Len(stack) > 0
    BY StackFacts DEF TypeOK
  <2>4. /\ DOMAIN stack' = DOMAIN stack \cup {Len(stack) + 1}
        /\ stack'[Len(stack) + 1] = NewFrame(driver, self)
        /\ \A i \in DOMAIN stack : stack'[i] = stack[i]
    BY <2>1, PushFirst
  <2>5. ASSUME NEW i \in DOMAIN stack', stack'[i].driver = "promise"
        PROVE  stack'[i].pc \in PromisePCs /\ (i > 1 => Polled(stack'[i - 1]) \in OnPromise)
    <3>1. CASE i \in DOMAIN stack
      <4>1. i > 1 => i - 1 \in DOMAIN stack
        BY <2>3, <3>1
      <4> QED  BY <2>4, <2>5, <3>1, <4>1 DEF PromisesOK
    <3>2. CASE i = Len(stack) + 1
      <4>1. driver = "promise" /\ stack'[i].pc = "check"
        BY <2>2, <2>4, <2>5, <3>2
      <4>2. i - 1 = Len(stack) /\ Len(stack) \in DOMAIN stack
        BY <2>1, <2>3, <3>2, <4>1
      <4> QED  BY <2>1, <2>3, <2>4, <4>1, <4>2 DEF PromisePCs
    <3> QED  BY <2>4, <3>1, <3>2
  <2> QED  BY <2>5 DEF PromisesOK, Polled
<1>5. CASE Pop
  <2>1. stack # <<>> /\ stack' = Below
    BY <1>5 DEF Pop, Park, ReturnIdle, ReturnCall, ReturnMain, Deciding, At, Busy
  <2>2. /\ DOMAIN stack' \subseteq DOMAIN stack /\ DOMAIN stack' = 1..(Len(stack) - 1)
        /\ Len(stack) \in Nat /\ \A i \in DOMAIN stack' : stack'[i] = stack[i]
    BY <2>1, PopFirst, StackFacts DEF TypeOK
  <2>3. \A i \in DOMAIN stack' : i > 1 => i - 1 \in DOMAIN stack'
    BY <2>2
  <2> QED  BY <2>2, <2>3 DEF PromisesOK, Polled
<1>6. CASE PromiseReturn
  <2>1. PICK frame : ReturnsTo(frame)
    BY <1>6, ReturnFirst
  <2>2. Len(stack) \in Nat /\ DOMAIN stack = 1..Len(stack)
    BY DEF TypeOK
  <2>3. ASSUME NEW i \in DOMAIN stack', stack'[i].driver = "promise"
        PROVE  stack'[i].pc \in PromisePCs /\ (i > 1 => Polled(stack'[i - 1]) \in OnPromise)
    <3>1. i # Len(stack) - 1
      BY <2>1, <2>3 DEF ReturnsTo, PromisesOK, PromisePCs
    <3>2. i \in DOMAIN stack /\ i # Len(stack) /\ stack'[i] = stack[i]
      BY <2>1, <2>3, <3>1, Zenon DEF ReturnsTo
    <3>3. i > 1 => i - 1 \in DOMAIN stack /\ i - 1 # Len(stack) - 1 /\ i - 1 # Len(stack)
      BY <2>2, <3>2
    <3>4. i > 1 => stack'[i - 1] = stack[i - 1]
      BY <2>1, <3>3, Zenon DEF ReturnsTo
    <3> QED  BY <2>3, <3>2, <3>4 DEF PromisesOK
  <2> QED  BY <2>3 DEF PromisesOK, Polled
<1>7. CASE stack' = <<>>
  BY <1>7 DEF PromisesOK
<1>8. ASSUME NEW t \in Tasks, PollTask(t) PROVE PromisesOK'
  <2>1. DOMAIN stack' = {1} /\ stack'[1].driver # "promise"
    BY <1>8 DEF PollTask, NewFrame, Kind
  <2> QED  BY <2>1 DEF PromisesOK
<1> QED  BY <1>1, <1>3, <1>4, <1>5, <1>6, <1>7, <1>8, StepKinds DEF Panic

-----------------------------------------------------------------------------
(* What never goes back.                                                   *)

LEMMA Grows ==
  ASSUME [Next]_vars
  PROVE  /\ done \subseteq done' /\ spawned \subseteq spawned'
         /\ finished \cup lost \subseteq finished' \cup lost'
BY DEF Next, HostCode, Driver, Bun, Outside, Spawn, Defer, Arm, Settle, CallRun,
   CallJob, CallFinish, Panic, Provide, PollTask, Cancel, RunJob, NoJob, PendingJob,
   EndCallback, Take, PollNext, StoreBack, Await, Finish, Fire, EndTick, EndWait,
   PromiseReturn, PromiseTick, Repoll, Block, Yield, Park, ReturnIdle, ReturnCall,
   ReturnMain, vars, execVars, wakeVars

\* A task that is scheduled stays so until it is polled.
LEMMA WokenStays ==
  ASSUME TypeOK, [Next]_vars, NEW t \in Tasks, woken[t], ~PollTask(t)
  PROVE  woken'[t]
<1>1. CASE woken' = woken
  BY <1>1
<1>2. ASSUME NEW f \in Futures, Spawn(f) PROVE woken'[t]
  BY <1>2 DEF Spawn, DriveWoken
<1>3. ASSUME NEW x \in Awaiters, Settle(x) \/ Provide(x) PROVE woken'[t]
  BY <1>3 DEF Settle, Provide, Wake
<1>4. ASSUME NEW u \in Tasks, PollTask(u) PROVE woken'[t]
  BY <1>4 DEF PollTask, TypeOK
<1>5. CASE Park
  BY <1>5 DEF Park
<1> QED  BY <1>1, <1>2, <1>3, <1>4, <1>5
         DEF Next, HostCode, Driver, Bun, Outside, Defer, Arm, CallRun, CallJob,
             CallFinish, Panic, Cancel, RunJob, NoJob, PendingJob, EndCallback, Take,
             PollNext, StoreBack, Await, Finish, Fire, EndTick, EndWait,
             PromiseReturn, PromiseTick, Repoll, Block, Yield, ReturnIdle,
             ReturnCall, ReturnMain, vars, wakeVars

\* Only the start of a poll stores a waker, ...
StoresWaker(x) ==
  \/ NoJob /\ Top.driver = "with" /\ x = Top.self /\ Top \in Frame /\ FrameOK(Top)
  \/ PollNext /\ x = Head(Top.todo) /\ Top \in Frame /\ FrameOK(Top)

LEMMA WakerSteps ==
  ASSUME IInv, [Next]_vars
  PROVE  \/ waker' = waker
         \/ \E x \in Awaiters : /\ StoresWaker(x) /\ stack # <<>> /\ due' = due
                                /\ waker' = [waker EXCEPT ![x] = FrameWaker(Top)]
<1>1. CASE NoJob /\ Top.driver = "with"
  <2>1. stack # <<>> /\ due' = due /\ Top \in Frame /\ FrameOK(Top)
    BY <1>1, TopFacts DEF NoJob, At, IInv
  <2>2. /\ Top.self \in Awaiters
        /\ waker' = [waker EXCEPT ![Top.self] = FrameWaker(Top)]
    BY <1>1, <2>1 DEF NoJob, FrameOK, Awaiters
  <2> QED  BY <1>1, <2>1, <2>2 DEF StoresWaker
<1>2. CASE PollNext
  <2>1. stack # <<>> /\ due' = due /\ Top.todo # <<>> /\ Top \in Frame /\ FrameOK(Top)
    BY <1>2, TopFacts DEF PollNext, At, IInv
  <2>2. Head(Top.todo) \in Futures
    BY <2>1 DEF Frame
  <2> QED  BY <1>2, <2>1, <2>2 DEF PollNext, StoresWaker, Awaiters
<1>3. CASE ~(NoJob /\ Top.driver = "with") /\ ~PollNext
  BY <1>3 DEF Next, HostCode, Driver, Bun, Outside, Spawn, Defer, Arm, Settle,
     CallRun, CallJob, CallFinish, Panic, Provide, PollTask, Cancel, RunJob, NoJob,
     PendingJob, EndCallback, Take, StoreBack, Await, Finish, Fire, EndTick,
     EndWait, PromiseReturn, PromiseTick, Repoll, Block, Yield, Park, ReturnIdle,
     ReturnCall, ReturnMain, vars, wakeVars
<1> QED  BY <1>1, <1>2, <1>3

\* ... the one of the task whose poll it is, of what is spawned.
LEMMA WakersStep ==
  ASSUME IInv, WakersOK, [Next]_vars
  PROVE  WakersOK'
<1>1. CASE waker' = waker
  BY <1>1, Grows DEF WakersOK
<1>2. ASSUME NEW x \in Awaiters, StoresWaker(x), stack # <<>>,
             waker' = [waker EXCEPT ![x] = FrameWaker(Top)]
      PROVE  WakersOK'
  <2>1. CASE NoJob /\ Top.driver = "with" /\ x = Top.self /\ FrameOK(Top)
    <3>1. x \in WithTasks /\ FrameWaker(Top) \cap Tasks \subseteq {x}
      BY <2>1, HostLoopAssumption DEF FrameOK, FrameWaker
    <3>2. x \notin Futures
      BY <3>1, HostLoopAssumption DEF Tasks
    <3> QED  BY <1>2, <3>1, <3>2, Grows DEF WakersOK, IInv, TypeOK
  <2>2. CASE PollNext /\ x = Head(Top.todo)
    <3>1. Top \in Frame /\ FrameOK(Top) /\ Top.todo # <<>>
      BY <1>2, <2>2, TopFacts DEF PollNext, IInv
    <3>2. /\ Top.todo \in Seq(Futures) /\ Top.kept \in Seq(Futures)
          /\ x \in Futures /\ x \in ToSet(Top.todo)
      BY <2>2, <3>1, TailElems DEF Frame
    <3>3. x \in ToSet(Vector(Top))
      BY <3>2, ConcatElems DEF Vector
    <3>4. Len(stack) \in Int /\ Holding[Len(stack)] = Vector(Top)
      BY <1>2, HolderFacts DEF IInv
    <3>5. x \in spawned
      BY <3>2, <3>3, <3>4, Zenon DEF IInv, HeldOnce
    <3>6. x \notin WithTasks
      BY <3>2, HostLoopAssumption DEF Tasks
    <3> QED  BY <1>2, <3>5, <3>6, Grows DEF WakersOK, IInv, TypeOK
  <2> QED  BY <1>2, <2>1, <2>2 DEF StoresWaker
<1> QED  BY <1>1, <1>2, WakerSteps

-----------------------------------------------------------------------------
(* No wakeup is lost.                                                      *)

\* The poll of a task which is not woken still reaches what it has ahead.
LEMMA AheadStays ==
  ASSUME WakeInv, [Next]_vars, stack # <<>>,
         NEW x \in due \ OnPromise, stack[1].self \in Tasks \ done',
         x \in WithTasks => x = stack[1].self, x \in Futures => x \in Live',
         Ahead(x, stack[1])
  PROVE  stack' # <<>> /\ stack'[1].self = stack[1].self /\ Ahead(x, stack'[1])
<1> USE DEF WakeInv
<1>1. TypeOK /\ FramesOK
  BY DEF IInv
<1>2. CASE OwnStep
  <2>1. PICK frame : Advances(frame) /\ (OfTask => StillAhead(frame))
    BY <1>2, OwnAdvances
  <2>2. CASE Len(stack) = 1
    <3>1. Top = stack[1] /\ stack'[1] = frame /\ stack' # <<>>
      BY <1>1, <2>1, <2>2, OwnFirst DEF Advances
    <3>2. OfTask
      BY <2>2, <3>1 DEF OfTask, FirstOK
    <3> QED  BY <2>1, <3>1, <3>2 DEF StillAhead, Advances
  <2>3. CASE Len(stack) # 1
    BY <1>1, <2>1, <2>3, OwnFirst DEF Advances
  <2> QED  BY <2>2, <2>3
<1>3. CASE StackSame
  BY <1>3 DEF StackSame, Spawn, Defer, Arm, Settle, Provide, Cancel, vars
<1>4. CASE Push
  <2>1. PICK frame : stack' = Append(stack, frame)
    BY <1>4 DEF Push, CallRun, CallJob, CallFinish, Await
  <2> QED  BY <1>1, <2>1, PushFirst
<1>5. CASE Pop
  <2>1. /\ stack' = Below /\ Top.pc \in {"decide", "mainReady"}
        /\ Top.pc = "mainReady" => Top.self \in done'
    BY <1>5 DEF Pop, Park, ReturnIdle, ReturnCall, ReturnMain, Deciding, At, Busy
  <2>2. Len(stack) = 1 => FALSE
    BY <1>1, <2>1, PopFirst DEF Ahead
  <2> QED  BY <1>1, <2>1, <2>2, PopFirst
<1>6. CASE PromiseReturn
  <2>1. PICK frame : ReturnsTo(frame)
    BY <1>1, <1>6, ReturnFirst
  <2>2. CASE Len(stack) = 2
    <3>1. Len(stack) - 1 = 1
      BY <2>2
    <3>2. /\ stack'[1] = frame /\ stack' # <<>> /\ frame.self = stack[1].self
          /\ frame \in {AfterReady(stack[1]), AfterPending(stack[1])}
          /\ stack[1] \in Frame /\ FrameOK(stack[1]) /\ stack[1].busy
          /\ stack[1].pc \in {"main", "poll"} /\ Polled(stack[1]) \in OnPromise
      BY <2>1, <3>1 DEF ReturnsTo
    <3>3. x \in Awaiters /\ x # Polled(stack[1])
      BY <1>1, <3>2 DEF TypeOK
    <3>4. Ahead(x, AfterReady(stack[1])) /\ Ahead(x, AfterPending(stack[1]))
      BY <3>2, <3>3, AfterPollAhead
    <3> QED  BY <3>2, <3>4
  <2>3. CASE Len(stack) # 2
    <3>1. Len(stack) \in Nat
      BY <1>1 DEF TypeOK
    <3>2. Len(stack) - 1 # 1
      BY <2>3, <3>1
    <3>3. stack' # <<>> /\ stack'[1] = stack[1]
      BY <2>1, <3>2 DEF ReturnsTo
    <3> QED  BY <3>3
  <2> QED  BY <2>2, <2>3
<1>7. CASE Panic
  BY <1>7 DEF Panic
<1>8. ASSUME NEW t \in Tasks, PollTask(t) PROVE FALSE
  BY <1>8 DEF PollTask
<1> QED  BY <1>2, <1>3, <1>4, <1>5, <1>6, <1>7, <1>8, StepKinds

\* A task that polls with its own waker is the outermost, and the poll goes on.
LEMMA PolledByTask ==
  ASSUME WakeInv, NEW x \in Awaiters, StoresWaker(x), stack # <<>>,
         NEW t \in FrameWaker(Top) \cap Tasks
  PROVE  stack' # <<>> /\ stack'[1].self = t /\ Ahead(x, stack'[1])
<1> USE DEF WakeInv
<1>1. TypeOK /\ FramesOK /\ Top \in Frame /\ FrameOK(Top) /\ Top.self = t
  BY HostLoopAssumption, TopFacts DEF IInv, FrameWaker
<1>2. Top = stack[Len(stack)] /\ Len(stack) \in DOMAIN stack /\ Len(stack) \in Nat \ {0}
  BY <1>1, StackFacts DEF TypeOK
<1>3. Top.driver # "promise"
  BY <1>2 DEF StoresWaker, NoJob, PollNext, At, PromisesOK, PromisePCs
<1>4. Len(stack) = 1
  <2>1. Top.driver \notin Nested
    BY <1>1, <1>3, HostLoopAssumption DEF Nested, Synchronous, FrameOK, Tasks
  <2>2. Len(stack) > 1 => Top.driver \in Nested
    BY <1>1, <1>2 DEF FramesOK
  <2>3. \A n \in Nat \ {0} : n > 1 \/ n = 1
    OBVIOUS
  <2> QED  BY <1>2, <2>1, <2>2, <2>3, Zenon
<1>5. CASE NoJob /\ Top.driver = "with"
  <2> DEFINE frame == [Top EXCEPT !.pc = "main", !.busy = TRUE]
  <2>1. SetTop(frame) /\ frame.self = t /\ frame.pc = "main"
    BY <1>1, <1>5 DEF NoJob, Call, Frame
  <2> HIDE DEF frame
  <2> QED  BY <1>1, <1>4, <2>1, OwnFirst DEF Ahead
<1>6. CASE PollNext /\ x = Head(Top.todo)
  <2> DEFINE frame == [Top EXCEPT !.pc = "poll", !.busy = TRUE]
  <2>1. SetTop(frame) /\ frame.self = t /\ frame.pc = "poll" /\ frame.todo = Top.todo
    BY <1>1, <1>6 DEF PollNext, Call, Frame
  <2>2. x \in Futures /\ x \in ToSet(Top.todo)
    BY <1>1, <1>6, TailElems DEF PollNext, Frame
  <2> HIDE DEF frame
  <2> QED  BY <1>1, <1>4, <2>1, <2>2, OwnFirst DEF Ahead
<1> QED  BY <1>5, <1>6 DEF StoresWaker

LEMMA WakeupsStep ==
  ASSUME WakeInv, [Next]_vars
  PROVE  Wakeups'
<1> SUFFICES ASSUME NEW x, x \in due' \ OnPromise,
                    NEW t, t \in (waker'[x] \cap Tasks) \ done',
                    x \notin finished' \cup lost', ~woken'[t]
             PROVE  stack' # <<>> /\ stack'[1].self = t /\ Ahead(x, stack'[1])
  BY DEF Wakeups
<1> USE DEF WakeInv
<1>1. TypeOK /\ FramesOK
  BY DEF IInv
<1>2. x \in Awaiters /\ t \in Tasks
  <2>1. TypeOK'
    BY <1>1, TypeStep
  <2> QED  BY <2>1 DEF TypeOK
<1>3. CASE PollTask(t)
  <2>1. stack' = <<NewFrame(Kind(t), t)>>
    BY <1>3 DEF PollTask
  <2>2. NewFrame(Kind(t), t).self = t /\ NewFrame(Kind(t), t).pc = "deferred"
    BY DEF NewFrame, Kind, Start
  <2> QED  BY <2>1, <2>2 DEF Ahead
<1>4. ASSUME x \in due, t \in waker[x], ~PollTask(t)
      PROVE  stack' # <<>> /\ stack'[1].self = t /\ Ahead(x, stack'[1])
  <2>1. ~woken[t] /\ t \notin done /\ x \notin finished \cup lost
    BY <1>1, <1>2, <1>4, WokenStays, Grows
  <2>2. stack # <<>> /\ stack[1].self = t /\ Ahead(x, stack[1])
    BY <1>2, <1>4, <2>1 DEF Wakeups
  <2>3. x \in WithTasks => x = t
    BY <1>2, <1>4 DEF WakersOK
  <2>4. x \in Futures => x \in Live'
    BY <1>4, Grows DEF WakersOK, Live
  <2> QED  BY <1>2, <1>4, <2>2, <2>3, <2>4, AheadStays
<1>5. ASSUME NEW y \in Awaiters, StoresWaker(y), stack # <<>>, due' = due,
             waker' = [waker EXCEPT ![y] = FrameWaker(Top)]
      PROVE  stack' # <<>> /\ stack'[1].self = t /\ Ahead(x, stack'[1])
  <2>1. CASE x = y
    <3>1. t \in FrameWaker(Top) \cap Tasks
      BY <1>1, <1>2, <1>5, <2>1 DEF TypeOK
    <3> QED  BY <1>2, <1>5, <2>1, <3>1, PolledByTask
  <2>2. CASE x # y
    <3>1. t \in waker[x] /\ x \in due
      BY <1>1, <1>2, <1>5, <2>2 DEF TypeOK
    <3> QED  BY <1>3, <1>4, <3>1
  <2> QED  BY <2>1, <2>2
<1>6. CASE waker' = waker /\ x \in due
  BY <1>3, <1>4, <1>6
<1>7. ASSUME waker' = waker, x \notin due
      PROVE  FALSE
  <2>1. (\E y \in Awaiters : Settle(y) \/ Provide(y)) \/ due' = due
    BY DEF Next, HostCode, Driver, Bun, Outside, Spawn, Defer, Arm, CallRun, CallJob,
       CallFinish, Panic, PollTask, Cancel, RunJob, NoJob, PendingJob, EndCallback,
       Take, PollNext, StoreBack, Await, Finish, Fire, EndTick, EndWait,
       PromiseReturn, PromiseTick, Repoll, Block, Yield, Park, ReturnIdle,
       ReturnCall, ReturnMain, vars, wakeVars
  <2>2. PICK y \in Awaiters : Settle(y) \/ Provide(y)
    BY <1>7, <2>1
  <2>3. x = y /\ Wake(y)
    BY <1>7, <2>2 DEF Settle, Provide, External
  <2>4. woken'[t]
    BY <1>2, <1>7, <2>3 DEF Wake
  <2> QED  BY <2>4
<1> QED  BY <1>5, <1>6, <1>7, WakerSteps

-----------------------------------------------------------------------------
(* drive() watches the executor.                                           *)

\* How the stack becomes empty.
LEMMA Emptied ==
  ASSUME IInv, PromisesOK, [Next]_vars, stack # <<>>, stack' = <<>>
  PROVE  Panic \/ (Len(stack) = 1 /\ Top = stack[1] /\ Pop)
<1> USE DEF IInv
<1>1. ~OwnStep
  <2> SUFFICES ASSUME OwnStep PROVE FALSE
    OBVIOUS
  <2>1. PICK frame : Advances(frame)
    BY OwnAdvances
  <2> QED  BY <2>1, OwnFirst DEF Advances
<1>2. ~StackSame
  BY DEF StackSame, Spawn, Defer, Arm, Settle, Provide, Cancel, vars
<1>3. ~Push
  <2> SUFFICES ASSUME Push PROVE FALSE
    OBVIOUS
  <2>1. PICK frame : stack' = Append(stack, frame)
    BY DEF Push, CallRun, CallJob, CallFinish, Await
  <2> QED  BY <2>1, PushFirst
<1>4. ~PromiseReturn
  BY ReturnFirst DEF ReturnsTo
<1>5. Pop => Len(stack) = 1 /\ Top = stack[1]
  BY PopFirst DEF Pop, Park, ReturnIdle, ReturnCall, ReturnMain
<1>6. ~\E t \in Tasks : PollTask(t)
  BY DEF PollTask
<1> QED  BY <1>1, <1>2, <1>3, <1>4, <1>5, <1>6, StepKinds

\* A poll of drive() that leaves futures behind asks to be polled again.
LEMMA DriveReturns ==
  ASSUME WakeInv, Pop, Len(stack) = 1, Top = stack[1], stack # <<>>,
         NEW t \in DriveTasks, Top.self = t, Live' # {}
  PROVE  woken'[t]
<1> USE DEF WakeInv
<1>1. Top.driver = "drive" /\ Top \in Frame /\ FrameOK(Top)
  BY TopFacts, HostLoopAssumption DEF IInv, FirstOK, Kind, Tasks
<1>2. Park
  BY <1>1 DEF Pop, ReturnIdle, ReturnCall, ReturnMain, Deciding, Busy, FrameOK
<1>3. HasPending
  <2>1. UNCHANGED <<spawned, finished, lost>>
    BY <1>2 DEF Park, execVars
  <2>2. PICK x \in Live : TRUE
    BY <2>1 DEF Live
  <2>3. x \in Pool
    BY <2>2, HeldOnceImplies DEF IInv, EachHeldOnce, Live
  <2>4. PICK h \in Holders : x \in ToSet(Held(h))
    BY <2>3 DEF Pool
  <2>5. h \in {-1, 0, 1} /\ (h = 1 => Held(h) = <<>>)
    <3>1. Vector(stack[1]) = <<>>
      BY <1>1, <1>2 DEF Park, Deciding, At, FrameOK, Vector
    <3>2. DOMAIN stack = {1}
      BY StackFacts DEF IInv, TypeOK
    <3> QED  BY <3>1, <3>2 DEF Holders, Held
  <2> QED  BY <2>4, <2>5, EmptyVector DEF Held, HasPending
<1> QED  BY <1>1, <1>2, <1>3 DEF Park, Again, Tasks

LEMMA DriveStep ==
  ASSUME WakeInv, [Next]_vars
  PROVE  DriveWakes'
<1> SUFFICES ASSUME NEW t \in DriveTasks \ done', driveWaker' = t, Live' # {},
                    stack' # <<>> => stack'[1].self # t
             PROVE  woken'[t]
  BY DEF DriveWakes
<1> USE DEF WakeInv
<1>1. t \in Tasks /\ t \notin done /\ TypeOK
  BY Grows DEF Tasks, IInv
<1>2. ASSUME NEW f \in Futures, Spawn(f) PROVE woken'[t]
  BY <1>1, <1>2 DEF Spawn, DriveWoken
<1>3. CASE PollTask(t)
  BY <1>3 DEF PollTask, NewFrame
<1>4. ASSUME NEW u \in Tasks, PollTask(u), u # t PROVE woken'[t]
  <2>1. u \notin DriveTasks /\ driveWaker = t /\ stack = <<>> /\ Live # {}
    BY <1>4 DEF PollTask, Register, Live
  <2>2. woken[t]
    BY <1>1, <2>1 DEF DriveWakes
  <2> QED  BY <1>1, <1>4, <2>2 DEF PollTask, TypeOK
<1>5. ASSUME ~\E f \in Futures : Spawn(f), ~\E u \in Tasks : PollTask(u)
      PROVE  woken'[t]
  <2>1. driveWaker' = driveWaker /\ spawned' = spawned
    BY <1>5 DEF Next, HostCode, Driver, Bun, Outside, Defer, Arm, Settle, CallRun,
       CallJob, CallFinish, Panic, Provide, Cancel, RunJob, NoJob, PendingJob,
       EndCallback, Take, PollNext, StoreBack, Await, Finish, Fire, EndTick,
       EndWait, PromiseReturn, PromiseTick, Repoll, Block, Yield, Park, ReturnIdle,
       ReturnCall, ReturnMain, vars, execVars
  <2>2. Live # {}
    BY <2>1, Grows DEF Live
  <2>3. CASE stack # <<>> => stack[1].self # t
    <3>1. woken[t]
      BY <1>1, <2>1, <2>2, <2>3 DEF DriveWakes
    <3> QED  BY <1>1, <1>5, <3>1, WokenStays
  <2>4. CASE stack # <<>> /\ stack[1].self = t
    <3>1. stack' = <<>>
      BY <2>4, FirstStep DEF FirstStays
    <3>2. ~Panic
      BY <1>1, <2>4 DEF Panic
    <3> QED  BY <2>4, <3>1, <3>2, Emptied, DriveReturns
  <2> QED  BY <2>3, <2>4
<1> QED  BY <1>2, <1>3, <1>4, <1>5

-----------------------------------------------------------------------------
(* The theorems.                                                           *)

LEMMA WakeInit ==
  Init => WakeInv
<1> SUFFICES ASSUME Init PROVE WakeInv
  OBVIOUS
<1>1. IInv
  BY InitOK
<1>2. FirstOK /\ PromisesOK
  BY DEF Init, FirstOK, PromisesOK
<1>3. WakersOK
  BY DEF Init, WakersOK, Awaiters
<1>4. Wakeups /\ DriveWakes
  BY DEF Init, Wakeups, DriveWakes, Tasks
<1> QED  BY <1>1, <1>2, <1>3, <1>4 DEF WakeInv

LEMMA WakeInductive ==
  WakeInv /\ [Next]_vars => WakeInv'
BY Inductive, FirstOKStep, PromisesStep, WakersStep, WakeupsStep, DriveStep DEF WakeInv

\* async_rt.rs:81-114, 56-73: however polls, nested drivers, panics and wakes from other
\* threads interleave, a task that polled a future through its waker is woken
\* once what the future awaits arrives, or is being polled.
THEOREM WakeupsArrive ==
  Spec => []NoLostWakeup
<1>1. WakeInv => NoLostWakeup
  BY DEF WakeInv, Wakeups, NoLostWakeup
<1> QED  BY <1>1, WakeInit, WakeInductive, PTL DEF Spec

\* async_rt.rs:46-48, 344-365: with any number of tasks that run drive(), the one
\* whose waker the executor has does not sleep while host futures are pending.
THEOREM DriveWatches ==
  Spec => []DriveWatchesExecutor
<1>1. WakeInv => DriveWatchesExecutor
  <2> SUFFICES ASSUME WakeInv, NEW t \in DriveTasks \ done, stack = <<>>,
                      driveWaker = t, HasPending
               PROVE  woken[t]
    BY DEF DriveWatchesExecutor
  <2>1. /\ \E f \in Futures, h \in Int : f \in ToSet(Holding[h])
    <3>1. futures \in Seq(Futures) /\ incoming \in Seq(Futures) /\ HoldingOK
          /\ Holding[-1] = incoming /\ Holding[0] = futures
      BY HolderFacts DEF WakeInv, IInv, TypeOK
    <3>2. futures # <<>> => Head(futures) \in Futures /\ Head(futures) \in ToSet(futures)
      BY <3>1, TailElems
    <3>3. incoming # <<>> => Head(incoming) \in Futures /\ Head(incoming) \in ToSet(incoming)
      BY <3>1, TailElems
    <3> QED  BY <3>1, <3>2, <3>3 DEF HasPending
  <2>2. Live # {}
    BY <2>1, Zenon DEF WakeInv, IInv, HeldOnce, Live
  <2> QED  BY <2>2 DEF WakeInv, DriveWakes
<1> QED  BY <1>1, WakeInit, WakeInductive, PTL DEF Spec
=============================================================================
