----------------------------- MODULE HostLoopProps -----------------------------
(***************************************************************************)
(* What the drivers of HostLoop guarantee to the code that spawns futures, *)
(* defers calls and awaits the runtime, and what the comments of           *)
(* async_rt.rs promise beyond that.                                        *)
(***************************************************************************)
EXTENDS HostLoop

-----------------------------------------------------------------------------
(* Safety.                                                                 *)

\* Where a future can be: -1 is `incoming', 0 is `futures', i > 0 the local
\* vector of the poll_all run by frame i.
Holders == -1..Len(stack)
Vector(frame) == frame.kept \o frame.todo
Held(h) == IF h = -1 THEN incoming
           ELSE IF h = 0 THEN futures
           ELSE IF h \in DOMAIN stack THEN Vector(stack[h])
           ELSE <<>>
Pool == UNION {ToSet(Held(h)) : h \in Holders}

\* poll_all takes the vector, polls, and appends what nested drivers stored
\* meanwhile: however drivers nest, a spawned future that neither completed
\* nor was unwound by a panic is held in exactly one place, once.
EachHeldOnce ==
  /\ \A h \in Holders : IsInjective(Held(h))
  /\ \A g, h \in Holders : g # h => ToSet(Held(g)) \cap ToSet(Held(h)) = {}
  /\ Pool = spawned \ (finished \cup lost)

\* run_until_idle called outside any driver, or idle(), finishes (and not by
\* a panic).
ReturnsIdle ==
  /\ Len(stack) = 1 /\ stack' = <<>> /\ panics' = panics
  /\ Top.driver = "run" \/ (Top.driver = "idle" /\ Top.self \in done')

\* "Run the loop until nothing keeps it alive": when it returns, every future
\* ever spawned is gone, no deferred call is queued and Bun's loop is idle.
IdleMeansDone ==
  [][ReturnsIdle => /\ spawned \subseteq finished \cup lost
                    /\ ran = jobs
                    /\ armed = {}]_vars

\* An outer task which polled a future through its waker is scheduled when
\* what that future awaits arrives, unless it is being polled right now:
\* no interleaving of polls, nested polls and wakes loses the wakeup.
NoLostWakeup ==
  \A x \in due \ OnPromise : \A t \in (waker[x] \cap Tasks) \ done :
    x \in finished \cup lost \/ woken[t] \/ (stack # <<>> /\ stack[1].self = t)

\* While the task of drive() sleeps, the executor is empty: spawn wakes it
\* and a poll that leaves futures behind reschedules itself.
DriveWatchesExecutor ==
  \A t \in DriveTasks \ done :
    stack = <<>> /\ driveWaker = t /\ HasPending => woken[t]

\* Deferred calls start in the order they were queued, none twice and none
\* skipped, also when a call starts a driver of its own.
JobsInOrder == deferred = [i \in 1..(jobs - ran) |-> ran + i]

\* The executor and the queue, driven in any of the seven ways, implement the
\* pool of work their users rely on.
WorkPool == INSTANCE WorkPool WITH
  Work <- Futures, MaxCalls <- MaxJobs, pool <- Pool, completed <- finished,
  dropped <- lost, queue <- deferred, issued <- jobs
ImplementsWorkPool == WorkPool!PoolSpec

-----------------------------------------------------------------------------
(* Liveness.                                                               *)

\* Host code itself blocks the thread in run_until_idle or on a promise.
HostBlocks ==
  \E i \in DOMAIN stack : stack[i].driver \in Synchronous \cup {"promise"}

\* A waker called on another thread gets through to an async_with whose
\* driver is blocked in auto_tick_active, even if Bun's loop stays silent:
\* the body completes (or its future is dropped).
BodyCompletes ==
  \A w \in WithTasks \cap External :
    w \in due ~> w \in done \/ HostBlocks

\* While drive() is awaited, every spawned future which waits for other
\* threads completes, also when an async_with took over polling it.
DriveCompletesFutures ==
  \A t \in DriveTasks, f \in Futures \cap External :
    (f \in spawned /\ t \notin done)
      ~> (f \in finished \cup lost \/ t \in done \/ HostBlocks)

\* run_until_idle returns once Bun's events fired and other threads provided
\* what the futures wait for.
RunReturns ==
  BunFairness => ((stack # <<>> /\ stack[1].driver = "run") ~> stack = <<>>)

-----------------------------------------------------------------------------
(* What the comments promise and the code does not keep.                   *)

\* async_rt.rs:118-120, of drive(): "Returns `Pending` only when nothing on
\* this thread can make progress (waiting on an external waker)."
PendingOnlyWhenStuck ==
  [][(Park /\ Top.driver = "with") =>
        /\ incoming = <<>> /\ deferred = <<>>
        /\ Top.self \notin due \cap OnPromise]_vars

\* async_rt.rs:170, of a PromiseFuture that is not ready: "Let the driver poll
\* host futures; it re-polls us afterwards."  A future whose waker another
\* thread called completes, also next to one which awaits a promise.
SiblingsProgress ==
  \A f \in Futures \cap External :
    (f \in spawned /\ f \in due /\ waker[f] \cap Tasks # {})
      ~> (f \in finished \cup lost \/ waker[f] \cap done # {})

\* async_rt.rs:324-325, of idle(): with host futures pending, "let it run and
\* come back when either side wakes us": an event that Bun's loop has ready
\* is processed while idle() is awaited.
IdleServesLoop ==
  (BunFairness /\ \A e \in Events : WF_vars(Fire(e))) =>
    \A e \in Events, t \in IdleTasks :
      (e \in armed /\ t \notin done) ~> (e \in fired \/ t \in done)
=============================================================================
