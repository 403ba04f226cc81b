------------------------------- MODULE HostLoop -------------------------------
(***************************************************************************)
(* The host side of rbun's event loop: the executor of host futures and    *)
(* the queue of deferred calls, and the seven pieces of code that drive    *)
(* them together with Bun's own loop:                                      *)
(*                                                                         *)
(*   "run"      Ctx::run_until_idle, synchronous, callable from any host   *)
(*              code, also from inside a poll or a deferred call;          *)
(*   "finish"   Promise::finish, synchronous, callable likewise;           *)
(*   "job"      Ctx::execute_pending_job, synchronous, callable likewise;  *)
(*   "with"     WithFuture::poll / drive(), the future of async_with;      *)
(*   "idle"     Idle::poll, the future of AsyncRuntime::idle;              *)
(*   "drive"    Drive::poll, the future of AsyncRuntime::drive;            *)
(*   "promise"  PromiseFuture::poll, nested in the poll of whatever awaits *)
(*              a JavaScript promise.                                      *)
(*                                                                         *)
(* Everything runs on one thread, but it is re-entrant: a poll, a deferred *)
(* call or a JavaScript callback is host code, and host code may spawn,    *)
(* defer, settle promises and start another driver.  The call stack is     *)
(* therefore explicit: one frame per driver being executed.  Other threads *)
(* only complete what futures wait for and call their wakers.              *)
(***************************************************************************)
EXTENDS Integers, SequencesExt

CONSTANTS
  Futures,     \* host futures that Ctx::spawn may be given, each at most once
  WithTasks,   \* outer tasks that await an async_with
  IdleTasks,   \* outer tasks that await AsyncRuntime::idle
  DriveTasks,  \* outer tasks that run AsyncRuntime::drive
  OnPromise,   \* futures and async_with bodies that await a JavaScript promise
  OnChannel,   \* those that await what only code of this thread provides
  Events,      \* timers, sockets, tasks of Bun's loop, each armed at most once
  Calls,       \* the synchronous drivers that host code calls
  MaxJobs,     \* bound: deferred calls queued in a behaviour
  MaxRuns,     \* bound: calls of synchronous drivers in a behaviour
  MaxPanics,   \* bound: panics in host code
  NoTask,      \* no outer task
  Loop         \* stands for bun_embed_vm_wakeup in a waker

Tasks == WithTasks \cup IdleTasks \cup DriveTasks
Awaiters == Futures \cup WithTasks
Synchronous == {"run", "finish", "job"}
External == Awaiters \ (OnPromise \cup OnChannel)

ASSUME HostLoopAssumption ==
  /\ WithTasks \cap IdleTasks = {} /\ WithTasks \cap DriveTasks = {}
  /\ IdleTasks \cap DriveTasks = {} /\ Futures \cap Tasks = {}
  /\ OnPromise \subseteq Awaiters /\ OnChannel \subseteq Awaiters
  /\ OnPromise \cap OnChannel = {}
  /\ NoTask \notin Tasks \cup Futures /\ Loop \notin Tasks
  /\ Calls \subseteq Synchronous
  /\ MaxJobs \in Nat /\ MaxRuns \in Nat /\ MaxPanics \in Nat

VARIABLES
  futures,     \* Executor.futures
  incoming,    \* Executor.incoming
  driveWaker,  \* Executor.drive_waker: the task it wakes, or NoTask
  deferred,    \* RuntimeInner.deferred, the numbers of the queued calls
  jobs,        \* deferred calls queued so far
  ran,         \* deferred calls started so far
  armed,       \* what keeps Bun's loop alive
  fired,       \* events whose callback has been started
  loopWake,    \* a wakeup of Bun's I/O loop that nothing consumed yet
  spawned, finished, lost,  \* futures given to spawn, completed, dropped
  due,         \* awaiters whose awaited promise, channel or timer is ready
  waker,       \* the waker each awaiter was last polled with
  woken, done, \* outer tasks scheduled for a poll; completed or dropped
  stack,       \* driver frames, the innermost last
  runs, panics

execVars == <<futures, incoming, driveWaker, spawned, finished, lost>>
jobVars  == <<deferred, jobs, ran>>
bunVars  == <<armed, fired, loopWake>>
wakeVars == <<due, waker, woken, done>>
vars == <<execVars, jobVars, bunVars, wakeVars, stack, runs, panics>>

Drivers == Synchronous \cup {"with", "idle", "drive", "promise"}
PCs == {"job", "deferred", "main", "mainReady", "take", "poll", "pollReady", "tick",
        "decide", "wait", "waited", "check"}

\* One driver being executed: `todo' and `kept' are the local vector of
\* poll_all (still to poll, and polled and pending), `busy' says that host
\* or JavaScript code called from this frame is running.
Frame == [driver: Drivers, self: Tasks \cup Futures \cup {NoTask}, pc: PCs,
          busy: BOOLEAN, todo: Seq(Futures), kept: Seq(Futures),
          completed: BOOLEAN]

Start(driver) == IF driver = "promise" THEN "check"
                 ELSE IF driver = "job" THEN "job" ELSE "deferred"

NewFrame(driver, self) ==
  [driver |-> driver, self |-> self, pc |-> Start(driver), busy |-> FALSE,
   todo |-> <<>>, kept |-> <<>>, completed |-> FALSE]

Kind(t) == IF t \in WithTasks THEN "with"
           ELSE IF t \in IdleTasks THEN "idle" ELSE "drive"

Top == Last(stack)
Running == stack # <<>> => Top.busy
At(pc) == stack # <<>> /\ ~Top.busy /\ Top.pc = pc
Busy(pc) == stack # <<>> /\ Top.busy /\ Top.pc = pc
SetTop(frame) == stack' = [stack EXCEPT ![Len(stack)] = frame]
Goto(pc) == SetTop([Top EXCEPT !.pc = pc])
Call(pc) == SetTop([Top EXCEPT !.pc = pc, !.busy = TRUE])
Below == Front(stack)

BugHasPending == futures # <<>>  \* a spawned future not polled yet is missed
HasPending == futures # <<>> \/ incoming # <<>>
LoopAlive == armed # {}

\* The waker a frame polls with: combined_waker in a task, wake_loop_waker in
\* run_until_idle; a PromiseFuture makes none.
BugFrameWaker(frame) == {frame.self} \cap Tasks  \* does not wake Bun's loop
FrameWaker(frame) == {Loop} \cup ({frame.self} \cap Tasks)

\* Tasks scheduled once a future is spawned: the task of drive(), if any.
BugDriveWoken == woken  \* spawn does not wake drive()
DriveWoken == [t \in Tasks |-> woken[t] \/ t = driveWaker]

\* The waker stored by x is called; the bug wakes Bun's loop, not the task.
BugWake(x) ==
  UNCHANGED woken /\ loopWake' = (loopWake \/ Loop \in waker[x])
Wake(x) ==
  /\ woken' = [t \in Tasks |-> woken[t] \/ t \in waker[x]]
  /\ loopWake' = (loopWake \/ Loop \in waker[x])

Init ==
  /\ futures = <<>> /\ incoming = <<>> /\ driveWaker = NoTask
  /\ spawned = {} /\ finished = {} /\ lost = {}
  /\ deferred = <<>> /\ jobs = 0 /\ ran = 0
  /\ armed = {} /\ fired = {} /\ loopWake = FALSE
  /\ due = {} /\ waker = [x \in Awaiters |-> {}]
  /\ woken = [t \in Tasks |-> TRUE] /\ done = {}
  /\ stack = <<>> /\ runs = 0 /\ panics = 0

-----------------------------------------------------------------------------
(* What host and JavaScript code may do while it runs.                     *)

Spawn(f) ==
  /\ Running /\ f \notin spawned
  /\ spawned' = spawned \cup {f}
  /\ incoming' = Append(incoming, f)
  /\ woken' = DriveWoken
  /\ UNCHANGED <<futures, driveWaker, finished, lost, jobVars, bunVars, due,
                 waker, done, stack, runs, panics>>

BugEnqueue(j) == <<j>> \o deferred  \* push_front
Enqueue(j) == Append(deferred, j)

Defer ==
  /\ Running /\ jobs < MaxJobs
  /\ jobs' = jobs + 1
  /\ deferred' = Enqueue(jobs + 1)
  /\ UNCHANGED <<execVars, ran, bunVars, wakeVars, stack, runs, panics>>

Arm(e) ==
  /\ Running /\ e \notin armed \cup fired
  /\ armed' = armed \cup {e}
  /\ UNCHANGED <<execVars, jobVars, fired, loopWake, wakeVars, stack, runs,
                 panics>>

\* Code of this thread settles the promise, or sends on the channel, that x
\* awaits.  PromiseFuture ignores its waker: a settled promise wakes nobody.
Settle(x) ==
  /\ Running /\ x \in (OnPromise \cup OnChannel) \ due
  /\ due' = due \cup {x}
  /\ IF x \in OnPromise THEN UNCHANGED <<woken, loopWake>> ELSE Wake(x)
  /\ UNCHANGED <<execVars, jobVars, armed, fired, waker, done, stack, runs,
                 panics>>

\* run_until_idle called from host code, or from outside any driver.
CallRun ==
  /\ Running /\ runs < MaxRuns /\ "run" \in Calls
  /\ runs' = runs + 1
  /\ stack' = Append(stack, NewFrame("run", NoTask))
  /\ UNCHANGED <<execVars, jobVars, bunVars, wakeVars, panics>>

\* Promise::finish, of the promise that f awaits.
CallFinish(f) ==
  /\ Running /\ runs < MaxRuns /\ "finish" \in Calls /\ f \in OnPromise
  /\ runs' = runs + 1
  /\ stack' = Append(stack, NewFrame("finish", f))
  /\ UNCHANGED <<execVars, jobVars, bunVars, wakeVars, panics>>

CallJob ==
  /\ Running /\ runs < MaxRuns /\ "job" \in Calls
  /\ runs' = runs + 1
  /\ stack' = Append(stack, NewFrame("job", NoTask))
  /\ UNCHANGED <<execVars, jobVars, bunVars, wakeVars, panics>>

\* A panic unwinds every frame up to the outer task; what the frames hold is
\* dropped with them.
Panic ==
  /\ stack # <<>> /\ Top.busy /\ panics < MaxPanics
  /\ panics' = panics + 1
  /\ lost' = lost \cup UNION {ToSet(stack[i].todo) \cup ToSet(stack[i].kept) :
                              i \in DOMAIN stack}
  /\ done' = done \cup ({stack[1].self} \cap Tasks)
  /\ stack' = <<>>
  /\ UNCHANGED <<futures, incoming, driveWaker, spawned, finished, jobVars,
                 bunVars, due, waker, woken, runs>>

HostCode ==
  \/ \E f \in Futures : Spawn(f)
  \/ Defer
  \/ \E e \in Events : Arm(e)
  \/ \E x \in Awaiters : Settle(x)
  \/ CallRun \/ CallJob \/ \E f \in Futures : CallFinish(f)
  \/ Panic

-----------------------------------------------------------------------------
(* Other threads, and the outer executor that polls the tasks.             *)

\* A thread or timer outside the runtime provides what x waits for.
Provide(x) ==
  /\ x \in External \ due /\ x \in spawned \cup WithTasks
  /\ due' = due \cup {x}
  /\ Wake(x)
  /\ UNCHANGED <<execVars, jobVars, armed, fired, waker, done, stack, runs,
                 panics>>

\* Drive::poll stores its waker first; the bug does so for every task.
BugRegister(t) == t
Register(t) == IF t \in DriveTasks THEN t ELSE driveWaker

PollTask(t) ==
  /\ stack = <<>> /\ woken[t] /\ t \notin done
  /\ woken' = [woken EXCEPT ![t] = FALSE]
  /\ driveWaker' = Register(t)
  /\ stack' = <<NewFrame(Kind(t), t)>>
  /\ UNCHANGED <<futures, incoming, spawned, finished, lost, jobVars, bunVars,
                 due, waker, done, runs, panics>>

\* The owner drops the future of a task between two polls.
Cancel(t) ==
  /\ stack = <<>> /\ t \in Tasks \ done
  /\ done' = done \cup {t}
  /\ UNCHANGED <<execVars, jobVars, bunVars, due, waker, woken, stack, runs,
                 panics>>

-----------------------------------------------------------------------------
(* run_deferred and the end of a callback.                                 *)

RunJob ==
  /\ At("deferred") /\ deferred # <<>>
  /\ deferred' = Tail(deferred)
  /\ ran' = ran + 1
  /\ Call("deferred")
  /\ UNCHANGED <<execVars, jobs, bunVars, wakeVars, runs, panics>>

\* Promise::finish polls no host future: Bun ticks until the promise settles.
AfterJobs(frame) ==
  IF frame.driver # "finish" THEN "take"
  ELSE IF frame.self \in due THEN "decide" ELSE "tick"

NoJob ==
  /\ At("deferred") /\ deferred = <<>>
  /\ IF Top.driver = "with"
     THEN /\ Call("main")
          /\ waker' = [waker EXCEPT ![Top.self] = FrameWaker(Top)]
     ELSE /\ Goto(AfterJobs(Top))
          /\ UNCHANGED waker
  /\ UNCHANGED <<execVars, jobVars, bunVars, due, woken, done, runs, panics>>

\* execute_pending_job runs one deferred call, or else ticks.
PendingJob ==
  /\ At("job")
  /\ IF deferred # <<>>
     THEN deferred' = Tail(deferred) /\ ran' = ran + 1 /\ Call("decide")
     ELSE UNCHANGED <<deferred, ran>> /\ Goto("tick")
  /\ UNCHANGED <<execVars, jobs, bunVars, wakeVars, runs, panics>>

\* A deferred call or a callback of Bun's loop returns.
EndCallback ==
  /\ \E pc \in {"deferred", "tick", "waited", "decide"} : Busy(pc)
  /\ SetTop([Top EXCEPT !.busy = FALSE])
  /\ UNCHANGED <<execVars, jobVars, bunVars, wakeVars, runs, panics>>

-----------------------------------------------------------------------------
(* Executor::poll_all, and the poll of one future.                         *)

BugTake ==  \* `incoming' is never appended
  /\ At("take")
  /\ SetTop([Top EXCEPT !.pc = "poll", !.todo = futures, !.completed = FALSE])
  /\ futures' = <<>>
  /\ UNCHANGED <<incoming, driveWaker, spawned, finished, lost, jobVars,
                 bunVars, wakeVars, runs, panics>>
Take ==
  /\ At("take")
  /\ SetTop([Top EXCEPT !.pc = "poll", !.todo = futures \o incoming,
                        !.completed = FALSE])
  /\ futures' = <<>> /\ incoming' = <<>>
  /\ UNCHANGED <<driveWaker, spawned, finished, lost, jobVars, bunVars,
                 wakeVars, runs, panics>>

PollNext ==
  /\ At("poll") /\ Top.todo # <<>>
  /\ Call("poll")
  /\ waker' = [waker EXCEPT ![Head(Top.todo)] = FrameWaker(Top)]
  /\ UNCHANGED <<execVars, jobVars, bunVars, due, woken, done, runs, panics>>

\* poll_all stores what is pending before what is there by now.
StoreBack ==
  /\ At("poll") /\ Top.todo = <<>>
  /\ futures' = Top.kept \o futures
  /\ SetTop([Top EXCEPT !.pc = "tick", !.kept = <<>>])
  /\ UNCHANGED <<incoming, driveWaker, spawned, finished, lost, jobVars,
                 bunVars, wakeVars, runs, panics>>

\* What the frame is polling: the body of async_with or a spawned future.
Polled(frame) == IF frame.pc = "main" THEN frame.self ELSE Head(frame.todo)

\* The frame once that poll returned Pending, and once its await is over and
\* the rest of the future runs.
BugAfterPending(frame) ==  \* retain_mut drops what is pending
  IF frame.pc = "main" THEN [frame EXCEPT !.pc = "take", !.busy = FALSE]
  ELSE [frame EXCEPT !.busy = FALSE, !.todo = Tail(@)]
AfterPending(frame) ==
  IF frame.pc = "main" THEN [frame EXCEPT !.pc = "take", !.busy = FALSE]
  ELSE [frame EXCEPT !.busy = FALSE, !.todo = Tail(@),
                     !.kept = Append(@, Head(frame.todo))]
AfterReady(frame) ==
  [frame EXCEPT !.pc = IF @ = "main" THEN "mainReady" ELSE "pollReady"]

\* The frame once the future it polled returned Ready.
BugAfterDone(frame) ==  \* retain_mut keeps what is done
  [frame EXCEPT !.pc = "poll", !.busy = FALSE, !.todo = Tail(@),
                !.kept = Append(@, Head(frame.todo)), !.completed = TRUE]
AfterDone(frame) ==
  [frame EXCEPT !.pc = "poll", !.busy = FALSE, !.todo = Tail(@),
                !.completed = TRUE]

\* The code being polled reaches its await: a promise is awaited through a
\* nested PromiseFuture::poll, anything else is ready or not.
Await ==
  /\ Busy("main") \/ Busy("poll")
  /\ LET x == Polled(Top)
     IN  IF x \in OnPromise THEN stack' = Append(stack, NewFrame("promise", x))
         ELSE SetTop(IF x \in due THEN AfterReady(Top) ELSE AfterPending(Top))
  /\ UNCHANGED <<execVars, jobVars, bunVars, wakeVars, runs, panics>>

Finish ==
  /\ Busy("pollReady")
  /\ finished' = finished \cup {Head(Top.todo)}
  /\ SetTop(AfterDone(Top))
  /\ UNCHANGED <<futures, incoming, driveWaker, spawned, lost, jobVars,
                 bunVars, wakeVars, runs, panics>>

-----------------------------------------------------------------------------
(* Bun's loop: tick and auto_tick_active.  Which armed events are ready is *)
(* the environment's choice.                                               *)

\* A callback of the loop starts: in a tick, or when auto_tick_active, which
\* blocks for the first, has one.
Fire(e) ==
  /\ e \in armed
  /\ \/ At("tick") /\ Call("tick")
     \/ (At("wait") \/ At("waited")) /\ Call("waited")
  /\ armed' = armed \ {e} /\ fired' = fired \cup {e}
  /\ UNCHANGED <<execVars, jobVars, loopWake, wakeVars, runs, panics>>

EndTick ==
  /\ At("tick")
  /\ Goto("decide")
  /\ UNCHANGED <<execVars, jobVars, bunVars, wakeVars, runs, panics>>

\* auto_tick_active returns, after an event or because of a wakeup; what waits
\* for a promise ticks again.
Resume(driver) == IF driver = "finish" THEN "tick" ELSE Start(driver)
EndWait ==
  /\ At("waited") \/ (At("wait") /\ loopWake)
  /\ loopWake' = FALSE
  /\ Goto(Resume(Top.driver))
  /\ UNCHANGED <<execVars, jobVars, armed, fired, wakeVars, runs, panics>>

-----------------------------------------------------------------------------
(* PromiseFuture::poll.                                                    *)

InPromise(pc) == At(pc) /\ Top.driver = "promise"

\* The frame returns to the poll below it.
PromiseReturn ==
  /\ Len(stack) > 1
  /\ LET caller == stack[Len(stack) - 1]
     IN  \/ /\ (InPromise("check") \/ InPromise("decide")) /\ Top.self \in due
            /\ stack' = [Below EXCEPT ![Len(stack) - 1] = AfterReady(caller)]
         \/ /\ Top.self \notin due
            /\ \/ InPromise("check") /\ (HasPending \/ deferred # <<>>)
               \/ InPromise("decide") /\ ~LoopAlive
            /\ stack' = [Below EXCEPT ![Len(stack) - 1] = AfterPending(caller)]
  /\ UNCHANGED <<execVars, jobVars, bunVars, wakeVars, runs, panics>>

PromiseTick ==
  /\ InPromise("check") /\ Top.self \notin due
  /\ ~HasPending /\ deferred = <<>>
  /\ Goto("tick")
  /\ UNCHANGED <<execVars, jobVars, bunVars, wakeVars, runs, panics>>

-----------------------------------------------------------------------------
(* What each driver does after its tick.                                   *)

Deciding(driver) == At("decide") /\ Top.driver = driver

\* A future completed: the task drivers propagate and poll again.
Repoll ==
  /\ Deciding("with") \/ Deciding("idle") \/ Deciding("drive")
  /\ Top.completed
  /\ Goto("deferred")
  /\ UNCHANGED <<execVars, jobVars, bunVars, wakeVars, runs, panics>>

Block ==
  /\ LoopAlive
  /\ \/ Deciding("run")
     \/ Deciding("with") /\ ~Top.completed
     \/ Deciding("idle") /\ ~Top.completed /\ ~HasPending
     \/ (Deciding("promise") \/ Deciding("finish")) /\ Top.self \notin due
  /\ Goto("wait")
  /\ UNCHANGED <<execVars, jobVars, bunVars, wakeVars, runs, panics>>

\* run_until_idle polls the host futures again without blocking; what waits for
\* a promise ticks again.
Yield ==
  /\ ~LoopAlive
  /\ \/ Deciding("run") /\ (HasPending \/ deferred # <<>>)
     \/ Deciding("finish") /\ Top.self \notin due
  /\ Goto(Resume(Top.driver))
  /\ UNCHANGED <<execVars, jobVars, bunVars, wakeVars, runs, panics>>

\* Drive::poll asks to be polled again as long as host futures are pending.
BugAgain(frame) == FALSE
Again(frame) == frame.driver = "drive" /\ HasPending

\* The future of a task returns Pending.
Park ==
  /\ \/ Deciding("with") /\ ~LoopAlive
     \/ Deciding("idle") /\ (HasPending \/ (~LoopAlive /\ deferred # <<>>))
     \/ Deciding("drive")
  /\ ~Top.completed
  /\ stack' = Below
  /\ woken' = [t \in Tasks |-> woken[t] \/ (t = Top.self /\ Again(Top))]
  /\ UNCHANGED <<execVars, jobVars, bunVars, due, waker, done, runs, panics>>

\* run_until_idle returns, or the future of idle() is ready.
ReturnIdle ==
  /\ Deciding("run") \/ (Deciding("idle") /\ ~Top.completed)
  /\ ~LoopAlive /\ ~HasPending /\ deferred = <<>>
  /\ stack' = Below
  /\ done' = done \cup ({Top.self} \cap Tasks)
  /\ UNCHANGED <<execVars, jobVars, bunVars, due, waker, woken, runs, panics>>

\* Promise::finish has its settled promise, execute_pending_job its answer.
ReturnCall ==
  /\ (Deciding("finish") /\ Top.self \in due) \/ Deciding("job")
  /\ stack' = Below
  /\ UNCHANGED <<execVars, jobVars, bunVars, wakeVars, runs, panics>>

\* The body of async_with is done, and so is its task.
ReturnMain ==
  /\ Busy("mainReady")
  /\ stack' = Below
  /\ done' = done \cup {Top.self}
  /\ UNCHANGED <<execVars, jobVars, bunVars, due, waker, woken, runs, panics>>

Driver ==
  \/ RunJob \/ NoJob \/ PendingJob \/ EndCallback
  \/ Take \/ PollNext \/ StoreBack \/ Await \/ Finish
  \/ EndTick \/ EndWait
  \/ PromiseReturn \/ PromiseTick
  \/ Repoll \/ Block \/ Yield \/ Park \/ ReturnIdle \/ ReturnCall \/ ReturnMain

Bun == \E e \in Events : Fire(e)

Outside ==
  \/ \E x \in Awaiters : Provide(x)
  \/ \E t \in Tasks : PollTask(t) \/ Cancel(t)

Next == HostCode \/ Driver \/ Bun \/ Outside

Spec == Init /\ [][Next]_vars

-----------------------------------------------------------------------------
(* Fairness.  A driver runs to its next return as long as the host code it *)
(* calls returns.  What other threads were asked for they provide.  Tokio's *)
(* queue of woken tasks is first in, first out, so a woken task is polled   *)
(* even when others keep waking themselves: strong fairness, since the     *)
(* poll of another task disables it for a while.  Nothing is assumed of    *)
(* Bun's events here: a socket may stay silent.                            *)

Fairness ==
  /\ WF_vars(Driver)
  /\ \A x \in Awaiters : WF_vars(Provide(x))
  /\ \A t \in Tasks : SF_vars(PollTask(t))

FairSpec == Spec /\ Fairness

\* A timer expires, a socket has data: whoever blocks in auto_tick_active is
\* eventually served.
BunFairness == WF_vars(Bun)

-----------------------------------------------------------------------------
\* The type invariant.
TypeOK ==
  /\ futures \in Seq(Futures) /\ incoming \in Seq(Futures)
  /\ driveWaker \in DriveTasks \cup {NoTask}
  /\ spawned \subseteq Futures /\ finished \subseteq Futures
  /\ lost \subseteq Futures
  /\ deferred \in Seq(Nat) /\ jobs \in 0..MaxJobs /\ ran \in Nat
  /\ armed \subseteq Events /\ fired \subseteq Events /\ loopWake \in BOOLEAN
  /\ due \subseteq Awaiters
  /\ waker \in [Awaiters -> SUBSET (Tasks \cup {Loop})]
  /\ woken \in [Tasks -> BOOLEAN] /\ done \subseteq Tasks
  /\ stack \in Seq(Frame)
  /\ runs \in 0..MaxRuns /\ panics \in 0..MaxPanics
=============================================================================
