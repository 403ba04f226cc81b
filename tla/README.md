# A TLA+ model of rbun

rbun embeds Bun, and with it JavaScriptCore, in a Rust program, behind an API shaped
like rquickjs. The library is `src/crates/rbun/src`; it calls a C ABI that a patch adds to Bun
(`src/packages/dev/improve/rbun/configs/patching/codemods/bun/files/src/runtime/embed.rs`, "embed.rs"
below). This directory holds TLA+ modules of the library's control, TLC
configurations that check them, and proofs of the main results for TLAPS.

## 1. Inventory

| component | state | operations | what makes it correct |
|---|---|---|---|
| executor of host futures (`async_rt.rs`, `runtime.rs`, `value.rs`) | `futures`, `incoming`, `drive_waker`, the wakers futures hold | `spawn`, `poll_all`, `async_with`, `idle`, `drive`, `PromiseFuture`, `run_until_idle`, `Promise::finish` | no future lost or doubled, no lost wakeup, idle means done, progress |
| deferred calls (`function.rs`, `runtime.rs`) | `deferred` | `defer`, `run_deferred`, `execute_pending_job` | run once, in order |
| module registry (`module.rs`, `loader.rs`) | `entries`, resolver, loader, protections; Bun's own registry | `declare`, `declare_def`, `evict_module`, `set_loader`, `import`, `host_resolve`, `host_load` | what is registered is protected, what is loaded is current |
| host functions (`function.rs`, `error.rs`) | `FUNCTIONS`, `PENDING_PANIC`, pending exception, `RefCell`s | trampoline, `call`, `call_raw`, `throw`, `catch` | panics reach the caller, `FnOnce` once, exclusive borrows |
| parameters and numbers (`function.rs`, `value.rs`) | the cursor of `Params` | `take`, `FromParam`, `IntoJs`, `FromJs` | arguments in their places, integers exact or refused |
| handles (`value.rs`, `persistent.rs`, `class.rs`) | protection counts, caches of raw pointers, `INSTANCE_DROPS` | clone, drop, save, restore, intern, prototype, finalize | nothing held is collected, nothing leaks |
| booting and test runner (`runtime.rs`, embed.rs) | `PROCESS_INIT`, `PROCESS_TEST_MODE`, `isBunTest`, `Jest::RUNNER`, `THREAD_RUNTIME`, `TEST_REPORTER` | `Runtime::new*`, `run_test_file`, `set_import_meta_hook` | one VM per thread, initialised process, one mode, no file on a runner that was torn down |
| life of a VM (`runtime.rs`, embed.rs) | `vm.main`, exit code and `requested`, `unhandled_error_counter`, Bun's loop | `configure_entrypoint`, `run_eval_source`, `tick`, `finish_process` | a failed entry shows in the exit code |
| values, objects, conversions (`value.rs`, `object.rs`, `atom.rs`, `convert.rs`) | the counters of `ArrayIter` and `ObjectIter` | `type_of`, `interpretable_as`, the typed views, `FromJs`, `IntoJs`, `own_keys`, `own_props`, `Array::iter` | what is written reads back, a walk meets each element once, also while JavaScript edits |
| iterables (`iterable.rs`) | the `RefCell<Option<I>>` of `Iterable`, the `done` flag of `JsIterator` | `next` from JavaScript and from Rust | items in order, none twice, done for good |
| strings, serde, macros, hosts, build and packaging | see section 7 | | |

How they interact. Everything but the wakers runs on the runtime's thread. Host
code calls JavaScript through the C API; JavaScript calls host code through the trampoline;
Bun's loop calls either, from `tick` and `auto_tick_active`; Bun's module loader calls `host_resolve` and
`host_load`; JavaScriptCore's collector calls finalizers. All of these nest. Other threads only
call wakers, which wake a task of the outer executor (tokio) and Bun's I/O loop.
Runtimes on different threads share Bun's process-wide switches.

What is hard: re-entrancy (a driver inside a poll inside a driver; a declaration inside the
evaluation it replaces; a method on the instance it runs on), wake-ups that race with
polls, unwinding through frames that hold state, values cached across a callback,
reference counts kept by hand, and process state that threads check and then set. `PROJECT.json` lists these hazards at their lines.

## 2. Modules

| module | models | role |
|---|---|---|
| `HostLoop` | executor, deferred calls, the seven drivers, Bun's loop as environment, wakers | state machine |
| `WorkPool` | what the users of executor and queue rely on | abstract specification |
| `HostLoopProps` | properties of `HostLoop`, among them that it implements `WorkPool` | run module |
| `HostLoopProofs` | theorems about `HostLoop` and its wakers | proofs |
| `Modules`, `MCModules`, `ModulesProofs` | registry, resolvers, loaders and Bun's loader above | state machine, its instance, proofs |
| `HostCalls`, `MCHostCalls`, `HostCallsProofs` | calls between Rust and JavaScript | state machine, its instance, proofs |
| `Roots`, `RootsProofs` | protections of JavaScript cells | state machine, proofs |
| `Boot`, `Lifecycle`, `MCBoot`, `BootProofs` | booting and the state of the process; the life of one VM until its process ends | two state machines, their instance, proofs about both |
| `HostArgs` | arguments to parameters, numbers in both directions | state machine over pure operators |
| `Values` | the kinds of JavaScript values, keys, objects and arrays, what is collected from them | pure operators |
| `Conversions` | `FromJs` and `IntoJs` of all types but numbers | pure operators: what the impl of one type does, given those of its parts |
| `Collections` | an array or object that is written, edited and walked | state machine over `Conversions` |
| `Iterables` | `Iterable` and `JsIterator` | state machine |
| `Crossing` | what crosses: `HostArgs`, `Collections` or `Iterables` | composition |
| `MCHostArgs`, `MCConversions`, `MCCrossing` | instances of `HostArgs`, of `Collections`, and of `Crossing` | run module `MCCrossing` |
| `CrossingProofs` | theorems about `Crossing` and its three machines | proofs |
| `ConversionsProofs` | what comes back of a value that was written | proofs |
| `Facts` | lemmas on sequences, smallest numbers, recursion and powers of two that all proofs share | proofs |

**HostLoop.** `stack` is the Rust call stack reduced to the drivers on it: one frame per
`run_until_idle` ("run"), `Promise::finish` ("finish"), `execute_pending_job` ("job"), `drive` ("with"), `Idle::poll` ("idle"),
`Drive::poll` ("drive") and `PromiseFuture::poll` ("promise"). `Calls` says which of the first three, the synchronous ones, host code uses. A frame has a program counter that follows the source's
loop (`deferred`, `main`, `take`, `poll`, `tick`, `decide`, `wait`) and the local vector of `poll_all`: `todo`
is what `retain_mut` has still to poll and `kept` what it polled and keeps. While `busy`, code called from the frame runs: it may
`Spawn`, `Defer`, `Arm` an event of Bun's loop, `Settle` a promise or channel, start a synchronous driver, or
`Panic`, which drops what the frames hold. `waker[x]` is the waker the future last saw: the
task's and Bun's loop's (`combined_waker`), or only Bun's (`wake_loop_waker`). `due` holds the
awaiters whose promise, channel or timer is ready. A `PromiseFuture` ignores its waker, so settling a promise wakes nobody.

**Modules.** `entries` is `ModuleRegistry.entries`, `protects` the protections of the import.meta and exports
objects it refers to, `cache` Bun's registry. One frame on `stack` per import that waits in a resolver, a loader
or a definition's `evaluate`; while it waits, host code may declare, evict and import. Resolver and loader are
called with their `RefCell` borrowed, so re-entering them panics (`Unwind`).

**HostCalls.** Host and JavaScript frames alternate on `stack`. `slot` is `pending_exception`, `pending` is
`PENDING_PANIC`; exceptions and panics are numbered as they are thrown. The kinds of entry differ as in the code: `call_arg` resumes
panics and drains microtasks, `call_raw` (also `get`, `construct`, `tick`) resumes panics, `contains_key`, `remove` and
`finish` do not, `is_instance_of` and `to_string_lossy` drop the exception as well.

**HostArgs.** `args` and `index` are those of `Params`; one action per `FromParam`. The widths 2^7..2^32, 2^53 and 2^63 are scaled to
2^1, 2^2 and 2^4: enough for the wide types not to fit a double and for their bounds, as doubles, to round up to a power of two.

**Roots.** `Cells` are addresses, reused after a collection. `protects` is JavaScriptCore's
count; each owner the source has is a variable. `reached` is what JavaScript, or the machine stack, reaches.

**Boot.** One program counter per thread through `new_with_mode` and `bun_embed_vm_create_impl`, with each read and
write of process state an action of its own, and the process-wide import.meta callback that `set_import_meta_hook` installs and removes.
`tests` are the calls of `run_test_file` under way on a thread: `Runtime` is `Clone`, so a host function that a test file, or a listener of its `exit`, calls may
call it again (and `Runtime::new` and `set_import_meta_hook` too). `TEST_REPORTER` is the only guard, and each return tears the runner down.

**Lifecycle.** One VM, from `configure_entrypoint` and `run_eval_source` to the end of the process. `phase` follows `finish_process`: draining, `beforeExit` (which may
start more work, which nobody drains), reporting, `exit`. JavaScript runs in all of them, in the listeners that `on_exit` calls too (`JsRuns`): it may reject, handle or settle entry promises, set
`process.exitCode`, call `process.exit`, start work, and call host functions that configure, evaluate, tick or call `finish_process` again. `failed` and `overridden` are ghosts: how an entry was
rejected, and whether JavaScript chose the exit code after the last rejection that Bun put into it. A rejection while `exit` is dispatched is too late to be in the code, and `failed` does not count it.

**Values, Conversions and Collections.** A value of either side is a tuple with a tag; a type is a term, `<<"option", <<"i32">>>>` for `Option<i32>`. `FromJs`
and `IntoJs` are functions of type and value and fail as the source fails. The impl of a type calls those of its parts, which the compiler finds: `Into` and `From` are all impls,
constants to which the run gives `IntoJs` and `FromJs` (`AllInto`, `AllFrom`). `Crossed[n]` are the values that cross, with types nested `n` deep at most, and `Survivors[n]` those of which nothing is lost; `ConversionsAssumption`
says that a value that crosses has its type, that its parts cross, and that `Into` and `From` of it are `IntoJs` and `FromJs`. No fact about a conversion is assumed. A function, class, promise or error is a `Cell` with the set of
answers JavaScriptCore gives about it, which may come together; `TypeOf` and `interpretable_as` ask in the source's order. Strings are
sequences of characters of which one may be an unpaired surrogate. `Collections` has one value, written by Rust (`Write`) or of JavaScript's making (`Meet`),
edits of it, and one `ArrayIter` (from both ends) or `ObjectIter` (keys collected first, by filter, values read later) over it. What is proved of the walks
holds for any `From` that answers with results (`CollectionsAssumption`).

**Iterables.** `frames` are the calls of `next` under way: the host iterator runs inside its `RefCell` borrow, the conversion of its item too,
and either may call JavaScript that calls `next` again, fail or panic. `seen` is what was delivered, in order.

`MCBoot` and `Crossing` put machines that share no state into one run; a variable `subject` picks one for the whole behaviour.

## 3. Runs

| run | shows | bounds and why they are enough | states |
|---|---|---|---|
| `loop_nested` | no future lost, doubled or unwoken; idle means done; `HostLoop` implements `WorkPool` | two futures (one awaiting a promise), an `async_with`, an `idle`, one event, one nested `run_until_idle` or `finish`, one panic: two vectors to mix up, a nested driver inside each outer one | 827,621 |
| `loop_live` | wake-ups reach `async_with`, `drive` completes futures, `run_until_idle` returns with nothing left; jobs in order | one future, `async_with` beside `drive`, two jobs, one nested `run_until_idle` or `execute_pending_job`, one event: the future can change hands between the two tasks and back | 288,681 |
| `modules` | protections balance, loaded is current | two names, resolver and loader chains of two (with a redirect and a native module), three declarations, four imports, two evaluations: an evaluation can be superseded inside another | 565,233 |
| `calls` | panics, borrows, `FnOnce`, the exception slot | five frames (host, JavaScript, host, JavaScript, host), three exceptions, two panics (one overwrites the other) | 1,250,856 |
| `roots` | protections | two addresses, two handles each, two instances, one nested `C::prototype`: every pair of owners on one cell, and reuse of an address | 1.1 million |
| `boot` | process initialisation, modes, test runner, import.meta callback; exit codes | two threads, two calls each, two files, one within the other or after it, on runners of two threads; two evaluations and two pieces of loop work: an entry that fails early beside one that fails late, and work that `beforeExit` starts | 221,126 |
| `conversions` | arguments and numbers; values and collections there and back; walks; iterables | all numbers up to three times the widest type, up to three arguments and 102 signatures; 19 written values of 16 types, nested up to three deep (`Depth`), 17 values of JavaScript's making; two edits during a walk, three filters of keys; three items and five calls of `next`, nested | 693,335 |
| `drive_parks`, `promise_starves`, `idle_parks`, `redeclare`, `panic_resumed` | the code against its own comments, section 5 | the smallest instance that shows it | |

`CHECK_DEADLOCK FALSE` everywhere: every program here may come to rest (all futures done, all bounds used up).
Every bound is a constant named in the module; they stop new work only, never work that was begun.

The properties that took most thought: `EachHeldOnce` (a future is in exactly one of `incoming`, `futures` and the local vectors of the `poll_all`s on the stack), `NoLostWakeup`,
`DriveCompletesFutures` (also when the future was last polled with the waker of an `async_with` that has ended), `LoadedIsCurrent`, `PanicReachesCaller`,
`NoOlderException`, `NothingElseLeaks`, `ModesAgreeUnlessRaced`, `StartsOnWholeRunner`, `RejectionReflected`, `WalkComplete`, `ComesBack`. Properties with an exception name it
exactly: `late` in `Modules`, `raced` in `Boot`, `reentered` in `Roots`, `overridden` in `Lifecycle`,
the two clauses of `Exact` and the one of `RoundTrip`, and, in `ComesBack`, what section 5 says does not come back (`Lossless`).

## 4. Fairness

`FairSpec` assumes: drivers run to their next return once the host code they call returns (`WF(Driver)`; they are sequential code);
other threads deliver what they were asked for (`WF(Provide(x))`); a woken task is polled (`SF(PollTask(t))`: tokio's queue of woken tasks
is first in first out, and while one task is polled the others cannot be, so weak fairness would not say it).
Nothing is assumed about Bun's events in `BodyCompletes` and `DriveCompletesFutures`: a socket may stay silent for ever. `RunReturns` has
the hypothesis that some event comes to whoever blocks on them (`BunFairness`), because `run_until_idle` is meant to block until the events it has
are over. `HostBlocks` excludes what host code does to itself by blocking the thread in a synchronous driver or on a promise.

## 5. Where the code and its comments disagree

- `drive_parks` (`async_rt.rs:118-120`): `drive` returns `Pending` although a callback run by its own tick left it work.
- `promise_starves` (`async_rt.rs:170`): a `PromiseFuture` inside `poll_all` does not see its siblings, which `poll_all` has taken out of the executor, and blocks the thread.
- `idle_parks` (`async_rt.rs:324-325`): `idle()` parks with nothing that would wake it for an event of Bun's loop.
- `redeclare` (`module.rs:98-99`): the exports of a definition being evaluated overwrite a newer declaration.
- `panic_resumed` (`function.rs:567-570`): a panic below an entry point that does not resume panics unwinds a later, unrelated caller.

Seen while modelling, without a run of their own:

- The race on `PROCESS_TEST_MODE`: a passing property, `ModesAgreeUnlessRaced`, says exactly when an ordinary and a test VM coexist, which `runtime.rs:136-137` rules out.
- `run_test_file` says that the VM is consumed by the call (`embed.rs:358-361`), and refuses a consumed runner. Nothing keeps a test file from calling it again through a host function: the inner run
  then starts on the runner of the outer one and tears it down, and the outer one goes on with it, and tears it down again. `StartsOnWholeRunner` says what does hold: no file starts once a run has returned.
- A test VM is called process-exclusive (`runtime.rs:134`, and the safety comment at `embed.rs:350`), but a second thread may create one: `Jest::RUNNER` then is the later one's, and the first teardown clears it for both.
- A rejection is "reflected in the exit code" (`runtime.rs:196-197`) until JavaScript chooses another code: after an early rejection, in a listener of `exit`, which runs after the last look at the
  counter, or by `process.exit`. One that is reported while `exit` is dispatched is not reflected at all.
- An `Error::Exception` kept across another call loses its exception, and `or_throw` replaces one that is pending.
- Numbers (`Exact`, `RoundTrip`): a double of 2^63 becomes `i64::MAX`, and a `u64` above `i64::MAX` does not come back.
- Values (`ComesBack`): `Some` of something that reads as null comes back as `None`; a time finer than a millisecond or beyond Date's range changes or is lost;
  a map entry `__proto__` is no property; a map with integer keys cannot be read back at all, since keys are strings (`atom.rs:184`, `atom.rs:215-225`).
- A symbol key read as a `String` gives "[exception]" (`atom.rs:47-54`), where the comment promises `String(key)`. `own_key_values` and `Array::len` swallow errors.
- `run_eval_source` requires a main path that ends in `/[eval]`, where its documentation says `[eval]`; a Windows path separator is refused too.
- embed.rs:781 calls the import.meta callback "written only from the VM thread", of which there may be several; `set_import_meta_hook(None)` on one silences the others (`HookSilencedByAnother`).
- `execute_pending_job` answers `false` when nothing was pending and when a deferred call failed. With two `drive` tasks, `spawn` wakes only the one whose waker is registered.
- `Exhaustive` is documented as an unconverted raw value (`function.rs:31`) and is a check for surplus arguments; `check_params` is never called; a
  runtime whose bootstrap failed is returned as `Ok` by the next `Runtime::new`; a frozen class is borrowed mutably by `with_instance`;
  a panic in one poll drops the other host futures.

## 6. Proofs

`HostLoopProofs` proves, for all constants that satisfy `HostLoopAssumption`:
`TypeCorrect`, `HeldExactlyOnce`, `JobsRunInOrder`, `IdleIsDone` and `PoolImplemented` (the refinement of `WorkPool`). `EachHeldOnce` is not inductive: it says
nothing about which vectors a frame may have at which program counter. The invariant `IInv` adds that (`FramesOK`: `todo` and `kept` are empty outside the
polling loop; a frame inside a poll has the polled future at the head of `todo`; only the innermost frame is not inside a poll or a body; only the outermost frame belongs to a task,
which has not ended; a promise frame sits above a frame that is polling; and only a "with" frame has a body), together with `TypeOK` and the order of the jobs. Then each action either leaves the vectors alone
(one lemma for all of these), or moves futures between two holders, where `Facts` says what concatenation, `Tail` and `Append` do to
injectivity and to the set of elements. `IdleMeansDone` follows from the guards of `ReturnIdle` and `HeldOnce`: with one frame left and both vectors empty there is no holder for a
spawned future. The refinement has one lemma per kind of abstract step.

Of the wakers, `HostLoopProofs` proves `WakeupsArrive` (`NoLostWakeup`) and `DriveWatches` (`DriveWatchesExecutor`), for any number of tasks. `NoLostWakeup` excuses a task that is
being polled; that is not inductive, since the poll may already be past the future when its wake comes. `Wakeups` says instead that the poll has the future still
`Ahead` of it, or the task is marked woken, and follows the outermost frame from counter to counter. `DriveWakes` says the same of `drive`: while futures are left, its task is
woken, or its frame will look at them before it ends. `WakeInv` adds who may hold a waker of which task (`WakersOK`) and where `PromiseFuture` frames sit.

`HostCallsProofs` proves the type invariant, `OnceRunsOnce`, `BorrowsExclusive`, `NoOlderException` and `PanicReachesCaller`, for any depth. `CallInv` adds that an `FnOnce` whose body ran
was taken (`BodiesUsed`), that what JavaScript throws above a host frame is no older than that frame's error (`NewerAbove`), and that a panic on its way is parked or unwinding the innermost frame
(`PanicUnderWay`), which is what makes the action property true.

`RootsProofs` proves the type invariant, `HeldIsLive`, `DroppedWithInstance` and `NothingElseLeaks`. `HeldIsLive` says nothing about counts, so an unprotect could free what another owner holds; `RootInv` has the
inequality `Covered` (each cell is protected at least once per owner), that only live cells are protected or reached, and that a live instance has its own Rust value. Most of
the proof is what one step does to the cardinalities of the sets of owners. `NothingElseLeaks` bounds the sum, over all cells, of their balances (protections
less owners). A step leaves each balance as it is (`Even`), except for the one that replaces the class's prototype, which raises one of them by one; `LeakInv` counts, by the calls of
`C::prototype` under way, how often that can still happen. What this does to the sum is proved about `MapThenSumSet` itself, by the smallest set of cells that would contradict it.

`ModulesProofs` proves the type invariant, `ProtectedWhileRegistered`, `Released` and `LoadedIsCurrent`. The first three rest on `RegistryInv`: the entries refer to disjoint sets of values (`Apart`), no value is protected
twice, those of later declarations not at all, and each late evaluation leaks at most one. `LoadedIsCurrent` rests on `LoadOK`: which waiting import an entry of Bun's that is being loaded belongs to
(`Awaited`: the innermost import of that name, whose definition is still the one registered, unless it was superseded), and what it delivers.

`BootProofs` proves, of `Boot`, `BootTypeCorrect`, `InitBeforeVms`, `OnlyTheRaceMixesModes`, `FilesStartOnWholeRunners` and `OnlyAnotherSilences` from `BootInv`: beyond the types, a thread
past `init` implies the process is initialised (`InitOrder`); a thread past the mode check either agrees with the process or is in `raced`
(`ModeChecked`); a thread inside `new_with_mode` has no runtime and no VM until it publishes one (`OneVm`); and a reporter that is still set has seen no run return, and has the runner pointer unless another thread has a test VM (`RunnerWhole`),
whatever is on the stack of calls; only `RunTestFile` adds to that stack (`StartsWithReporter`).
Of `Lifecycle` it proves `RejectionInExitCode` from `LifeInv`: an early rejection has set the exit code already, a late one has raised `unhandled`, and reporting turns the latter into the former;
whoever changes the code after that is JavaScript.

`CrossingProofs` is about what crosses between the languages.

- `HostArgs`, for all widths that satisfy `HostArgsAssumption`, any signatures and any number of arguments. `EachItsArgument` (`ArgumentsInPlace`) rests on the cursor being a function
  of the parameters before it (`CursorInPlace`: as many arguments as parameters that take one, or all after `Rest`). `NumbersExact` and `NumbersReturn` are arithmetic: the doubles near
  a number are the multiples of a power of two (`SpacingDivides`), so that the narrow types are exact and the bounds of the wide ones round to the power next to them (`BoundsRound`).
  The prover knows nothing of `2^n`; `Facts` gets what is needed from the cardinality of the subsets of `1..n`.
- `Collections`, for any conversions. `WalksAreWhole` rests on `ArrayWalk`: what was read from either end, at which index and, while nobody has edited, of which element.
  `KeysAreGiven` rests on `PropsWalk`: the keys given and those left are those the object had, which needs that every edit leaves an object with keys of their own (`PropsMade`), and what
  `ownKeys` selects from them (`OwnKeysFacts`) and in which order (`OwnKeysInOrder`, through `TaggedInOrder`: to select twice keeps the order). `ViewsAgree` (`InterpretationSound`) goes through the questions of `type_of`, for any combination of answers.
- `Iterables`. `OrderOfItems` and `ExhaustedForGood` follow from `IterInv`: at most one call of `next` is inside the iterator, at any stage (`OneCall`), so its item is above all delivered ones, and an iterator
  that ended is gone from its cell.
- `CrossingParts` says that the composition is a behaviour of each of the three, so all of this holds of the specification the run checks; `CrossingTyped` is its type invariant.

`ConversionsProofs` proves `WrittenComesBack` (`ComesBack`): for any types, values and depth, a value that was written and not edited comes back as it was exactly when it is in `Survivors`. Each type
has a lemma (`VecSound`, `SetSound`, `TextsSound` for maps and so on): if the impls of the parts are sound, its own is, where `Sound` has three clauses. What comes back comes back as `Ok`; it is the value itself exactly when
nothing is lost of it (`Lossless`) and its parts survive; and a value that came back once comes back as it is from then on (`Settles`). The third is what sets need: if the set comes back, each member is the
image of one, and an impl that maps a finite set onto itself and leaves its images alone leaves all alone, so no two members came back as one another. `Some` needs that coming back preserves whether a value reads as null.
`EveryDepth` takes the smallest depth at which this fails. Objects are built from pairs by recursion along the sequence (`Assigned`); `RecursionExists` in `Facts` gives such functions, `Survivors` too, their defining equations.
`AsWritten` carries the fact from `Write` to the state `ComesBack` looks at. The proof found a step too many: `Meet` could replace what `Write` had written when that reads as undefined;
a behaviour now has one value from the start.

Induction over data needs a theorem with an operator as parameter, which the provers cannot instantiate. Where one is needed about numbers or finite sets (`KeptExists`, `RecursionExists`, `PowerOfSum`, `EveryDepth`, the sum of the balances), the
proof takes the smallest counterexample (`WFMin`, `SmallestNat`) and shows that there is a smaller one.

Only model-checked: all liveness (the prover handles neither fairness nor `ENABLED`). Every invariant and safety property of the passing runs is a theorem. The proofs assume only the named assumptions on the constants (`HostLoopAssumption`, `ConversionsAssumption`, `CollectionsAssumption` and their like), which the runs evaluate.

## 7. Not modelled

Whole parts: `ffi.rs` (declarations; what they do is modelled where they are called); `serde.rs` (through JSON text), `utils.rs`, the prelude; the derive macros; the command-line hosts (one call of the library each); build, patch, test-driver and packaging scripts;
Bun and JavaScriptCore themselves, except as the environment described above.

Of what is modelled, these parts are left out:

- `HostLoop`: a spawned future that itself polls an `async_with` or `idle` future, and a `finish` stopped by termination of the VM.
- `HostCalls`: the conversion of arguments, which only succeeds or fails there; `Async` functions other than as futures.
- `HostArgs`: the parameters `This` and `Ctx`, which take no argument.
- Objects: predefined atoms, property descriptors (`AsProperty`, `Accessor`), which pass what they get to `Object.defineProperty`, and array buffers, whose bytes no property tells apart.
- Classes: the constructor cache (it follows the prototype's, in `Roots`) and the registry of class entries.
- Strings: everything but unpaired surrogates.
- Boot: the text of test results and the exit code they set, environment variables, user data; what bun:test does on a runner that an inner call has torn down.

## 8. Plan

Done: the executor with all its drivers, the registry, calls, protections, boot and lifecycle, arguments and conversions, iterables, and a proof of every safety property of these. What is left:

1. `HostLoop`: nested task futures inside spawned futures; this relaxes `FramesOK`, which says that only the outermost frame belongs to a task.
2. A composition of `HostCalls` and `HostLoop`: panics and exceptions that cross a driver; `Async` functions and their promises.
3. Array buffers (`array_buffer.rs`: a slice borrowed while JavaScript may detach or resize the buffer, the empty buffer that is never freed).
4. The registry of classes (`class.rs`: one `ClassEntry` per Rust type, the constructor cache), in `Roots`.
