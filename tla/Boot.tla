---------------------------------- MODULE Boot ----------------------------------
(***************************************************************************)
(* Booting Bun: one runtime per thread, several threads in a process, and  *)
(* what the runtimes of a process share: the one-time initialisation, the  *)
(* choice between ordinary and test VMs, Bun's test switch and its Jest    *)
(* runner pointer, and the import.meta callback.  A thread executes        *)
(* Runtime::new_with_mode and bun_embed_vm_create step by step.            *)
(***************************************************************************)
EXTENDS Integers, FiniteSets, Sequences

CONSTANTS
  Threads,
  NoThread,
  MaxCalls,  \* bound: calls of Runtime::new per thread
  MaxFiles   \* bound: calls of run_test_file per thread

Modes == {"normal", "test"}

ASSUME BootAssumption ==
  NoThread \notin Threads /\ MaxCalls \in Nat /\ MaxFiles \in Nat

VARIABLES
  initOnce,     \* PROCESS_INIT: "new", "running" or "done"
  processMode,  \* PROCESS_TEST_MODE, "none" when not set
  isBunTest,    \* Bun's global switch
  runner,       \* Jest::RUNNER: the thread whose reporter it points to
  metaCallback, \* the import.meta callback is registered
  pc, want,     \* per thread: the step of the call in progress, and its mode
  vms,          \* VMs that bun_embed_vm_create returned on the thread
  runtime,      \* THREAD_RUNTIME: its mode, "none" before it is published
  booted,       \* the bootstrap script ran and the hooks are installed
  reporter,     \* TEST_REPORTER is set
  hook,         \* the runtime has an import.meta hook
  tests,        \* calls of run_test_file under way, the outermost first: the
                \* "file" runs, or Bun is "exiting" after it
  ran,          \* calls of run_test_file that returned from a run
  calls, files, \* calls so far
  raced         \* threads that found the mode unset, and set when they set it

processVars == <<initOnce, processMode, isBunTest, runner, metaCallback>>
threadVars == <<want, vms, runtime, booted, reporter, hook, tests, ran, calls, files>>
vars == <<processVars, pc, threadVars, raced>>

PCs == {"idle", "init", "initialising", "read", "set", "switch", "vm",
        "publish", "bootstrap"}
Stages == {"file", "exiting"}

Init ==
  /\ initOnce = "new" /\ processMode = "none" /\ isBunTest = FALSE
  /\ runner = NoThread /\ metaCallback = FALSE
  /\ pc = [t \in Threads |-> "idle"] /\ want = [t \in Threads |-> "normal"]
  /\ vms = [t \in Threads |-> 0] /\ runtime = [t \in Threads |-> "none"]
  /\ booted = [t \in Threads |-> FALSE]
  /\ reporter = [t \in Threads |-> FALSE] /\ hook = [t \in Threads |-> FALSE]
  /\ tests = [t \in Threads |-> <<>>] /\ ran = [t \in Threads |-> 0]
  /\ calls = [t \in Threads |-> 0] /\ files = [t \in Threads |-> 0] /\ raced = {}

Goto(t, next) == pc' = [pc EXCEPT ![t] = next]

-----------------------------------------------------------------------------
(* Runtime::new_with_mode.                                                 *)

\* The thread's runtime is returned, or refused when its mode differs, only if
\* it has one; the step that follows for a thread without one is `init'.
BugHasRuntime(t) == booted[t]  \* a runtime whose bootstrap failed is replaced
HasRuntime(t) == runtime[t] # "none"

New(t, mode) ==
  /\ pc[t] = "idle" /\ calls[t] < MaxCalls
  /\ calls' = [calls EXCEPT ![t] = @ + 1]
  /\ IF HasRuntime(t) THEN UNCHANGED <<pc, want>>
     ELSE Goto(t, "init") /\ want' = [want EXCEPT ![t] = mode]
  /\ UNCHANGED <<processVars, vms, runtime, booted, reporter, hook, tests, ran,
                 files, raced>>

\* bun_embed_init: the first caller initialises, the others wait for it.
InitStarts(t) ==
  /\ pc[t] = "init" /\ initOnce = "new"
  /\ initOnce' = "running"
  /\ Goto(t, "initialising")
  /\ UNCHANGED <<processMode, isBunTest, runner, metaCallback, threadVars, raced>>
InitEnds(t) ==
  /\ pc[t] = "initialising"
  /\ initOnce' = "done"
  /\ Goto(t, "read")
  /\ UNCHANGED <<processMode, isBunTest, runner, metaCallback, threadVars, raced>>
BugMaySkipInit == initOnce # "new"  \* a flag instead of a Once
MaySkipInit == initOnce = "done"
InitSkipped(t) ==
  /\ pc[t] = "init" /\ MaySkipInit
  /\ Goto(t, "read")
  /\ UNCHANGED <<processVars, threadVars, raced>>

\* bun_embed_vm_create_impl: get, compare, and only then set; a value set in
\* between by another thread is ignored.
BugModeRefused(t) == FALSE
ModeRefused(t) == processMode \notin {"none", want[t]}
ReadMode(t) ==
  /\ pc[t] = "read"
  /\ Goto(t, IF ModeRefused(t) THEN "idle"
             ELSE IF processMode = "none" THEN "set" ELSE "switch")
  /\ UNCHANGED <<processVars, threadVars, raced>>
SetMode(t) ==
  /\ pc[t] = "set"
  /\ processMode' = IF processMode = "none" THEN want[t] ELSE processMode
  /\ raced' = IF processMode = "none" THEN raced ELSE raced \cup {t}
  /\ Goto(t, "switch")
  /\ UNCHANGED <<initOnce, isBunTest, runner, metaCallback, threadVars>>

StoreSwitch(t) ==
  /\ pc[t] = "switch"
  /\ isBunTest' = (want[t] = "test")
  /\ Goto(t, "vm")
  /\ UNCHANGED <<initOnce, processMode, runner, metaCallback, threadVars, raced>>

\* VirtualMachine::init and what follows it; a test VM gets its reporter.
CreateVm(t) ==
  /\ pc[t] = "vm"
  /\ vms' = [vms EXCEPT ![t] = @ + 1]
  /\ IF want[t] = "test"
     THEN runner' = t /\ reporter' = [reporter EXCEPT ![t] = TRUE]
     ELSE UNCHANGED <<runner, reporter>>
  /\ Goto(t, "publish")
  /\ UNCHANGED <<initOnce, processMode, isBunTest, metaCallback, want, runtime,
                 booted, hook, tests, ran, calls, files, raced>>
VmFails(t) ==
  /\ pc[t] = "vm"
  /\ Goto(t, "idle")
  /\ UNCHANGED <<processVars, threadVars, raced>>

\* CURRENT and THREAD_RUNTIME are set before the bootstrap script runs.
Publish(t) ==
  /\ pc[t] = "publish"
  /\ runtime' = [runtime EXCEPT ![t] = want[t]]
  /\ Goto(t, "bootstrap")
  /\ UNCHANGED <<processVars, want, vms, booted, reporter, hook, tests, ran,
                 calls, files, raced>>
Bootstrap(t) ==
  /\ pc[t] = "bootstrap"
  /\ booted' \in {booted, [booted EXCEPT ![t] = TRUE]}
  /\ Goto(t, "idle")
  /\ UNCHANGED <<processVars, want, vms, runtime, reporter, hook, tests, ran,
                 calls, files, raced>>

-----------------------------------------------------------------------------
(* What a runtime does with the state of the process.  The host calls it, or *)
(* a host function that JavaScript calls, also from within a test file: the  *)
(* thread is then in the calls of tests.                                     *)

\* bun_embed_test_run_file, refused in an ordinary process and when the runner
\* was consumed, and for no other reason: a test file, or a listener of its
\* 'exit', may call it again.
RunTestFile(t) ==
  /\ pc[t] = "idle" /\ runtime[t] = "test" /\ files[t] < MaxFiles
  /\ files' = [files EXCEPT ![t] = @ + 1]
  /\ tests' = IF processMode = "test" /\ reporter[t]
              THEN [tests EXCEPT ![t] = Append(@, "file")] ELSE tests
  /\ UNCHANGED <<processVars, pc, want, vms, runtime, booted, reporter, hook, ran,
                 calls, raced>>

\* The innermost call: calls return in the opposite order.
Innermost(t, stage) ==
  pc[t] = "idle" /\ tests[t] # <<>> /\ tests[t][Len(tests[t])] = stage

\* The file was run and its result is written: on_exit, which runs JavaScript.
DispatchExit(t) ==
  /\ Innermost(t, "file")
  /\ tests' = [tests EXCEPT ![t][Len(tests[t])] = "exiting"]
  /\ UNCHANGED <<processVars, pc, want, vms, runtime, booted, reporter, hook, ran,
                 calls, files, raced>>

\* teardown_test_runner, after on_exit or when the file could not be run, and the
\* return: a caller further out goes on without a runner.
BugTornDown(t) == reporter  \* TEST_REPORTER is not cleared
TornDown(t) == [reporter EXCEPT ![t] = FALSE]
EndTestFile(t) ==
  /\ Innermost(t, "file") \/ Innermost(t, "exiting")
  /\ tests' = [tests EXCEPT ![t] = SubSeq(@, 1, Len(@) - 1)]
  /\ ran' = [ran EXCEPT ![t] = @ + 1]
  /\ runner' = NoThread
  /\ reporter' = TornDown(t)
  /\ UNCHANGED <<initOnce, processMode, isBunTest, metaCallback, pc, want, vms,
                 runtime, booted, hook, calls, files, raced>>

\* set_import_meta_hook(Some(..)) or (None): the hook is the runtime's, the
\* callback the process's.
BugRegistered(on) == metaCallback # on  \* toggled
Registered(on) == on
SetHook(t, on) ==
  /\ pc[t] = "idle" /\ HasRuntime(t)
  /\ hook' = [hook EXCEPT ![t] = on]
  /\ metaCallback' = Registered(on)
  /\ UNCHANGED <<initOnce, processMode, isBunTest, runner, pc, want, vms,
                 runtime, booted, reporter, tests, ran, calls, files, raced>>

Next ==
  \E t \in Threads :
    \/ \E mode \in Modes : New(t, mode)
    \/ InitStarts(t) \/ InitEnds(t) \/ InitSkipped(t)
    \/ ReadMode(t) \/ SetMode(t) \/ StoreSwitch(t)
    \/ CreateVm(t) \/ VmFails(t) \/ Publish(t) \/ Bootstrap(t)
    \/ RunTestFile(t) \/ DispatchExit(t) \/ EndTestFile(t)
    \/ \E on \in BOOLEAN : SetHook(t, on)

Spec == Init /\ [][Next]_vars

\* The type invariant.
TypeOK ==
  /\ initOnce \in {"new", "running", "done"}
  /\ processMode \in Modes \cup {"none"} /\ isBunTest \in BOOLEAN
  /\ runner \in Threads \cup {NoThread} /\ metaCallback \in BOOLEAN
  /\ pc \in [Threads -> PCs] /\ want \in [Threads -> Modes]
  /\ vms \in [Threads -> 0..1] /\ runtime \in [Threads -> Modes \cup {"none"}]
  /\ booted \in [Threads -> BOOLEAN] /\ reporter \in [Threads -> BOOLEAN]
  /\ hook \in [Threads -> BOOLEAN]
  /\ tests \in [Threads -> Seq(Stages)] /\ ran \in [Threads -> Nat]
  /\ calls \in [Threads -> 0..MaxCalls] /\ files \in [Threads -> 0..MaxFiles]
  /\ raced \subseteq Threads

-----------------------------------------------------------------------------
\* No thread creates a VM before the process is initialised, also when another
\* thread is in the middle of initialising it.
VmAfterInit ==
  \A t \in Threads :
    pc[t] \in {"read", "set", "switch", "vm", "publish", "bootstrap"} \/ vms[t] > 0
      => initOnce = "done"

\* A VM of the other mode than the process's exists only on a thread that
\* asked whether the mode was set before it was, and then lost the race.
ModesAgreeUnlessRaced ==
  \A t \in Threads : runtime[t] # "none" => runtime[t] = processMode \/ t \in raced

\* A test file starts only on a runner that is whole: no run on it has returned,
\* also none that was nested or failed, so that a runner runs a second file only
\* within the first; and Jest's process-wide pointer is to it, unless another
\* thread has a test VM as well.
FileStarts(t) == Len(tests'[t]) > Len(tests[t])
HasTestVm(t) == want[t] = "test" /\ vms[t] > 0
StartsOnWholeRunner ==
  [][\A t \in Threads : FileStarts(t) =>
       /\ ran[t] = 0
       /\ runner = t \/ \E s \in Threads \ {t} : HasTestVm(s)]_vars

\* The import.meta hook of a runtime is not called, although it is installed,
\* only after another runtime of the process took its own hook back: the
\* callback is the process's.  A process with one runtime serves its hook.
HookSilencedByAnother ==
  \A t \in Threads : hook[t] /\ ~metaCallback =>
    \E s \in Threads \ {t} : HasRuntime(s) /\ ~hook[s]
=============================================================================
