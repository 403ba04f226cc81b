------------------------------ MODULE BootProofs ------------------------------
(***************************************************************************)
(* Proofs about Boot, for any number of threads and calls: no VM exists    *)
(* before the process is initialised, only a thread that lost the race for *)
(* the mode has a VM of the other mode, and a test file starts only on a   *)
(* whole runner; and about Lifecycle, for any number of evaluations and    *)
(* any work they start: a rejected entry is reflected in the exit code.    *)
(***************************************************************************)
EXTENDS Boot, Lifecycle, SequenceTheorems, TLAPS

\* The type invariant in two parts: most steps leave the calls of run_test_file
\* under way alone.
FlatTypes ==
  /\ initOnce \in {"new", "running", "done"}
  /\ processMode \in Modes \cup {"none"} /\ isBunTest \in BOOLEAN
  /\ runner \in Threads \cup {NoThread} /\ metaCallback \in BOOLEAN
  /\ pc \in [Threads -> PCs] /\ want \in [Threads -> Modes]
  /\ vms \in [Threads -> 0..1] /\ runtime \in [Threads -> Modes \cup {"none"}]
  /\ booted \in [Threads -> BOOLEAN] /\ reporter \in [Threads -> BOOLEAN]
  /\ hook \in [Threads -> BOOLEAN] /\ ran \in [Threads -> Nat]
  /\ calls \in [Threads -> 0..MaxCalls] /\ files \in [Threads -> 0..MaxFiles]
  /\ raced \subseteq Threads
StackTypes == tests \in [Threads -> Seq(Stages)]

\* A thread on its way to a VM has no runtime; only a created VM that is not
\* published yet is missing from THREAD_RUNTIME.
Creating == {"init", "initialising", "read", "set", "switch", "vm"}

OneVm ==
  /\ \A t \in Threads : pc[t] \in Creating \cup {"publish"} => runtime[t] = "none"
  /\ \A t \in Threads : runtime[t] = "none" /\ pc[t] # "publish" => vms[t] = 0

\* Only one thread initialises, and VMs come after it.
InitOrder ==
  /\ \A t \in Threads : pc[t] = "initialising" => initOnce = "running"
  /\ \A s, t \in Threads :
       pc[s] = "initialising" /\ pc[t] = "initialising" => s = t
  /\ VmAfterInit

\* Once past the check of its mode a thread agrees with the process, or lost
\* the race; the mode is set by then and does not change any more.
ModeChecked ==
  /\ \A t \in Threads :
       pc[t] \in {"switch", "vm", "publish"} \/ runtime[t] # "none" \/ t \in raced
         => processMode # "none"
  /\ \A t \in Threads : pc[t] \in {"switch", "vm", "publish"} =>
                          want[t] = processMode \/ t \in raced
  /\ ModesAgreeUnlessRaced

\* A reporter that is there has run nothing to its end, and Jest's pointer is to
\* it or belongs to a thread with a test VM of its own; files run in test VMs.
AnotherTestVm(t) == \E s \in Threads \ {t} : HasTestVm(s)
RunnerWhole ==
  /\ \A t \in Threads : reporter[t] \/ tests[t] # <<>> => HasTestVm(t)
  /\ \A t \in Threads : reporter[t] \/ vms[t] = 0 => ran[t] = 0
  /\ \A t \in Threads : reporter[t] => runner = t \/ AnotherTestVm(t)

BootInv == FlatTypes /\ StackTypes /\ OneVm /\ InitOrder /\ ModeChecked
           /\ RunnerWhole /\ HookSilencedByAnother

-----------------------------------------------------------------------------
\* The steps of a thread, without the quantifier over what it is called with.
Step(t) ==
  \/ \E mode \in Modes : New(t, mode)
  \/ InitStarts(t) \/ InitEnds(t) \/ InitSkipped(t)
  \/ ReadMode(t) \/ SetMode(t) \/ StoreSwitch(t)
  \/ CreateVm(t) \/ VmFails(t) \/ Publish(t) \/ Bootstrap(t)
  \/ RunTestFile(t) \/ DispatchExit(t) \/ EndTestFile(t)
  \/ \E on \in BOOLEAN : SetHook(t, on)

\* The invariant holds before any thread calls Runtime::new.
LEMMA BootInitially ==
  Init => BootInv
<1> SUFFICES ASSUME Init PROVE BootInv
  OBVIOUS
<1>1. FlatTypes /\ StackTypes
  <2>1. /\ vms \in [Threads -> 0..1] /\ ran \in [Threads -> Nat]
        /\ calls \in [Threads -> 0..MaxCalls] /\ files \in [Threads -> 0..MaxFiles]
    BY BootAssumption DEF Init
  <2>2. /\ pc \in [Threads -> PCs] /\ want \in [Threads -> Modes]
        /\ runtime \in [Threads -> Modes \cup {"none"}]
    BY DEF Init, Modes, PCs
  <2>3. /\ booted \in [Threads -> BOOLEAN] /\ reporter \in [Threads -> BOOLEAN]
        /\ hook \in [Threads -> BOOLEAN] /\ tests \in [Threads -> Seq(Stages)]
    BY DEF Init
  <2> QED  BY <2>1, <2>2, <2>3 DEF Init, FlatTypes, StackTypes
<1>2. OneVm /\ InitOrder
  BY DEF Init, OneVm, Creating, InitOrder, VmAfterInit
<1>3. ModeChecked /\ RunnerWhole
  BY DEF Init, ModeChecked, ModesAgreeUnlessRaced, RunnerWhole
<1>4. HookSilencedByAnother
  BY DEF Init, HookSilencedByAnother
<1> QED  BY <1>1, <1>2, <1>3, <1>4 DEF BootInv

\* The calls of run_test_file under way, when one moves on or returns: the same
\* or one fewer.
LEMMA StacksStay ==
  ASSUME StackTypes, NEW t \in Threads, DispatchExit(t) \/ EndTestFile(t)
  PROVE  /\ StackTypes'
         /\ tests[t] # <<>>
         /\ \A u \in Threads : u # t => tests'[u] = tests[u]
         /\ Len(tests'[t]) <= Len(tests[t])
<1> DEFINE q == tests[t]
           n == Len(q)
<1>1. /\ tests \in [Threads -> Seq(Stages)] /\ q # <<>> /\ q \in Seq(Stages)
      /\ n \in Nat \ {0}
  <2>1. q \in Seq(Stages) /\ q # <<>>
    BY DEF StackTypes, DispatchExit, EndTestFile, Innermost
  <2> QED  BY <2>1 DEF StackTypes
<1>2. CASE DispatchExit(t)
  <2>1. tests' = [tests EXCEPT ![t] = [q EXCEPT ![n] = "exiting"]]
    BY <1>2 DEF DispatchExit
  <2>2. [q EXCEPT ![n] = "exiting"] \in Seq(Stages) /\ Len([q EXCEPT ![n] = "exiting"]) = n
    <3> HIDE DEF q
    <3> QED  BY <1>1 DEF Stages
  <2> QED  BY <1>1, <2>1, <2>2 DEF StackTypes
<1>3. CASE EndTestFile(t)
  <2>1. tests' = [tests EXCEPT ![t] = SubSeq(q, 1, n - 1)]
    BY <1>3 DEF EndTestFile
  <2>2. SubSeq(q, 1, n - 1) \in Seq(Stages) /\ Len(SubSeq(q, 1, n - 1)) = n - 1
    <3>1. 1 \in Int /\ n - 1 \in Int /\ \A i \in 1..n - 1 : q[i] \in Stages
      BY <1>1
    <3>2. SubSeq(q, 1, n - 1) \in Seq(Stages)
          /\ Len(SubSeq(q, 1, n - 1)) = IF 1 <= n - 1 THEN (n - 1) - 1 + 1 ELSE 0
      <4> HIDE DEF q, n
      <4> QED  BY <3>1, SubSeqProperties
    <3>3. (IF 1 <= n - 1 THEN (n - 1) - 1 + 1 ELSE 0) = n - 1
      <4>1. n \in Nat \ {0}
        BY <1>1
      <4> HIDE DEF n
      <4> QED  BY <4>1
    <3> HIDE DEF q, n
    <3> QED  BY <3>2, <3>3
  <2> QED  BY <1>1, <2>1, <2>2 DEF StackTypes
<1> QED  BY <1>2, <1>3

\* All other steps leave them alone.
LEMMA StacksLeft ==
  ASSUME NEW t \in Threads,
         \/ \E mode \in Modes : New(t, mode)
         \/ InitStarts(t) \/ InitEnds(t) \/ InitSkipped(t)
         \/ ReadMode(t) \/ SetMode(t) \/ StoreSwitch(t) \/ VmFails(t)
         \/ CreateVm(t) \/ Publish(t) \/ Bootstrap(t)
         \/ \E on \in BOOLEAN : SetHook(t, on)
  PROVE  tests' = tests
BY DEF New, InitStarts, InitEnds, InitSkipped, ReadMode, SetMode, StoreSwitch,
   VmFails, CreateVm, Publish, Bootstrap, SetHook, threadVars

\* Every step keeps the types; that a thread creates no second VM is what the
\* invariant is needed for.
LEMMA BootTypes ==
  ASSUME BootInv, NEW t \in Threads, Step(t)
  PROVE  FlatTypes'
<1> USE BootAssumption DEF BootInv, FlatTypes, OneVm, Creating, Modes, PCs,
        processVars, threadVars, Goto
<1>1. CASE \E mode \in Modes : New(t, mode)
  <2>1. PICK mode \in Modes : New(t, mode)
    BY <1>1
  <2>2. /\ calls' \in [Threads -> 0..MaxCalls] /\ want' \in [Threads -> Modes]
        /\ pc' \in [Threads -> PCs]
    BY <2>1 DEF New
  <2>3. UNCHANGED <<initOnce, processMode, isBunTest, runner, metaCallback, vms,
                    runtime, booted, reporter, hook, ran, files, raced>>
    BY <2>1 DEF New
  <2> QED  BY <2>2, <2>3
<1>2. CASE InitStarts(t)
  BY <1>2 DEF InitStarts
<1>3. CASE InitEnds(t)
  BY <1>3 DEF InitEnds
<1>4. CASE InitSkipped(t)
  BY <1>4 DEF InitSkipped
<1>5. CASE ReadMode(t)
  BY <1>5 DEF ReadMode
<1>6. CASE SetMode(t)
  BY <1>6 DEF SetMode
<1>7. CASE StoreSwitch(t)
  BY <1>7 DEF StoreSwitch
<1>8. CASE CreateVm(t)
  <2>1. pc[t] = "vm" /\ runtime[t] = "none" /\ vms[t] = 0
    BY <1>8 DEF CreateVm
  <2>2. vms' \in [Threads -> 0..1]
    BY <2>1, <1>8 DEF CreateVm
  <2>3. runner' \in Threads \cup {NoThread} /\ reporter' \in [Threads -> BOOLEAN]
    BY <1>8 DEF CreateVm
  <2> QED  BY <2>2, <2>3, <1>8 DEF CreateVm
<1>9. CASE VmFails(t)
  BY <1>9 DEF VmFails
<1>10. CASE Publish(t)
  BY <1>10 DEF Publish
<1>11. CASE Bootstrap(t)
  BY <1>11 DEF Bootstrap
<1>12. CASE RunTestFile(t) \/ DispatchExit(t)
  <2>1. files' \in [Threads -> 0..MaxFiles]
    BY <1>12 DEF RunTestFile, DispatchExit
  <2>2. UNCHANGED <<initOnce, processMode, isBunTest, runner, metaCallback, pc, want,
                    vms, runtime, booted, reporter, hook, ran, calls, raced>>
    BY <1>12 DEF RunTestFile, DispatchExit
  <2> QED  BY <2>1, <2>2
<1>13. CASE EndTestFile(t)
  BY <1>13 DEF EndTestFile, TornDown
<1>14. CASE \E on \in BOOLEAN : SetHook(t, on)
  BY <1>14 DEF SetHook, Registered
<1> QED  BY <1>1, <1>2, <1>3, <1>4, <1>5, <1>6, <1>7, <1>8, <1>9, <1>10, <1>11,
            <1>12, <1>13, <1>14 DEF Step

LEMMA BootStacks ==
  ASSUME BootInv, NEW t \in Threads, Step(t)
  PROVE  StackTypes'
<1> USE DEF BootInv
<1>1. CASE RunTestFile(t)
  <2>1. Append(tests[t], "file") \in Seq(Stages)
    BY DEF Stages, StackTypes
  <2> QED  BY <1>1, <2>1 DEF RunTestFile, StackTypes
<1>2. CASE DispatchExit(t) \/ EndTestFile(t)
  BY <1>2, StacksStay
<1>3. CASE \/ \E mode \in Modes : New(t, mode)
           \/ InitStarts(t) \/ InitEnds(t) \/ InitSkipped(t)
           \/ ReadMode(t) \/ SetMode(t) \/ StoreSwitch(t) \/ VmFails(t)
           \/ CreateVm(t) \/ Publish(t) \/ Bootstrap(t)
           \/ \E on \in BOOLEAN : SetHook(t, on)
  BY <1>3, StacksLeft DEF StackTypes
<1> QED  BY <1>1, <1>2, <1>3 DEF Step

\* Runtime::new returns the runtime of the thread instead of a second one.
LEMMA BootOneVm ==
  ASSUME BootInv, NEW t \in Threads, Step(t)
  PROVE  OneVm'
<1> USE DEF BootInv, FlatTypes, OneVm, Creating, Modes, processVars, threadVars, Goto
<1>1. CASE \E mode \in Modes : New(t, mode)
  BY <1>1 DEF New, HasRuntime
<1>2. CASE InitStarts(t) \/ InitEnds(t) \/ InitSkipped(t)
  BY <1>2 DEF InitStarts, InitEnds, InitSkipped
<1>3. CASE ReadMode(t) \/ SetMode(t) \/ StoreSwitch(t) \/ VmFails(t)
  BY <1>3 DEF ReadMode, SetMode, StoreSwitch, VmFails
<1>4. CASE CreateVm(t)
  BY <1>4 DEF CreateVm
<1>5. CASE Publish(t) \/ Bootstrap(t)
  BY <1>5 DEF Publish, Bootstrap
<1>6. CASE RunTestFile(t) \/ DispatchExit(t) \/ EndTestFile(t)
           \/ \E on \in BOOLEAN : SetHook(t, on)
  BY <1>6 DEF RunTestFile, DispatchExit, EndTestFile, SetHook, HasRuntime
<1> QED  BY <1>1, <1>2, <1>3, <1>4, <1>5, <1>6 DEF Step

\* The Once of bun_embed_init.
LEMMA BootInitOrder ==
  ASSUME BootInv, NEW t \in Threads, Step(t)
  PROVE  InitOrder'
<1> USE DEF BootInv, FlatTypes, InitOrder, VmAfterInit, processVars, threadVars, Goto
<1>1. CASE \E mode \in Modes : New(t, mode)
  BY <1>1 DEF New
<1>2. CASE InitStarts(t) \/ InitEnds(t)
  BY <1>2 DEF InitStarts, InitEnds
<1>3. CASE InitSkipped(t)
  BY <1>3 DEF InitSkipped, MaySkipInit
<1>4. CASE ReadMode(t) \/ SetMode(t) \/ StoreSwitch(t) \/ VmFails(t)
  BY <1>4 DEF ReadMode, SetMode, StoreSwitch, VmFails
<1>5. CASE CreateVm(t)
  BY <1>5 DEF CreateVm
<1>6. CASE Publish(t) \/ Bootstrap(t)
  BY <1>6 DEF Publish, Bootstrap
<1>7. CASE RunTestFile(t) \/ DispatchExit(t) \/ EndTestFile(t)
           \/ \E on \in BOOLEAN : SetHook(t, on)
  BY <1>7 DEF RunTestFile, DispatchExit, EndTestFile, SetHook
<1> QED  BY <1>1, <1>2, <1>3, <1>4, <1>5, <1>6, <1>7 DEF Step

\* The check of the mode, and the race between its reading and its setting.
LEMMA BootModes ==
  ASSUME BootInv, NEW t \in Threads, Step(t)
  PROVE  ModeChecked'
<1> USE DEF BootInv, FlatTypes, OneVm, Creating, ModeChecked, ModesAgreeUnlessRaced,
        Modes, processVars, threadVars, Goto
<1>1. CASE \E mode \in Modes : New(t, mode)
  BY <1>1 DEF New, HasRuntime
<1>2. CASE InitStarts(t) \/ InitEnds(t) \/ InitSkipped(t)
  BY <1>2 DEF InitStarts, InitEnds, InitSkipped
<1>3. CASE ReadMode(t)
  BY <1>3 DEF ReadMode, ModeRefused
<1>4. CASE SetMode(t)
  BY <1>4 DEF SetMode
<1>5. CASE StoreSwitch(t) \/ VmFails(t)
  BY <1>5 DEF StoreSwitch, VmFails
<1>6. CASE CreateVm(t)
  BY <1>6 DEF CreateVm
<1>7. CASE Publish(t)
  BY <1>7 DEF Publish
<1>8. CASE Bootstrap(t)
  BY <1>8 DEF Bootstrap
<1>9. CASE RunTestFile(t) \/ DispatchExit(t) \/ EndTestFile(t)
           \/ \E on \in BOOLEAN : SetHook(t, on)
  BY <1>9 DEF RunTestFile, DispatchExit, EndTestFile, SetHook
<1> QED  BY <1>1, <1>2, <1>3, <1>4, <1>5, <1>6, <1>7, <1>8, <1>9 DEF Step

\* A thread that has a test VM keeps it, and nobody starts over what it wanted.
LEMMA TestVmsStay ==
  ASSUME BootInv, NEW t \in Threads, Step(t), NEW s \in Threads, HasTestVm(s)
  PROVE  HasTestVm(s)'
<1> USE DEF BootInv, FlatTypes, OneVm, Creating, HasTestVm, processVars, threadVars, Goto
<1>1. CASE \E mode \in Modes : New(t, mode)
  BY <1>1 DEF New, HasRuntime
<1>2. CASE InitStarts(t) \/ InitEnds(t) \/ InitSkipped(t)
  BY <1>2 DEF InitStarts, InitEnds, InitSkipped
<1>3. CASE ReadMode(t) \/ SetMode(t) \/ StoreSwitch(t) \/ VmFails(t)
  BY <1>3 DEF ReadMode, SetMode, StoreSwitch, VmFails
<1>4. CASE CreateVm(t)
  BY <1>4 DEF CreateVm
<1>5. CASE Publish(t) \/ Bootstrap(t)
  BY <1>5 DEF Publish, Bootstrap
<1>6. CASE RunTestFile(t) \/ DispatchExit(t) \/ EndTestFile(t)
           \/ \E on \in BOOLEAN : SetHook(t, on)
  BY <1>6 DEF RunTestFile, DispatchExit, EndTestFile, SetHook
<1> QED  BY <1>1, <1>2, <1>3, <1>4, <1>5, <1>6 DEF Step

\* The reporter of a test VM, installed once and torn down by the first return.
LEMMA BootRunner ==
  ASSUME BootInv, NEW t \in Threads, Step(t)
  PROVE  RunnerWhole'
<1>1. \A s \in Threads : HasTestVm(s) => HasTestVm(s)'
  BY TestVmsStay
<1>2. \A u \in Threads : AnotherTestVm(u) => AnotherTestVm(u)'
  BY <1>1 DEF AnotherTestVm
<1>3. SUFFICES ASSUME NEW u \in Threads
               PROVE  /\ (reporter[u] \/ tests[u] # <<>> => HasTestVm(u))'
                      /\ (reporter[u] \/ vms[u] = 0 => ran[u] = 0)'
                      /\ (reporter[u] => runner = u \/ AnotherTestVm(u))'
  BY DEF RunnerWhole
<1>4. /\ reporter[u] \/ tests[u] # <<>> => HasTestVm(u)
      /\ reporter[u] \/ vms[u] = 0 => ran[u] = 0
      /\ reporter[u] => runner = u \/ AnotherTestVm(u)
  BY DEF BootInv, RunnerWhole
<1>5. CASE UNCHANGED <<reporter, tests, vms, ran, runner>>
  BY <1>1, <1>2, <1>4, <1>5
<1>6. CASE CreateVm(t)
  <2>1. /\ pc[t] = "vm" /\ runtime[t] = "none" /\ vms[t] = 0
        /\ vms \in [Threads -> 0..1] /\ reporter \in [Threads -> BOOLEAN]
    BY <1>6 DEF CreateVm, BootInv, FlatTypes, OneVm, Creating
  <2>2. /\ tests' = tests /\ ran' = ran /\ want' = want
        /\ vms' = [vms EXCEPT ![t] = @ + 1]
    BY <1>6 DEF CreateVm
  <2>3. ~ reporter[t] /\ ran[t] = 0
    BY <2>1 DEF BootInv, RunnerWhole, HasTestVm
  <2>4. vms'[t] = 1 /\ (u # t => vms'[u] = vms[u])
    BY <2>1, <2>2
  <2>5. CASE want[t] = "test"
    <3>1. runner' = t /\ reporter' = [reporter EXCEPT ![t] = TRUE]
      BY <1>6, <2>5 DEF CreateVm
    <3>2. HasTestVm(t)'
      BY <2>2, <2>4, <2>5 DEF HasTestVm
    <3>3. u # t => AnotherTestVm(u)' /\ reporter'[u] = reporter[u]
      BY <2>1, <3>1, <3>2 DEF AnotherTestVm
    <3> QED  BY <1>1, <1>4, <2>2, <2>3, <2>4, <3>1, <3>2, <3>3
  <2>6. CASE want[t] # "test"
    <3>1. runner' = runner /\ reporter' = reporter
      BY <1>6, <2>6 DEF CreateVm
    <3> QED  BY <1>1, <1>2, <1>4, <2>2, <2>3, <2>4, <3>1
  <2> QED  BY <2>5, <2>6
<1>7. CASE RunTestFile(t)
  <2>1. UNCHANGED <<reporter, vms, ran, runner>>
    BY <1>7 DEF RunTestFile, processVars
  <2>2. tests'[u] # <<>> => tests[u] # <<>> \/ reporter[u]
    BY <1>7 DEF RunTestFile, BootInv, StackTypes
  <2> QED  BY <1>1, <1>2, <1>4, <2>1, <2>2
<1>8. CASE DispatchExit(t)
  <2>1. UNCHANGED <<reporter, vms, ran, runner>>
    BY <1>8 DEF DispatchExit, processVars
  <2>2. tests'[u] # <<>> => tests[u] # <<>>
    BY <1>8, StacksStay DEF BootInv
  <2> QED  BY <1>1, <1>2, <1>4, <2>1, <2>2
<1>9. CASE EndTestFile(t)
  <2>1. /\ vms' = vms /\ reporter' = [reporter EXCEPT ![t] = FALSE]
        /\ ran' = [ran EXCEPT ![t] = @ + 1]
        /\ reporter \in [Threads -> BOOLEAN] /\ ran \in [Threads -> Nat]
    BY <1>9 DEF EndTestFile, TornDown, BootInv, FlatTypes
  <2>2. tests[t] # <<>> /\ (u # t => tests'[u] = tests[u])
    BY <1>9, StacksStay DEF BootInv
  <2>3. HasTestVm(t) /\ HasTestVm(t)'
    BY <1>1, <2>2 DEF BootInv, RunnerWhole
  <2>4. CASE u = t
    BY <2>1, <2>3, <2>4 DEF HasTestVm, BootInv, FlatTypes
  <2>5. CASE u # t
    <3>1. AnotherTestVm(u)'
      BY <2>3, <2>5 DEF AnotherTestVm
    <3> QED  BY <1>1, <1>4, <2>1, <2>2, <2>5, <3>1
  <2> QED  BY <2>4, <2>5
<1>10. CASE \/ \E mode \in Modes : New(t, mode)
            \/ InitStarts(t) \/ InitEnds(t) \/ InitSkipped(t)
            \/ ReadMode(t) \/ SetMode(t) \/ StoreSwitch(t) \/ VmFails(t)
            \/ Publish(t) \/ Bootstrap(t) \/ \E on \in BOOLEAN : SetHook(t, on)
  <2>1. UNCHANGED <<reporter, tests, vms, ran, runner>>
    BY <1>10 DEF New, InitStarts, InitEnds, InitSkipped, ReadMode, SetMode,
       StoreSwitch, VmFails, Publish, Bootstrap, SetHook, processVars, threadVars
  <2> QED  BY <1>5, <2>1
<1> QED  BY <1>6, <1>7, <1>8, <1>9, <1>10 DEF Step

\* Only RunTestFile adds a call, and it asks for the reporter.
LEMMA StartsWithReporter ==
  ASSUME BootInv, NEW t \in Threads, Step(t), NEW u \in Threads, FileStarts(u)
  PROVE  reporter[u]
<1>1. tests \in [Threads -> Seq(Stages)] /\ Len(tests[u]) \in Nat
  BY DEF BootInv, StackTypes
<1>2. tests' # tests
  BY <1>1 DEF FileStarts
<1>3. CASE RunTestFile(t)
  <2>1. u = t
    BY <1>1, <1>3 DEF RunTestFile, FileStarts
  <2> QED  BY <1>2, <1>3, <2>1 DEF RunTestFile
<1>4. CASE DispatchExit(t) \/ EndTestFile(t)
  <2>1. /\ u # t => tests'[u] = tests[u]
        /\ Len(tests'[t]) <= Len(tests[t]) /\ tests' \in [Threads -> Seq(Stages)]
    BY <1>4, StacksStay DEF BootInv, StackTypes
  <2>2. Len(tests'[u]) \in Nat
    BY <2>1
  <2>3. u # t
    BY <1>1, <2>1, <2>2 DEF FileStarts
  <2> QED  BY <1>1, <2>1, <2>3 DEF FileStarts
<1>5. CASE \/ \E mode \in Modes : New(t, mode)
           \/ InitStarts(t) \/ InitEnds(t) \/ InitSkipped(t)
           \/ ReadMode(t) \/ SetMode(t) \/ StoreSwitch(t) \/ VmFails(t)
           \/ CreateVm(t) \/ Publish(t) \/ Bootstrap(t)
           \/ \E on \in BOOLEAN : SetHook(t, on)
  BY <1>2, <1>5, StacksLeft
<1> QED  BY <1>3, <1>4, <1>5 DEF Step

\* Whoever unregisters the callback is left without a hook itself.
LEMMA BootHooks ==
  ASSUME BootInv, NEW t \in Threads, Step(t)
  PROVE  HookSilencedByAnother'
<1> USE DEF BootInv, FlatTypes, HookSilencedByAnother, HasRuntime, processVars,
        threadVars, Goto
<1>1. CASE \E mode \in Modes : New(t, mode)
  BY <1>1 DEF New
<1>2. CASE InitStarts(t) \/ InitEnds(t) \/ InitSkipped(t)
  BY <1>2 DEF InitStarts, InitEnds, InitSkipped
<1>3. CASE ReadMode(t) \/ SetMode(t) \/ StoreSwitch(t) \/ VmFails(t)
  BY <1>3 DEF ReadMode, SetMode, StoreSwitch, VmFails
<1>4. CASE CreateVm(t)
  BY <1>4 DEF CreateVm
<1>5. CASE Publish(t)
  <2>1. \A s \in Threads : HasRuntime(s) => HasRuntime(s)'
    BY <1>5 DEF Publish, OneVm, Creating, Modes
  <2>2. hook' = hook /\ metaCallback' = metaCallback
    BY <1>5 DEF Publish
  <2> QED  BY <2>1, <2>2
<1>6. CASE Bootstrap(t)
  BY <1>6 DEF Bootstrap
<1>7. CASE RunTestFile(t) \/ DispatchExit(t) \/ EndTestFile(t)
  BY <1>7 DEF RunTestFile, DispatchExit, EndTestFile
<1>8. CASE \E on \in BOOLEAN : SetHook(t, on)
  <2>1. PICK on \in BOOLEAN : SetHook(t, on)
    BY <1>8
  <2>2. HasRuntime(t)' /\ metaCallback' = on /\ hook'[t] = on
    BY <2>1 DEF SetHook, Registered
  <2>3. CASE on
    BY <2>2, <2>3
  <2>4. CASE ~on
    BY <2>2, <2>4
  <2> QED  BY <2>3, <2>4
<1> QED  BY <1>1, <1>2, <1>3, <1>4, <1>5, <1>6, <1>7, <1>8 DEF Step

\* Every step of every thread keeps the invariant.
LEMMA BootInductive ==
  BootInv /\ [Next]_vars => BootInv'
<1> SUFFICES ASSUME BootInv, [Next]_vars PROVE BootInv'
  OBVIOUS
<1>1. CASE Next
  <2>1. PICK t \in Threads : Step(t)
    BY <1>1 DEF Next, Step
  <2> QED
    BY <2>1, BootTypes, BootStacks, BootOneVm, BootInitOrder, BootModes, BootRunner, BootHooks
       DEF BootInv
<1>2. CASE UNCHANGED vars
  BY <1>2 DEF vars, processVars, threadVars, BootInv, FlatTypes, StackTypes, OneVm, InitOrder,
     VmAfterInit, ModeChecked, ModesAgreeUnlessRaced, RunnerWhole,
     AnotherTestVm, HasTestVm, HookSilencedByAnother, HasRuntime
<1> QED  BY <1>1, <1>2

\* ... and so it always holds.
LEMMA BootInvariance ==
  Spec => []BootInv
BY BootInitially, BootInductive, PTL DEF Spec

-----------------------------------------------------------------------------
(* The theorems.                                                           *)

\* Every variable keeps its type; in particular no thread ever has two VMs,
\* although Runtime::new may be called again at any time and fail anywhere.
THEOREM BootTypeCorrect ==
  Spec => []TypeOK
<1>1. BootInv => TypeOK
  BY DEF BootInv, FlatTypes, StackTypes, TypeOK
<1> QED  BY <1>1, BootInvariance, PTL

\* embed.rs:114-165: whichever thread initialises the process, no other has a
\* VM, or is past bun_embed_init, before that is over.
THEOREM InitBeforeVms ==
  Spec => []VmAfterInit
BY BootInvariance, PTL DEF BootInv, InitOrder

\* embed.rs:207-216: the unsynchronised check is the only way to a VM of the
\* other mode.
THEOREM OnlyTheRaceMixesModes ==
  Spec => []ModesAgreeUnlessRaced
BY BootInvariance, PTL DEF BootInv, ModeChecked

\* embed.rs:364-453: however run_test_file is nested, fails and is called again, a
\* file starts only on a runner that no run has returned from, and which Jest
\* points to unless another thread has a test VM.
THEOREM FilesStartOnWholeRunners ==
  Spec => StartsOnWholeRunner
<1> DEFINE Whole == \A t \in Threads : FileStarts(t) =>
                      /\ ran[t] = 0
                      /\ runner = t \/ \E s \in Threads \ {t} : HasTestVm(s)
<1>1. BootInv /\ [Next]_vars => [Whole]_vars
  <2> SUFFICES ASSUME BootInv, Next, NEW u \in Threads, FileStarts(u)
               PROVE  ran[u] = 0 /\ (runner = u \/ AnotherTestVm(u))
    BY DEF AnotherTestVm
  <2>1. PICK t \in Threads : Step(t)
    BY DEF Next, Step
  <2>2. reporter[u]
    BY <2>1, StartsWithReporter
  <2> QED  BY <2>2 DEF BootInv, RunnerWhole
<1> QED  BY <1>1, BootInvariance, PTL DEF Spec, StartsOnWholeRunner

\* runtime.rs:411-420: with any number of runtimes in the process, an installed
\* hook goes uncalled only because another runtime took its own back.
THEOREM OnlyAnotherSilences ==
  Spec => []HookSilencedByAnother
BY BootInvariance, PTL DEF BootInv

-----------------------------------------------------------------------------
(* Lifecycle: the end of a VM whose entry was rejected.                    *)

ReportedPhases == {"exit", "ended"}

\* What is known of the rejection at every step: an early one has set the code,
\* a late one is counted, and in the code from ReportLate on; JavaScript may set
\* another code after either.
LifeInv ==
  /\ phase \in Phases
  /\ failed \in {"no", "early", "late"}
  /\ failed = "early" => exitCode = 1 \/ overridden
  /\ failed = "late" => unhandled
  /\ phase \in ReportedPhases /\ failed = "late" => exitCode = 1 \/ overridden

LEMMA LifeInit ==
  LifecycleInit => LifeInv
BY DEF LifecycleInit, LifeInv, Phases, ReportedPhases

\* Steps of the host, or of host functions that JavaScript calls.
LEMMA HostStep ==
  ASSUME LifeInv,
         \/ \E path \in Paths : ConfigureEntrypoint(path)
         \/ \E status \in Statuses : RunEvalSource(status)
  PROVE  LifeInv'
<1> USE DEF LifeInv, Phases, ReportedPhases
<1>1. ASSUME NEW path \in Paths, ConfigureEntrypoint(path) PROVE LifeInv'
  BY <1>1 DEF ConfigureEntrypoint, SetMain, exitVars
<1>2. ASSUME NEW status \in Statuses, RunEvalSource(status) PROVE LifeInv'
  BY <1>2 DEF RunEvalSource, RunEval, ExitWith
<1> QED  BY <1>1, <1>2

LEMMA JsStep ==
  ASSUME LifeInv,
         \/ StartWork \/ Tick \/ \E status \in Statuses : SettleEntry(status)
         \/ Listen \/ \E code \in 0..2 : SetExitCode(code) \/ ProcessExit(code)
         \/ ReportRejections
  PROVE  LifeInv'
<1> USE DEF LifeInv, Phases, ReportedPhases, JsRuns, exitVars
<1>1. CASE StartWork \/ Tick \/ Listen
  BY <1>1 DEF StartWork, Tick, Listen
<1>2. ASSUME NEW status \in Statuses, SettleEntry(status) PROVE LifeInv'
  BY <1>2 DEF SettleEntry
<1>3. ASSUME NEW code \in 0..2, SetExitCode(code) \/ ProcessExit(code) PROVE LifeInv'
  BY <1>3 DEF SetExitCode, ProcessExit
<1>4. CASE ReportRejections
  BY <1>4 DEF ReportRejections, HandleRejectedPromises
<1> QED  BY <1>1, <1>2, <1>3, <1>4

\* finish_process sets the code when a rejection is counted, late ones included;
\* begun again, it will do so again.
LEMMA FinishStep ==
  ASSUME LifeInv,
         FinishProcess \/ DispatchBeforeExit \/ EndBeforeExit \/ ReportLate \/ GlobalExit
  PROVE  LifeInv'
<1> USE DEF LifeInv, Phases, ReportedPhases, MoveOn, exitVars
<1>1. CASE FinishProcess \/ DispatchBeforeExit \/ EndBeforeExit \/ GlobalExit
  <2>1. /\ UNCHANGED exitVars /\ phase' \in Phases
        /\ phase' \in ReportedPhases => phase \in ReportedPhases
    BY <1>1 DEF FinishProcess, DispatchBeforeExit, EndBeforeExit, GlobalExit
  <2> QED  BY <2>1
<1>2. CASE ReportLate
  <2>1. /\ phase = "reporting" /\ phase' = "exit"
        /\ overridden' = (overridden /\ ~unhandled')
        /\ unhandled' = (unhandled \/ (unreported /\ ~listener))
        /\ failed' = IF unreported /\ ~listener THEN "late" ELSE failed
        /\ exitCode' = IF unhandled' THEN 1 ELSE exitCode
    BY <1>2 DEF ReportLate, HandleRejectedPromises, ExitWith
  <2> QED  BY <2>1
<1> QED  BY <1>1, <1>2

LEMMA LifeStep ==
  LifeInv /\ [LifecycleNext]_lifecycleVars => LifeInv'
<1> SUFFICES ASSUME LifeInv, [LifecycleNext]_lifecycleVars PROVE LifeInv'
  OBVIOUS
<1>1. CASE UNCHANGED lifecycleVars
  BY <1>1 DEF lifecycleVars, exitVars, LifeInv
<1> QED  BY <1>1, HostStep, JsStep, FinishStep DEF LifecycleNext

\* runtime.rs:196-197: whenever the process ends after an entry was rejected,
\* before exit was dispatched, and nobody took the rejection, its exit code is 1,
\* unless JavaScript itself chose another one: after an early rejection, in a
\* listener of exit or by process.exit.
THEOREM RejectionInExitCode ==
  LifecycleSpec => []RejectionReflected
<1>1. LifeInv => RejectionReflected
  BY DEF LifeInv, RejectionReflected, ReportedPhases
<1> QED  BY <1>1, LifeInit, LifeStep, PTL DEF LifecycleSpec
=============================================================================
