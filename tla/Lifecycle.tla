------------------------------- MODULE Lifecycle -------------------------------
(***************************************************************************)
(* The one-shot life of a runtime's VM: configure_entrypoint gives it an   *)
(* entry, run_eval_source evaluates a source as that entry, the loop is    *)
(* ticked or run, and finish_process drains it, dispatches beforeExit,     *)
(* reports rejections, dispatches exit and ends the process with the VM's  *)
(* exit code.  JavaScript runs at each of these, calls the host again,     *)
(* rejects promises, handles them, sets process.exitCode, keeps the loop   *)
(* busy and exits.                                                         *)
(***************************************************************************)
EXTENDS Naturals

CONSTANTS
  MaxEvals,  \* bound: calls of run_eval_source
  MaxWork    \* bound: what keeps the loop alive, started altogether

VARIABLES
  testMode,    \* the runtime is a test runtime
  main,        \* vm.main: "anchor", or what the host configured
  evals,       \* bound: calls so far
  pending,     \* entry promises that are not settled
  work,        \* what keeps the event loop alive
  started,     \* bound: work started so far
  unreported,  \* a rejected promise without handler is not reported yet
  unhandled,   \* vm.unhandled_error_counter is above 0
  listener,    \* JavaScript listens to unhandledRejection
  exitCode,    \* vm.exit_handler.exit_code
  requested,   \* vm.exit_handler.requested
  phase,       \* "running", and then the steps of finish_process
  failed,      \* ghost: an entry was rejected "early", within its evaluation, or
               \* "late", before exit is dispatched, and nobody took it; else "no"
  overridden   \* ghost: the exit code is JavaScript's choice: it set the code, or
               \* exited, after the last rejection that Bun put into it

jsVars == <<evals, pending, work, started, listener>>
exitVars == <<unreported, unhandled, exitCode, requested, failed, overridden>>
lifecycleVars == <<testMode, main, jsVars, exitVars, phase>>

Paths == {"eval", "file"}
Statuses == {"pending", "fulfilled", "rejected"}
Phases == {"running", "draining", "before exit", "reporting", "exit", "ended"}

LifecycleInit ==
  /\ testMode \in BOOLEAN
  /\ main = "anchor" /\ evals = 0 /\ pending = 0
  /\ work = 0 /\ started = 0 /\ listener = FALSE
  /\ unreported = FALSE /\ unhandled = FALSE
  /\ exitCode = 0 /\ requested = FALSE
  /\ phase = "running" /\ failed = "no" /\ overridden = FALSE

\* JavaScript runs until the process has ended: in the loop, in listeners of
\* beforeExit, of unhandledRejection and of exit.
JsRuns == phase # "ended"

-----------------------------------------------------------------------------
(* Configuring and evaluating, which a test runtime refuses.  The host does *)
(* it, or a host function that JavaScript calls, whatever the phase.       *)

\* "eval" stands for a path that ends in /[eval].
SetMain(path) ==
  /\ main' = path
  /\ UNCHANGED <<testMode, jsVars, exitVars, phase>>

ConfigureEntrypoint(path) ==
  /\ JsRuns /\ ~testMode
  /\ SetMain(path)

\* An entry rejected within load_entry_point is reported at once, and the
\* process will exit with 1; one that is still pending is left to the loop.
BugExitWith(rejected) ==  \* the code is forgotten
  exitCode' = exitCode /\ requested' = (requested \/ rejected)
ExitWith(rejected) ==
  /\ exitCode' = IF rejected THEN 1 ELSE exitCode
  /\ requested' = (requested \/ rejected)

RunEval(status) ==
  /\ main = "eval"
  /\ evals' = evals + 1
  /\ pending' = IF status = "pending" THEN pending + 1 ELSE pending
  /\ ExitWith(status = "rejected")
  /\ failed' = IF status = "rejected" THEN "early" ELSE failed
  /\ overridden' = (overridden /\ status # "rejected")
  /\ UNCHANGED <<testMode, main, work, started, listener, unreported, unhandled,
                 phase>>

RunEvalSource(status) ==
  /\ JsRuns /\ ~testMode /\ evals < MaxEvals
  /\ RunEval(status)

-----------------------------------------------------------------------------
(* JavaScript and Bun's loop, while the host ticks it, run_until_idle runs  *)
(* it, or finish_process drains it and dispatches its events, exit too.     *)

StartWork ==
  /\ JsRuns /\ started < MaxWork
  /\ work' = work + 1 /\ started' = started + 1
  /\ UNCHANGED <<testMode, main, evals, pending, listener, exitVars, phase>>

Tick ==
  /\ JsRuns /\ work > 0
  /\ work' = work - 1
  /\ UNCHANGED <<testMode, main, evals, pending, started, listener, exitVars, phase>>

\* A pending entry settles; its rejection waits to be reported.
SettleEntry(status) ==
  /\ JsRuns /\ pending > 0 /\ status # "pending"
  /\ pending' = pending - 1
  /\ unreported' = (unreported \/ status = "rejected")
  /\ UNCHANGED <<testMode, main, evals, work, started, listener, unhandled,
                 exitCode, requested, failed, overridden, phase>>

Listen ==
  /\ JsRuns /\ listener' = TRUE
  /\ UNCHANGED <<testMode, main, evals, pending, work, started, exitVars, phase>>

SetExitCode(code) ==
  /\ JsRuns
  /\ exitCode' = code /\ overridden' = TRUE
  /\ UNCHANGED <<testMode, main, jsVars, unreported, unhandled, requested, failed,
                 phase>>

\* process.exit(code): exit is dispatched at once, nothing is drained or reported.
ProcessExit(code) ==
  /\ JsRuns
  /\ exitCode' = code /\ overridden' = TRUE
  /\ phase' = "exit"
  /\ UNCHANGED <<testMode, main, jsVars, unreported, unhandled, requested, failed>>

\* handle_rejected_promises: by Bun after a tick, and by finish_process.  What is
\* rejected while exit is dispatched comes too late: nobody looks at the counter.
HandleRejectedPromises ==
  LET taken == unreported /\ ~listener
  IN  /\ unreported' = FALSE
      /\ unhandled' = (unhandled \/ taken)
      /\ failed' = IF taken /\ phase # "exit" THEN "late" ELSE failed
ReportRejections ==
  /\ JsRuns /\ unreported
  /\ HandleRejectedPromises
  /\ UNCHANGED <<testMode, main, jsVars, exitCode, requested, overridden, phase>>

-----------------------------------------------------------------------------
(* finish_process, which never returns: called again from JavaScript, it    *)
(* starts over, and the call further out is not resumed.                    *)

MoveOn(next) == phase' = next /\ UNCHANGED <<testMode, main, jsVars>>

FinishProcess ==
  /\ JsRuns
  /\ MoveOn(IF requested THEN "reporting" ELSE "draining")
  /\ UNCHANGED exitVars

DispatchBeforeExit ==
  /\ phase = "draining" /\ work = 0
  /\ MoveOn("before exit")
  /\ UNCHANGED exitVars
EndBeforeExit ==
  /\ phase = "before exit"
  /\ MoveOn("reporting")
  /\ UNCHANGED exitVars

ReportLate ==
  /\ phase = "reporting"
  /\ HandleRejectedPromises
  /\ ExitWith(unhandled')
  /\ overridden' = (overridden /\ ~unhandled')
  /\ MoveOn("exit")

\* on_exit has dispatched exit, and with it run JavaScript (JsRuns): global_exit.
GlobalExit ==
  /\ phase = "exit"
  /\ MoveOn("ended")
  /\ UNCHANGED exitVars

LifecycleNext ==
  \/ \E path \in Paths : ConfigureEntrypoint(path)
  \/ \E status \in Statuses : RunEvalSource(status)
  \/ StartWork \/ Tick \/ \E status \in Statuses : SettleEntry(status)
  \/ Listen \/ \E code \in 0..2 : SetExitCode(code) \/ ProcessExit(code)
  \/ ReportRejections
  \/ FinishProcess \/ DispatchBeforeExit \/ EndBeforeExit
  \/ ReportLate \/ GlobalExit

LifecycleSpec == LifecycleInit /\ [][LifecycleNext]_lifecycleVars

-----------------------------------------------------------------------------
\* "A JavaScript rejection is reported by Bun and reflected in the exit code":
\* when the process ends and an entry was rejected, within its evaluation or
\* at any later time before exit is dispatched, the code is 1, unless JavaScript
\* took the rejection or chose the code itself: after an early one, in a listener
\* of exit, or by process.exit.
RejectionReflected ==
  phase \in {"exit", "ended"} /\ failed # "no" => exitCode = 1 \/ overridden
=============================================================================
