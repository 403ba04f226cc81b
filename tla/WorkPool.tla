------------------------------- MODULE WorkPool -------------------------------
(***************************************************************************)
(* What the executor of host futures and the queue of deferred calls       *)
(* promise to whoever uses them, whatever drives them: a submitted future  *)
(* stays in the pool until it completes, or until the code polling it is   *)
(* unwound by a panic; it completes once; deferred calls run one after the *)
(* other in the order of their submission.                                 *)
(***************************************************************************)
EXTENDS Naturals, Sequences

CONSTANTS Work, MaxCalls

VARIABLES pool, completed, dropped,  \* futures
          queue, issued              \* deferred calls

poolVars == <<pool, completed, dropped, queue, issued>>

PoolInit ==
  /\ pool = {} /\ completed = {} /\ dropped = {}
  /\ queue = <<>> /\ issued = 0

Submit(f) ==
  /\ f \notin pool \cup completed \cup dropped
  /\ pool' = pool \cup {f}
  /\ UNCHANGED <<completed, dropped, queue, issued>>

Complete(f) ==
  /\ f \in pool
  /\ pool' = pool \ {f} /\ completed' = completed \cup {f}
  /\ UNCHANGED <<dropped, queue, issued>>

Unwind(S) ==
  /\ S \subseteq pool
  /\ pool' = pool \ S /\ dropped' = dropped \cup S
  /\ UNCHANGED <<completed, queue, issued>>

Issue ==
  /\ issued < MaxCalls
  /\ issued' = issued + 1 /\ queue' = Append(queue, issued + 1)
  /\ UNCHANGED <<pool, completed, dropped>>

RunFirst ==
  /\ queue # <<>>
  /\ queue' = Tail(queue)
  /\ UNCHANGED <<pool, completed, dropped, issued>>

PoolNext ==
  \/ \E f \in Work : Submit(f) \/ Complete(f)
  \/ \E S \in SUBSET Work : Unwind(S)
  \/ Issue
  \/ RunFirst

PoolSpec == PoolInit /\ [][PoolNext]_poolVars
=============================================================================
