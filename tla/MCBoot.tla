--------------------------------- MODULE MCBoot ---------------------------------
(***************************************************************************)
(* One instance: several threads that boot runtimes (Boot), or the life of *)
(* one booted VM until its process ends (Lifecycle).  The two share no     *)
(* state, so subject picks one for the whole behaviour.                    *)
(***************************************************************************)
EXTENDS Boot, Lifecycle

VARIABLE subject

MCInit == subject \in {"boot", "lifecycle"} /\ Init /\ LifecycleInit
MCNext ==
  \/ subject = "boot" /\ Next /\ UNCHANGED <<subject, lifecycleVars>>
  \/ subject = "lifecycle" /\ LifecycleNext /\ UNCHANGED <<subject, vars>>
MCSpec == MCInit /\ [][MCNext]_<<subject, vars, lifecycleVars>>
=============================================================================
