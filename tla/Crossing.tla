-------------------------------- MODULE Crossing --------------------------------
(***************************************************************************)
(* What crosses between Rust and JavaScript: the arguments of a call and   *)
(* numbers (HostArgs), an array or an object (Collections), an iterable    *)
(* (Iterables).  They share no state, so subject picks one for the whole   *)
(* behaviour.                                                              *)
(***************************************************************************)
EXTENDS HostArgs, Collections, Iterables

VARIABLE subject

crossingVars == <<subject, vars, collectionVars, iterVars>>

Subjects == {"arguments", "collection", "iterable"}

\* One source is enough for the others, which ignore it.
CrossingInit ==
  /\ Init /\ CollectionsInit /\ IterablesInit
  /\ subject \in Subjects
  /\ subject # "iterable" => source = "foreign"
CrossingNext ==
  /\ UNCHANGED subject
  /\ \/ subject = "arguments" /\ Next /\ UNCHANGED <<collectionVars, iterVars>>
     \/ subject = "collection" /\ CollectionsNext /\ UNCHANGED <<vars, iterVars>>
     \/ subject = "iterable" /\ IterablesNext /\ UNCHANGED <<vars, collectionVars>>
CrossingSpec == CrossingInit /\ [][CrossingNext]_crossingVars

\* The type invariants of the three.
AllTypesOK == TypeOK /\ CollectionTypes /\ IterableTypes
=============================================================================
