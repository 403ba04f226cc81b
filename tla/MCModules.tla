------------------------------ MODULE MCModules ------------------------------
(***************************************************************************)
(* Modules for TLC: two names, a tuple of two resolvers of which the       *)
(* second redirects, and a tuple of two loaders of which the second        *)
(* declares a native definition.                                           *)
(***************************************************************************)
EXTENDS Modules

CONSTANTS a, b

\* The first resolver knows b only, as BuiltinResolver does; the second
\* resolves everything to a.
MCResolvers ==
  <<[n \in {a, b} |-> IF n = b THEN b ELSE NoName], [n \in {a, b} |-> a]>>

\* The first loader has no module at all; the second has a native module a.
MCLoaders ==
  <<[n \in {a, b} |-> "none"], [n \in {a, b} |-> IF n = a THEN "def" ELSE "none"]>>
=============================================================================
