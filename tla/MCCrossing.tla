------------------------------- MODULE MCCrossing -------------------------------
(***************************************************************************)
(* Crossing with the arguments of MCHostArgs and the values and            *)
(* conversions of MCConversions.                                           *)
(***************************************************************************)
EXTENDS Crossing, MCHostArgs, MCConversions
=============================================================================
