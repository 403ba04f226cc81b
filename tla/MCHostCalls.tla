----------------------------- MODULE MCHostCalls -----------------------------
(***************************************************************************)
(* HostCalls for TLC: a plain function, an FnOnce, and a method whose     *)
(* class instance host code may also borrow (or an FnMut, reached twice).  *)
(***************************************************************************)
EXTENDS HostCalls

CONSTANTS once, method, plain, cell

MCCellOf == [f \in {once, method, plain} |-> IF f = method THEN cell ELSE NoCell]
=============================================================================
