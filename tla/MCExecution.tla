---------------------------- MODULE MCExecution ----------------------------
(***************************************************************************)
(* Execution with a register that leads out of the soup, backwards; what   *)
(* calls push leads out of it forwards.  The size does not divide the      *)
(* small word, as a soup's size need not divide 2^32.                      *)
(***************************************************************************)
EXTENDS Execution

MCWords == {-4}
=============================================================================
