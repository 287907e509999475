------------------------------ MODULE MCDebounce ------------------------------
(* Instance for TLC. *)
EXTENDS Debounce
=============================================================================
