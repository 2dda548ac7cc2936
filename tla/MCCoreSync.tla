----------------------------- MODULE MCCoreSync -----------------------------
(* Model-checking instance of the exchange between the cores. *)
EXTENDS CoreSync
=============================================================================
