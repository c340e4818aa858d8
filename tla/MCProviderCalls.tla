-------------------------- MODULE MCProviderCalls ---------------------------
(***************************************************************************)
(* Every kind of work of both job functions.                               *)
(***************************************************************************)
EXTENDS ProviderCalls
=============================================================================
