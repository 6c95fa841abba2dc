----------------------------- MODULE MCDelegation -----------------------------
(* Model-checking instance of Delegation: more subagents than slots. *)
EXTENDS Delegation, TLC
=============================================================================
