--------------------------- MODULE MCInboxDelivery ---------------------------
(* Model-checking instances of InboxDelivery: processes are interchangeable. *)
EXTENDS InboxDelivery, TLC

ProcSymmetry == Permutations(Procs)
=============================================================================
