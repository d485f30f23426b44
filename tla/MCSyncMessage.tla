---------------------------- MODULE MCSyncMessage ----------------------------
(* SyncMessage with two senders to two receivers. *)
EXTENDS SyncMessage, TLC

CONSTANTS s1, s2, r1, r2

MCReceiverOf == (s1 :> r1) @@ (s2 :> r2)

MessageSymmetry == Permutations(Messages)
================================================================================
