------------------------- MODULE MCDeliverySession -------------------------
(* DeliverySession on small instances.                                     *)
EXTENDS DeliverySession, TLC

IdSymmetry == Permutations(Ids \ Expirable)
=============================================================================
