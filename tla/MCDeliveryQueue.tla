-------------------------- MODULE MCDeliveryQueue --------------------------
(* Small instances of DeliveryQueue for TLC. *)
EXTENDS DeliveryQueue

CONSTANT r1
=============================================================================
