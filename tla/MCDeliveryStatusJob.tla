------------------------- MODULE MCDeliveryStatusJob -------------------------
(***************************************************************************)
(* One delivery; a chunk of one row stands for the four of the code.       *)
(***************************************************************************)
EXTENDS DeliveryStatusJob

CONSTANTS d1
=============================================================================
