----------------------------- MODULE MCDelivery -----------------------------
(* Delivery with the model values of its friends, for TLC.                  *)
EXTENDS Delivery, TLC

CONSTANT a
=============================================================================
