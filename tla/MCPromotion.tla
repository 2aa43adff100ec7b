---------------------------- MODULE MCPromotion ----------------------------
(* Instances of Promotion for TLC: two slots, three rungs. *)
EXTENDS Promotion
===============================================================================
