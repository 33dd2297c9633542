------------------------- MODULE MCStatusEffects -------------------------
(* One order and two workers for TLC; workers are not told apart. *)
EXTENDS StatusEffects, TLC

CONSTANTS o1, w1, w2
=============================================================================
