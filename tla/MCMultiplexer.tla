---- MODULE MCMultiplexer ----
(* A model-checking instance of Multiplexer. *)
EXTENDS Multiplexer, TLC

CONSTANTS c1, c2, c3

MCSymmetry == Permutations(Consumers)

====
