----------------------------- MODULE MCAutograd -----------------------------
(* Autograd for TLC: the element types are interchangeable. *)
EXTENDS Autograd, TLC

TypeSymmetry == Permutations(Types)
==============================================================================
