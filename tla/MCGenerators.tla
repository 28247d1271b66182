---- MODULE MCGenerators ----
(***************************************************************************)
(* Instances of Generators: two generators that may call, delegate to and  *)
(* close each other, and an iterator that either may delegate to.          *)
(***************************************************************************)
EXTENDS Generators

\* The generators are interchangeable.
Symmetry == Permutations(Gens)
====
