------------------------------ MODULE MCHooks ------------------------------
(* A small instance of Hooks for TLC. *)
EXTENDS Hooks, TLC

\* The full range, and one of the two addresses.
MCRanges == {<<1, 0>>, <<1, 1>>}
MCSymmetry == Permutations(Handles)
====
