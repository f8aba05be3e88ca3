-------------------------- MODULE MCHumanControl --------------------------
(***************************************************************************)
(* Instances of HumanControl for TLC: the model values its sets are made   *)
(* of, two connections, two phones and one task of the queue.              *)
(***************************************************************************)
EXTENDS HumanControl, TLC

CONSTANTS c1, c2, d1, d2, ai

\* Connections and local phones are interchangeable.
Symmetry == Permutations(Connections) \cup Permutations(Devices)
=============================================================================
