------------------------------ MODULE MCRingMap ------------------------------
(***************************************************************************)
(* Instances of RingMap: every way to hash the virtual nodes to 0..MaxHash *)
(***************************************************************************)
EXTENDS RingMap

CONSTANTS Replicas, MaxHash

Symmetry == Permutations(Proc)

AllHashings == [Node -> [1..Replicas -> 0..MaxHash]]
=============================================================================
