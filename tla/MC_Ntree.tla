------------------------------ MODULE MC_Ntree ------------------------------
(***************************************************************************)
(* Ntree on a five-node tree with a root of two children, one of which    *)
(* has two children itself: leaves at two depths, an internal node that   *)
(* is not the root, and sibling messages racing at two levels.            *)
(***************************************************************************)
EXTENDS Ntree, TLC

CONSTANTS n1, n2, n3, n4, n5, n6, n7

MCNodes == {n1, n2, n3, n4, n5}
MCParent == (n2 :> n1) @@ (n3 :> n1) @@ (n4 :> n2) @@ (n5 :> n2)

(* The balanced binary tree of seven nodes of the end-to-end scenario of *)
(* spec section 8: n1 over n2 and n3, n2 over n4 and n5, n3 over n6, n7. *)
MCNodesBinary == {n1, n2, n3, n4, n5, n6, n7}
MCParentBinary == MCParent @@ (n6 :> n3) @@ (n7 :> n3)

(* The root and two leaves: the smallest tree where siblings race, for   *)
(* the runs with message faults.                                         *)
MCNodesSmall == {n1, n2, n3}
MCParentSmall == (n2 :> n1) @@ (n3 :> n1)

=============================================================================
