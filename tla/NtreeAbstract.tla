---------------------------- MODULE NtreeAbstract ----------------------------
(***************************************************************************)
(* What one Ntree run promises (spec sections 3, 4 and 9), with the tree,  *)
(* the messages and the bundles left out.  Round 1: every node but the     *)
(* root contributes once; the root contributes last and, in the same step, *)
(* asks for round 2.  Round 2: every node but the root contributes once;   *)
(* the root contributes last and, in the same step, reports the result.    *)
(* A contribution is a signature or an exception: which one does not       *)
(* matter here.                                                            *)
(***************************************************************************)
CONSTANTS Nodes, Root

VARIABLES
    stage,      \* "idle", "round1", "round2" or "done"
    signed1,    \* the nodes that have contributed to round 1
    signed2     \* the nodes that have contributed to round 2

avars == <<stage, signed1, signed2>>

Init ==
    /\ stage = "idle"
    /\ signed1 = {}
    /\ signed2 = {}

(* The root starts the run.                                               *)
Begin ==
    /\ stage = "idle"
    /\ stage' = "round1"
    /\ UNCHANGED <<signed1, signed2>>

(* A node other than the root contributes to round 1, once.               *)
Contribute1(n) ==
    /\ stage = "round1"
    /\ n \in Nodes \ ({Root} \cup signed1)
    /\ signed1' = signed1 \cup {n}
    /\ UNCHANGED <<stage, signed2>>

(* With every other node's contribution in, the root adds its own and     *)
(* requests round 2.                                                      *)
Request ==
    /\ stage = "round1"
    /\ signed1 = Nodes \ {Root}
    /\ signed1' = Nodes
    /\ stage' = "round2"
    /\ UNCHANGED signed2

(* A node other than the root contributes to round 2, once.               *)
Contribute2(n) ==
    /\ stage = "round2"
    /\ n \in Nodes \ ({Root} \cup signed2)
    /\ signed2' = signed2 \cup {n}
    /\ UNCHANGED <<stage, signed1>>

(* With every other node's round-2 contribution in, the root adds its own *)
(* and reports; the run is over.                                          *)
Report ==
    /\ stage = "round2"
    /\ signed2 = Nodes \ {Root}
    /\ signed2' = Nodes
    /\ stage' = "done"
    /\ UNCHANGED signed1

Next ==
    \/ Begin
    \/ \E n \in Nodes : Contribute1(n) \/ Contribute2(n)
    \/ Request
    \/ Report

(* The run goes on until the root has reported.                           *)
Spec == Init /\ [][Next]_avars /\ WF_avars(Next)

=============================================================================
