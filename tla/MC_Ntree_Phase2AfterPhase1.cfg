\* The three-node tree; the overlay may deliver one message twice.  Spec
\* section 5 has round 2 start only once the root's round-1 bundle is
\* complete, and section 7 requires a duplicate bundle from an already
\* counted child to be rejected.
CONSTANTS
    n1 = n1  n2 = n2  n3 = n3  n4 = n4  n5 = n5  n6 = n6  n7 = n7
    Nodes <- MCNodesSmall
    Root = n1
    Parent <- MCParentSmall
    SignCanFail = FALSE
    MaxLoss = 0
    MaxDup = 1
SPECIFICATION Spec
\* A duplicate can leave a listen loop blocked for good (part_000:201).
CHECK_DEADLOCK FALSE
INVARIANT Phase2AfterPhase1
