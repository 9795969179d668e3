\* The three-node tree with marshal/sign failures at any node, up to one
\* failing SendTo anywhere (Start's early return included) and one message
\* delivered twice.  A run with a fault may stop before the root reports
\* (spec sections 6, 7), so deadlock is not an error here.
CONSTANTS
    n1 = n1  n2 = n2  n3 = n3  n4 = n4  n5 = n5  n6 = n6  n7 = n7
    Nodes <- MCNodesSmall
    Root = n1
    Parent <- MCParentSmall
    SignCanFail = TRUE
    MaxLoss = 1
    MaxDup = 1
SPECIFICATION Spec
CHECK_DEADLOCK FALSE
INVARIANT CompletionImpliesNoLoss
PROPERTY TerminationUnlessFault
