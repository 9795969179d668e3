\* The end-to-end scenario of spec section 8: a balanced binary tree of seven
\* nodes, whose final bundle must hold seven contributions.
CONSTANTS
    n1 = n1  n2 = n2  n3 = n3  n4 = n4  n5 = n5  n6 = n6  n7 = n7
    Nodes <- MCNodesBinary
    Root = n1
    Parent <- MCParentBinary
    SignCanFail = FALSE
    MaxLoss = 0
    MaxDup = 0
SPECIFICATION Spec
INVARIANT FinalBundleComplete
