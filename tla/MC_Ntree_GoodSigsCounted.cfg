CONSTANTS
    n1 = n1  n2 = n2  n3 = n3  n4 = n4  n5 = n5  n6 = n6  n7 = n7
    Nodes <- MCNodes
    Root = n1
    Parent <- MCParent
    SignCanFail = FALSE
    MaxLoss = 0
    MaxDup = 0
SPECIFICATION Spec
INVARIANT GoodSigsCounted
