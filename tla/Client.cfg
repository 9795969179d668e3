CONSTANTS
    MaxTx = 3
    MaxReq = 4
SPECIFICATION Spec
INVARIANT TypeOK
