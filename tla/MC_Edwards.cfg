\* The curve -x^2 + y^2 = 1 + 2x^2y^2 over GF(13): a = 12 is a square and
\* d = 2 is not, so the addition law is complete; it has 16 points.
CONSTANTS
    Prime = 13
    CurveA = 12
    CurveD = 2
    Scales = {1, 2, 5}
    MaxScalar = 17
SPECIFICATION Spec
INVARIANT BasicGroupLaw ExtMatchesBasic TInvariant MulIsRepeatedAdd EqualIsPointEquality
