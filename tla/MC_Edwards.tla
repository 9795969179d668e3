----------------------------- MODULE MC_Edwards -----------------------------
(***************************************************************************)
(* Checks Edwards over a small complete curve: CurveA a square and CurveD  *)
(* a non-square modulo Prime.  Each state is a pair of curve points and a *)
(* scalar k with q1 added k times; the invariants quantify over a third   *)
(* point and over extended representations of the pair with Z in Scales. *)
(***************************************************************************)
EXTENDS Edwards

CONSTANTS Scales, MaxScalar

(* The affine points of the curve.                                        *)
CurvePoints ==
    {p \in Field \X Field :
        FAdd(FMul(CurveA, FMul(p[1], p[1])), FMul(p[2], p[2]))
            = FAdd(1, FMul(CurveD, FMul(FMul(p[1], p[1]), FMul(p[2], p[2]))))}

OnCurve(p) == p \in CurvePoints

(* The extended representation of p with Z = z.                           *)
Scaled(p, z) ==
    <<FMul(p[1], z), FMul(p[2], z), z, FMul(FMul(p[1], p[2]), z)>>

(* The extended representations of p an operation may receive.           *)
Reps(p) == {Scaled(p, z) : z \in Scales}

VARIABLES
    q1, q2,     \* the pair of curve points under test
    k,          \* a scalar, from 0 up to MaxScalar
    multiple    \* the reference for Mul: q1 added k times to the identity

vars == <<q1, q2, k, multiple>>

Init ==
    /\ q1 \in CurvePoints /\ q2 \in CurvePoints
    /\ k = 0 /\ multiple = BasicNull

(* One more addition of q1.                                               *)
AddOnce ==
    /\ k < MaxScalar
    /\ k' = k + 1 /\ multiple' = BasicAdd(multiple, q1)
    /\ UNCHANGED <<q1, q2>>

(* Every scalar up to MaxScalar has been reached.                          *)
Exhausted == k = MaxScalar /\ UNCHANGED vars

Next == AddOnce \/ Exhausted
Spec == Init /\ [][Next]_vars

-----------------------------------------------------------------------------
(* basicPoint.Add is the group law of a complete curve: its denominators  *)
(* never vanish (basic.go:139 divides by them), the sum is on the curve,  *)
(* (0,1) is the identity, Neg gives the inverse and the addition is       *)
(* associative, against every third point.                                *)
BasicGroupLaw ==
    /\ AddDenominators(q1, q2)[1] # 0 /\ AddDenominators(q1, q2)[2] # 0
    /\ OnCurve(BasicAdd(q1, q2))
    /\ BasicAdd(q1, BasicNull) = q1
    /\ BasicAdd(q1, BasicNeg(q1)) = BasicNull
    /\ \A q3 \in CurvePoints :
          BasicAdd(BasicAdd(q1, q2), q3) = BasicAdd(q1, BasicAdd(q2, q3))

(* The extended Add, Sub, double and Neg of ext.go, applied to any        *)
(* representations of two points, normalise to what basic.go computes on  *)
(* the affine points.                                                     *)
ExtMatchesBasic ==
    \A r1 \in Reps(q1), r2 \in Reps(q2) :
        /\ GetXY(ExtAdd(r1, r2)) = BasicAdd(q1, q2)
        /\ GetXY(ExtSub(r1, r2)) = BasicSub(q1, q2)
        /\ GetXY(ExtDouble(r1)) = BasicDouble(q1)
        /\ GetXY(ExtNeg(r1)) = BasicNeg(q1)

(* Every extended operation keeps T = XY/Z (what checkT asserts), so the  *)
(* next Add, which reads T1 and T2, gets a consistent input.              *)
TInvariant ==
    \A r1 \in Reps(q1), r2 \in Reps(q2) :
        \A r \in {ExtAdd(r1, r2), ExtSub(r1, r2), ExtDouble(r1), ExtNeg(r1),
                  Normalize(r1), ExtMul(r1, MaxScalar)} :
            CheckT(r)

(* Mul, in both representations, is k-fold addition for every scalar up  *)
(* to MaxScalar: the double-and-add loop reads the bits most significant  *)
(* first.                                                                 *)
MulIsRepeatedAdd ==
    /\ BasicMul(q1, k) = multiple
    /\ GetXY(ExtMul(InitXY(q1), k)) = multiple

(* Equal on extended values holds exactly when they stand for the same    *)
(* affine point, whatever their Z.                                        *)
EqualIsPointEquality ==
    \A r1 \in Reps(q1), r2 \in Reps(q2) : ExtEqual(r1, r2) <=> q1 = q2

=============================================================================
