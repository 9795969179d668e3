------------------------------ MODULE Edwards ------------------------------
(***************************************************************************)
(* Twisted Edwards curve arithmetic of the vendored dedis crypto package   *)
(* (src/vendor/gopkg.in/dedis/crypto.v0/edwards): the affine reference     *)
(* implementation of basic.go and the extended-coordinate one of ext.go,   *)
(* as pure operators over GF(Prime).  The curve is                          *)
(*     CurveA * x^2 + y^2 = 1 + CurveD * x^2 * y^2.                         *)
(* An affine point is <<x, y>>; an extended one is <<X, Y, Z, T>> with      *)
(* x = X/Z, y = Y/Z and T = XY/Z.  nist.Int arithmetic is modular          *)
(* arithmetic and is written as such.                                      *)
(***************************************************************************)
EXTENDS Naturals, Sequences

CONSTANTS Prime, CurveA, CurveD

-----------------------------------------------------------------------------
(* nist.Int: integers modulo Prime                                        *)

Field == 0..(Prime - 1)
FAdd(x, y) == (x + y) % Prime
FSub(x, y) == (x + Prime - y) % Prime
FMul(x, y) == (x * y) % Prime
FNeg(x) == (Prime - x) % Prime
FInv(x) == CHOOSE y \in Field : FMul(x, y) = 1
FDiv(x, y) == FMul(x, FInv(y))

(* A variant of Bits that reads the bits least significant first.        *)
BitsLowFirst(v) ==
    LET RECURSIVE Low(_)
        Low(w) == IF w = 0 THEN <<>> ELSE <<w % 2>> \o Low(w \div 2)
    IN  Low(v)

(* v.BitLen() and v.Bit(i) for i from BitLen-1 down to 0: the bits of v,  *)
(* most significant first; no bits at all for 0.                          *)
RECURSIVE Bits(_)
Bits(v) == IF v = 0 THEN <<>> ELSE Bits(v \div 2) \o <<v % 2>>

-----------------------------------------------------------------------------
(* basic.go: affine coordinates                                           *)

BasicNull == <<0, 1>>

(* The denominators 1 + d*x1*x2*y1*y2 and 1 - d*x1*x2*y1*y2 of Add.       *)
AddDenominators(p1, p2) ==
    LET dm == FMul(FMul(FMul(FMul(CurveD, p1[1]), p2[1]), p1[2]), p2[2])
    IN  <<FAdd(1, dm), FSub(1, dm)>>

(* A variant of Add that divides x by the y denominator.                  *)
BasicAddMinusDenominator(p1, p2) ==
    LET den == AddDenominators(p1, p2)
        nx == FAdd(FMul(p1[1], p2[2]), FMul(p2[1], p1[2]))
        ny == FSub(FMul(p1[2], p2[2]), FMul(CurveA, FMul(p1[1], p2[1])))
    IN  <<FDiv(nx, den[2]), FDiv(ny, den[2])>>

(* basicPoint.Add: the unified addition law, x' = nx/dx and y' = ny/dy.   *)
BasicAdd(p1, p2) ==
    LET den == AddDenominators(p1, p2)
        nx == FAdd(FMul(p1[1], p2[2]), FMul(p2[1], p1[2]))
        ny == FSub(FMul(p1[2], p2[2]), FMul(CurveA, FMul(p1[1], p2[1])))
    IN  <<FDiv(nx, den[1]), FDiv(ny, den[2])>>

BasicNeg(p) == <<FNeg(p[1]), p[2]>>
BasicSub(p1, p2) == BasicAdd(p1, BasicNeg(p2))
BasicDouble(p) == BasicAdd(p, p)

(* The loop of basicPoint.Mul: for each bit T is doubled, then G is added *)
(* if the bit is set.                                                     *)
RECURSIVE BasicLadder(_, _, _)
BasicLadder(acc, g, bits) ==
    IF bits = <<>> THEN acc
    ELSE LET dbl == BasicDouble(acc)
         IN  BasicLadder(IF Head(bits) = 1 THEN BasicAdd(dbl, g) ELSE dbl,
                         g, Tail(bits))

(* basicPoint.Mul: T starts at the identity.                              *)
BasicMul(g, s) == BasicLadder(BasicNull, g, Bits(s))

-----------------------------------------------------------------------------
(* ext.go: extended coordinates                                           *)

ExtNull == <<0, 1, 1, 0>>

(* initXY: Z = 1, T = XY.                                                 *)
InitXY(p) == <<p[1], p[2], 1, FMul(p[1], p[2])>>

(* A = X1X2, B = Y1Y2, C = d T1T2, D = Z1Z2, common to Add and Sub.       *)
Products(p1, p2) ==
    [A |-> FMul(p1[1], p2[1]), B |-> FMul(p1[2], p2[2]),
     C |-> FMul(FMul(p1[4], p2[4]), CurveD), D |-> FMul(p1[3], p2[3])]

(* X3 = EF, Y3 = GH, Z3 = FG, T3 = EH, common to Add, Sub and double.     *)
Combine(t) == <<FMul(t.E, t.F), FMul(t.G, t.H), FMul(t.F, t.G), FMul(t.E, t.H)>>

(* (X1 + Y1)(X2 + Y2) - A - B                                             *)
AddE(p1, p2, pr) ==
    FSub(FSub(FMul(FAdd(p1[1], p1[2]), FAdd(p2[1], p2[2])), pr.A), pr.B)

(* A variant of Add that takes H = B + aA, as Sub does.                   *)
ExtAddHFromSub(p1, p2) ==
    LET pr == Products(p1, p2)
    IN  Combine([E |-> AddE(p1, p2, pr), F |-> FSub(pr.D, pr.C),
                 G |-> FAdd(pr.D, pr.C), H |-> FAdd(pr.B, FMul(CurveA, pr.A))])

(* extPoint.Add (Hisil et al., unified).                                  *)
ExtAdd(p1, p2) ==
    LET pr == Products(p1, p2)
    IN  Combine([E |-> AddE(p1, p2, pr), F |-> FSub(pr.D, pr.C),
                 G |-> FAdd(pr.D, pr.C), H |-> FSub(pr.B, FMul(CurveA, pr.A))])

(* extPoint.Sub: Add with the signs of -P2 folded in.                     *)
ExtSub(p1, p2) ==
    LET pr == Products(p1, p2)
        E == FSub(FAdd(FMul(FAdd(p1[1], p1[2]), FSub(p2[2], p2[1])), pr.A), pr.B)
    IN  Combine([E |-> E, F |-> FAdd(pr.D, pr.C),
                 G |-> FSub(pr.D, pr.C), H |-> FAdd(pr.B, FMul(CurveA, pr.A))])

ExtNeg(p) == <<FNeg(p[1]), p[2], p[3], FNeg(p[4])>>

(* E, F, G, H of double: A = X^2, B = Y^2, C = 2Z^2, D = aA,               *)
(* E = (X + Y)^2 - A - B, G = D + B, F = G - C, H = D - B.                  *)
DoubleTerms(p) ==
    LET A == FMul(p[1], p[1])
        B == FMul(p[2], p[2])
        C == FMul(2, FMul(p[3], p[3]))
        D == FMul(CurveA, A)
    IN  [E |-> FSub(FSub(FMul(FAdd(p[1], p[2]), FAdd(p[1], p[2])), A), B),
         F |-> FSub(FAdd(D, B), C), G |-> FAdd(D, B), H |-> FSub(D, B)]

(* A variant of double that computes T as E*F.                            *)
ExtDoubleWrongT(p) ==
    LET dt == DoubleTerms(p)
    IN  [Combine(dt) EXCEPT ![4] = FMul(dt.E, dt.F)]

(* extPoint.double (dbl-2008-hwcd).                                       *)
ExtDouble(p) == Combine(DoubleTerms(p))

(* The loop of extPoint.Mul, the same double-and-add.                    *)
RECURSIVE ExtLadder(_, _, _)
ExtLadder(acc, g, bits) ==
    IF bits = <<>> THEN acc
    ELSE LET dbl == ExtDouble(acc)
         IN  ExtLadder(IF Head(bits) = 1 THEN ExtAdd(dbl, g) ELSE dbl,
                       g, Tail(bits))

(* extPoint.Mul: T starts at the identity.                                *)
ExtMul(g, s) == ExtLadder(ExtNull, g, Bits(s))

(* normalize: Z = 1 (Z is inverted in place first).                       *)
Normalize(p) ==
    LET zi == FInv(p[3])
        x == FMul(p[1], zi)
        y == FMul(p[2], zi)
    IN  <<x, y, 1, FMul(x, y)>>

(* getXY: the affine point of a normalised representation.                *)
GetXY(p) == <<Normalize(p)[1], Normalize(p)[2]>>

(* A variant of Equal that compares the x coordinates only.               *)
ExtEqualXOnly(p1, p2) == FMul(p1[1], p2[3]) = FMul(p2[1], p1[3])

(* Equal: cross-multiplied comparison, without inversion.                 *)
ExtEqual(p1, p2) ==
    /\ FMul(p1[1], p2[3]) = FMul(p2[1], p1[3])
    /\ FMul(p1[2], p2[3]) = FMul(p2[2], p1[3])

(* checkT: XY = ZT.                                                       *)
CheckT(p) == FMul(p[1], p[2]) = FMul(p[3], p[4])

=============================================================================
