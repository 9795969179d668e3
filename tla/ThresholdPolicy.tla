-------------------------- MODULE ThresholdPolicy --------------------------
(***************************************************************************)
(* The Byzantine acceptance test that Ntree.verifySignatureRequest         *)
(* (src/unnamed/part_000) applies to a signature request, as pure          *)
(* operators.  The goroutine does not return after a failing check: it     *)
(* sends one boolean per failing check and then TRUE, on an unbuffered     *)
(* channel whose single reader (computeSignatureResponse) takes only the   *)
(* first one.  VerdictSends is the whole sequence of sends, Accepts the    *)
(* value the reader sees.                                                  *)
(***************************************************************************)
EXTENDS Naturals, Sequences

(* threshold := int(math.Ceil(float64(len(nt.Tree().List())) / 3.0))      *)
(* For the small tree sizes used here the float computation is exact.     *)
Threshold(n) == (n + 2) \div 3

(* The values sent on verifySignatureRequestChan, in order: FALSE when    *)
(* there are too many exceptions, FALSE when there are too few good       *)
(* signatures, and TRUE in every case.                                    *)
VerdictSends(nExc, goodSig, n) ==
    LET t == Threshold(n)
    IN  (IF nExc > t THEN <<FALSE>> ELSE <<>>)
        \o (IF goodSig <= 2 * t THEN <<FALSE>> ELSE <<>>)
        \o <<TRUE>>

(* The verdict computeSignatureResponse receives: the first send.         *)
Accepts(nExc, goodSig, n) == Head(VerdictSends(nExc, goodSig, n))

=============================================================================
