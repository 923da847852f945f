----------------------------- MODULE MCCoverage -----------------------------
(***************************************************************************)
(* Coverage on a small instance: three consecutive days, so that a day can  *)
(* bridge two ranges, extend one on either side, or stand alone.           *)
(***************************************************************************)
EXTENDS Coverage, TLC

CONSTANTS k1, k2, w1, w2

MCKey == {k1, k2}
MCWriter == {w1, w2}
MCDay == 1..3
MCSymmetry == Permutations(MCWriter)

\* The writers of the other key may overlap: they can lose a day and insert it
\* again without end.  What they archive is nobody's concern here.
MCExclusive == {k1}
MaxId == 4
MCFewRows == nextId <= MaxId /\ \A kd \in archive : kd[1] = k1
=============================================================================
