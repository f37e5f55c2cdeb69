--------------------------- MODULE MCPointInTime ---------------------------
(* An instance of PointInTime for TLC: sources that state dates and do not  *)
(* number their revisions.                                                  *)
EXTENDS PointInTime, TLC

MCUnsequenced ==
    [precision : {"DATE_ONLY"}, sequenced : {FALSE}, basis : {FALSE}]

\* Series are interchangeable: no operator picks one of them.
Symmetry == Permutations(Series)
=============================================================================
