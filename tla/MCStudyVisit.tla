----------------------------- MODULE MCStudyVisit -----------------------------
(* TLC instance of StudyVisit: two tabs. *)
EXTENDS StudyVisit, TLC

CONSTANTS t1, t2

\* The tabs are interchangeable.
TabSymmetry == Permutations({t1, t2})
=============================================================================
