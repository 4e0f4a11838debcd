---------------------------- MODULE MCSharedRanking ----------------------------
(* TLC instance of SharedRanking: three items. *)
EXTENDS SharedRanking, TLC

CONSTANTS p, q, a, b, c

Order == <<a, b, c>>

Interchangeable == Permutations({p, q})
=============================================================================
