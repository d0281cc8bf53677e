-------------------------------- MODULE MCPages --------------------------------
(* Two fetches and two submissions at a time suffice for every race.        *)
EXTENDS Pages, TLC

CONSTANTS l1, l2, p1, p2

Symmetry == Permutations(Load) \cup Permutations(Post)
================================================================================
