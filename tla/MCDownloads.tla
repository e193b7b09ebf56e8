---------------------------- MODULE MCDownloads ----------------------------
(* Model checking of Downloads.                                            *)
EXTENDS Downloads, TLC

CONSTANTS d1, d2, d3, a1, a2

(* Downloads are alike, and so are attachments.                            *)
Symmetry == Permutations(Downloads) \cup Permutations(Attachments)
============================================================================
