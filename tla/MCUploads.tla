----------------------------- MODULE MCUploads -----------------------------
(* Model checking of Uploads.                                              *)
EXTENDS Uploads, TLC

CONSTANTS u1, u2, u3, m1, m2

(* The uploads are alike, and so are the messages.                         *)
Symmetry == Permutations(Uploads) \cup Permutations(Messages)
=============================================================================
