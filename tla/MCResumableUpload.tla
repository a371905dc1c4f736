------------------------- MODULE MCResumableUpload -------------------------
(* ResumableUpload on small instances; the .cfg files give the constants. *)
EXTENDS ResumableUpload, TLC

\* Session ids and handler goroutines are interchangeable.
Symmetry == Permutations(Sessions) \cup Permutations(Handlers)
=============================================================================
