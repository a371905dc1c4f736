---------------------------- MODULE MCFileStore ----------------------------
(* FileStore on small instances; the .cfg files give the constants. *)
EXTENDS FileStore, TLC

\* Goroutines, hashes, row ids and nonces are interchangeable.
Symmetry ==
    Permutations(Handlers) \cup Permutations(Hashes) \cup Permutations(Files)
        \cup Permutations(Nonces)

(***************************************************************************)
(* A state in which every hash has met a race or failure, and one of them  *)
(* may lose its blob, is not continued.  History only grows, so once all   *)
(* are endangered no property can fail; what happens to littered hashes is *)
(* followed where none is endangered.                                      *)
(***************************************************************************)
Undecided == endangered = {} \/ endangered \cup littered # Hashes
=============================================================================
