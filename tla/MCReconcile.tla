---------------------------- MODULE MCReconcile ----------------------------
EXTENDS Reconcile, TLC

\* h: the hash the page sends when it uploads the file.
File(n, h) == [type |-> "file", size |-> n, hash |-> h]
Dir == [type |-> "directory"]

\* Two versions of a folder: an empty subdirectory and a small file; then the
\* file has grown past the size that is hashed, and the subdirectory has one.
MCTrees ==
    { <<1>> :> File(1, "x") @@ <<2>> :> Dir,
      <<1>> :> File(2, "ns") @@ <<2>> :> Dir @@ <<2, 1>> :> File(1, "ns") }

\* Nothing tells two clients or two generated ids apart.
MCSymmetry == Permutations(Clients) \cup Permutations(Ids)
=============================================================================
