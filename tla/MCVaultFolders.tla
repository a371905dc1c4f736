--------------------------- MODULE MCVaultFolders ---------------------------
EXTENDS VaultFolders, TLC

Symmetry == Permutations(Workers) \cup Permutations(Admins) \cup Permutations(Folders)
                \cup Permutations(Files) \cup Permutations(Sessions)

\* The insert of the last row is checked, but not what happens to it later.
FilesLeft == born # Files
=============================================================================
