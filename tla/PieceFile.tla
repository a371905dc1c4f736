----------------------------- MODULE PieceFile -----------------------------
(***************************************************************************)
(* What a caller of DownloadToFile is promised, whatever the pool of       *)
(* workers does: the pieces of the file arrive in any order, a piece       *)
(* counts as done only when the file has it and from then on, the journal  *)
(* names only pieces that are done, the answer is "ok" exactly if all are, *)
(* and nobody writes to the file after the answer.  DownloadTasks relies   *)
(* on this where it lets a download by pieces be received and end.         *)
(***************************************************************************)
CONSTANT Pieces

VARIABLES
    filled,     \* the pieces whose bytes are in the file
    done,       \* the pieces that count as complete
    saved,      \* the pieces the journal on disk names
    result      \* the answer, "running" until it is given

fvars == <<filled, done, saved, result>>

Init ==
    /\ filled \subseteq Pieces
    /\ done = filled /\ saved = filled
    /\ result = "running"

Fill(p) ==
    /\ result = "running"
    /\ filled' = filled \cup {p}
    /\ UNCHANGED <<done, saved, result>>

Finish(p) ==
    /\ result = "running"
    /\ p \in filled
    /\ done' = done \cup {p}
    /\ UNCHANGED <<filled, saved, result>>

Save ==
    /\ saved' \subseteq done
    /\ UNCHANGED <<filled, done, result>>

Answer ==
    /\ result = "running"
    /\ result' \in {"ok", "cancelled", "incomplete"}
    /\ result' = "ok" <=> done = Pieces
    /\ saved' \subseteq done
    /\ UNCHANGED <<filled, done>>

Next == (\E p \in Pieces : Fill(p) \/ Finish(p)) \/ Save \/ Answer

Spec == Init /\ [][Next]_fvars
=============================================================================
