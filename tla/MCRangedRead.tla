---------------------------- MODULE MCRangedRead ----------------------------
(* RangedRead on small instances; the .cfg files give the constants. *)
EXTENDS RangedRead
=============================================================================
