---------------------------- MODULE MCManualEdits ----------------------------
(* Instances of ManualEdits: two leaves in two files. *)
EXTENDS ManualEdits, TLC

CONSTANTS pa, pb, fa, fb

MCPageOf  == [r \in Refs |-> pa]
MCTwoPages == [r \in Refs |-> IF r = 1 THEN pa ELSE pb]
MCFileOf  == [r \in Refs |-> IF r < 2 THEN fa ELSE fb]
=============================================================================
