------------------------------ MODULE MCRunFanOut ------------------------------
(* A route with one root and two parallel modules, as FULL_CREDIT fans out. *)
EXTENDS RunLifecycle, TLC
MCModules == {"CP-0", "CP-1", "CP-2"}
MCDeps == [m \in MCModules |-> IF m = "CP-0" THEN {} ELSE {"CP-0"}]
MCSymmetry == Permutations(Conts)
=============================================================================
