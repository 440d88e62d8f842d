------------------------------ MODULE MCRunGated ------------------------------
(* A chain that ends in a plan-approval module, as DEEP_RESEARCH does.     *)
EXTENDS RunLifecycle
MCModules == {"CP-0", "CP-DR"}
MCDeps == [m \in MCModules |-> IF m = "CP-0" THEN {} ELSE {"CP-0"}]
MCGated == {"CP-DR"}
=============================================================================
