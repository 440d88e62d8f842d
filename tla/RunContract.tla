------------------------------ MODULE RunContract ------------------------------
(***************************************************************************)
(* What a run promises its readers (DECISIONS 10.1, 10.4, 12.13): one plan *)
(* pinned once; a pause is the only way to stop before the end; the end is *)
(* recorded once and final; success means that every module delivered.     *)
(***************************************************************************)
EXTENDS Naturals

CONSTANTS Modules

VARIABLES
    status,     \* queued, running, paused, succeeded, failed
    plan,       \* the pinned source set, {} before the pin
    delivered,  \* the modules that have committed an artifact
    endings     \* how many terminal events the run's log holds

vars == <<status, plan, delivered, endings>>
Open == {"queued", "running", "paused"}

Init ==
    /\ status = "queued" /\ plan = {} /\ delivered = {} /\ endings = 0

\* The entry gate pins the plan and the run starts.
Pin ==
    /\ status \in {"queued", "paused"} /\ plan = {}
    /\ plan' # {}
    /\ status' = "running"
    /\ UNCHANGED <<delivered, endings>>

Park ==
    /\ status \in {"queued", "running"}
    /\ status' = "paused"
    /\ UNCHANGED <<plan, delivered, endings>>

\* A human decision lets a run parked after its pin go on.
Release ==
    /\ status = "paused" /\ plan # {}
    /\ status' = "running"
    /\ UNCHANGED <<plan, delivered, endings>>

Deliver(m) ==
    /\ plan # {} /\ m \notin delivered
    /\ delivered' = delivered \cup {m}
    /\ UNCHANGED <<status, plan, endings>>

Succeed ==
    /\ status = "running" /\ plan # {} /\ delivered = Modules
    /\ status' = "succeeded"
    /\ endings' = endings + 1
    /\ UNCHANGED <<plan, delivered>>

Fail ==
    /\ status \in Open
    /\ status' = "failed"
    /\ endings' = endings + 1
    /\ UNCHANGED <<plan, delivered>>

Next == Pin \/ Park \/ Release \/ Succeed \/ Fail \/ \E m \in Modules : Deliver(m)

Spec == Init /\ [][Next]_vars
=============================================================================
