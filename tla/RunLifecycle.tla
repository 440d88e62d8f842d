------------------------------ MODULE RunLifecycle ------------------------------
(***************************************************************************)
(* One methodology run, from its row in the store to its terminal event.   *)
(*                                                                         *)
(* Two databases are involved and neither commits with the other: the run  *)
(* tables of storage/runs.py and LangGraph's checkpoint of the run's       *)
(* thread.  Everything else (the drive that holds the thread lock, its     *)
(* graph tasks, the continuations and their retry timers) lives in the     *)
(* serving process and is lost when it stops.  Every action below is one   *)
(* store transaction, one checkpoint write, or one segment of Python that  *)
(* the event loop runs without interruption.                               *)
(***************************************************************************)
EXTENDS Naturals

CONSTANTS
    Modules,     \* the agent modules of the run's compiled route
    Deps,        \* Deps[m]: the modules whose artifacts m reads
    Gated,       \* the modules with plan_approval (CP-DR on DEEP_RESEARCH)
    Sources,     \* the sources a case may ever hold
    Conts,       \* the continuations that may exist at once on the loop
    Api,         \* the one inline request (start or resume) being served
    Nobody,      \* no driver holds the thread lock / no module the agent lock
    MaxRetries,  \* Len(CONTINUATION_RETRY_DELAYS)
    MaxFaults,   \* bound: infrastructure faults in a behaviour
    MaxCrashes,  \* bound: process deaths in a behaviour
    FaultSites,  \* where those faults may hit
    MayExpire    \* whether the provider qualification may expire

ASSUME ModulesAssumption ==
    /\ Deps \in [Modules -> SUBSET Modules]
    /\ Gated \subseteq Modules
    /\ {"gate", "finalize"} \cap Modules = {}
    /\ Nobody \notin Modules
\* A route is a finite graph without cycles (its edges lead from a stage to a
\* later one): in every part of it some module comes first and some comes last.
ASSUME RouteAssumption ==
    /\ Modules # {}
    /\ \A part \in SUBSET Modules : part # {} =>
        /\ \E m \in part : Deps[m] \cap part = {}
        /\ \E m \in part : \A n \in part : m \notin Deps[n]
ASSUME DriversAssumption ==
    /\ Api \notin Conts
    /\ Nobody \notin Conts \cup {Api}
ASSUME BoundsAssumption ==
    /\ MaxRetries \in Nat /\ MaxFaults \in Nat /\ MaxCrashes \in Nat
    /\ FaultSites \subseteq {"inline", "drive", "timer"}
    /\ MayExpire \in BOOLEAN

VARIABLES
    \* --- the run tables: every change is one committed transaction
    status,      \* runs.status
    error,       \* runs.error.code
    plan,        \* runs.plan: the pinned source set, NoPlan before the pin
    node,        \* run_nodes: status and linked artifact of each module
    artifacts,   \* run_artifacts: rows inserted for each module (latest is live)
    runLog,      \* run_events: how many of each run event
    nodeLog,     \* run_events: node.running and node.succeeded of each module
    tickets,     \* resume_tickets: how many are unconsumed
    research,    \* run_research: phase, proposed and approved plan hash
    inflight,    \* budget ledger: a provider request is reserved, unresolved
    \* --- the checkpoint database
    ck,          \* the thread's last checkpoint and the writes pending on it
    \* --- the case, and time
    curSet,      \* the sources of the current source set
    withdrawn,   \* the sources withdrawn so far
    expired,     \* the run's provider qualification has expired
    \* --- the serving process
    up,          \* the process is running
    driver,      \* every caller that drives the run, and its retry count
    holder,      \* the driver that holds the per-thread lock
    task,        \* where each graph task of the current superstep stands
    gateView,    \* the source set the gate task has read
    credit,      \* the resume value the next interrupt() would return
    agentLock,   \* the module that holds the per-run agent lock
    guard,       \* finalize holds the authority mutation lock
    \* --- bounds
    faults, crashes

runVars == <<status, error, plan, node, artifacts, runLog, nodeLog, tickets>>
storeVars == <<runVars, research, inflight>>
caseVars == <<curSet, withdrawn, expired>>
driveVars == <<holder, task, gateView, credit, agentLock, guard>>
procVars == <<up, driver, driveVars>>
bounds == <<faults, crashes>>
vars == <<storeVars, ck, caseVars, procVars, bounds>>
others == <<ck, caseVars, up, driver, holder, bounds>>   \* left alone inside a task

Terminal == {"succeeded", "failed"}
Drivers == Conts \cup {Api}
GraphNodes == Modules \cup {"gate", "finalize"}
NoPlan == {}
NoHash == [plan |-> NoPlan, upstream |-> [d \in Modules |-> 0]]
NoThread == [created |-> FALSE, applied |-> {}, writes |-> {}, interrupts |-> {}, plan |-> NoPlan]
Idle == [st |-> "idle", kind |-> "wait", attempt |-> 0]

Sinks == {m \in Modules : \A n \in Modules : m \notin Deps[n]}

\* The compiled StateGraph: START -> gate -> roots -> ... -> sinks -> finalize,
\* every edge list an ALL-join barrier.
GraphDeps ==
    [n \in GraphNodes |->
        IF n = "gate" THEN {}
        ELSE IF n = "finalize" THEN Sinks
        ELSE IF Deps[n] = {} THEN {"gate"} ELSE Deps[n]]

\* The superstep LangGraph runs once the nodes of `done` have been applied.
Frontier(done) == {n \in GraphNodes \ done : GraphDeps[n] \subseteq done}

\* sources_for_live_set: every member of the set is still live.
Live(set) == set # {} /\ set \cap withdrawn = {}

\* research_plan_hash(build_research_plan(...)): it binds the pinned plan and
\* the upstream artifacts by id.
PlanHash(m) ==
    [plan |-> plan,
     upstream |-> [d \in Modules |-> IF d \in Deps[m] THEN node[d].artifact ELSE 0]]

-----------------------------------------------------------------------------
(* Store transactions of RunStore, as the actions below use them.          *)

\* Mutant: the failure is written whatever the run's status.
FinalizeFailureUnguarded(code, blamed) ==
    /\ status' = "failed"
    /\ error' = code
    /\ node' = [m \in Modules |->
                   IF m = blamed THEN [node[m] EXCEPT !.status = "failed"]
                   ELSE IF node[m].status = "running"
                        THEN [node[m] EXCEPT !.status = "cancelled"]
                        ELSE node[m]]
    /\ tickets' = 0
    /\ runLog' = [runLog EXCEPT !["run.failed"] = @ + 1]
    /\ UNCHANGED <<plan, artifacts, nodeLog>>

\* Mutant: only the blamed node is updated; its running siblings stay running.
FinalizeFailureLeavesSiblings(code, blamed) ==
    IF status \in Terminal
    THEN UNCHANGED runVars
    ELSE /\ status' = "failed"
         /\ error' = code
         /\ node' = [m \in Modules |->
                        IF m = blamed THEN [node[m] EXCEPT !.status = "failed"] ELSE node[m]]
         /\ tickets' = 0
         /\ runLog' = [runLog EXCEPT !["run.failed"] = @ + 1]
         /\ UNCHANGED <<plan, artifacts, nodeLog>>

\* finalize_failure: compare-and-swap from a non-terminal status.
FinalizeFailure(code, blamed) ==
    IF status \in Terminal
    THEN UNCHANGED runVars
    ELSE /\ status' = "failed"
         /\ error' = code
         /\ node' = [m \in Modules |->
                        IF m = blamed THEN [node[m] EXCEPT !.status = "failed"]
                        ELSE IF node[m].status = "running"
                             THEN [node[m] EXCEPT !.status = "cancelled"]
                             ELSE node[m]]
         /\ tickets' = 0
         /\ runLog' = [runLog EXCEPT !["run.failed"] = @ + 1]
         /\ UNCHANGED <<plan, artifacts, nodeLog>>

\* Mutant: a pause mints a ticket without superseding the earlier ones.
PauseMintsOnly(code) ==
    /\ status' = "paused"
    /\ error' = code
    /\ tickets' = tickets + 1
    /\ runLog' = [runLog EXCEPT
                    !["run.paused"] = IF status = "paused" THEN @ ELSE @ + 1]
    /\ UNCHANGED <<plan, node, artifacts, nodeLog>>

\* pause_run: supersede every unconsumed ticket, mint one, emit run.paused only
\* on the transition.
Pause(code) ==
    /\ status' = "paused"
    /\ error' = code
    /\ tickets' = 1
    /\ runLog' = [runLog EXCEPT
                    !["run.paused"] = IF status = "paused" THEN @ ELSE @ + 1]
    /\ UNCHANGED <<plan, node, artifacts, nodeLog>>

\* The run half of propose_research_plan: park on the exact plan; emit
\* research.plan_ready with the first proposal.
Propose ==
    /\ status' = "paused"
    /\ error' = "PLAN_APPROVAL_REQUIRED"
    /\ tickets' = 1
    /\ runLog' = [runLog EXCEPT
                    !["run.paused"] = IF status = "paused" THEN @ ELSE @ + 1,
                    !["research.plan_ready"] = IF research.proposed = NoHash THEN @ + 1 ELSE @]
    /\ UNCHANGED <<plan, node, artifacts, nodeLog>>

\* The run half of approve_research_plan: leave the gate, supersede its ticket.
Approved ==
    /\ status' = "running"
    /\ error' = "none"
    /\ tickets' = 0
    /\ runLog' = [runLog EXCEPT !["research.plan_approved"] = @ + 1]
    /\ UNCHANGED <<plan, node, artifacts, nodeLog>>

\* Mutant: the pin does not look at the run's status.
PinPlanUnguarded(set) ==
    /\ status' = "running"
    /\ error' = "none"
    /\ IF plan = NoPlan
       THEN /\ plan' = set
            /\ node' = [m \in Modules |-> [status |-> "pending", artifact |-> 0]]
            /\ runLog' = [runLog EXCEPT !["run.running"] = @ + 1]
       ELSE UNCHANGED <<plan, node, runLog>>
    /\ UNCHANGED <<artifacts, nodeLog, tickets>>

\* pin_plan: written once, node rows created with it.
PinPlan(set) ==
    IF plan = NoPlan /\ status \notin Terminal
    THEN /\ status' = "running"
         /\ error' = "none"
         /\ plan' = set
         /\ node' = [m \in Modules |-> [status |-> "pending", artifact |-> 0]]
         /\ runLog' = [runLog EXCEPT !["run.running"] = @ + 1]
         /\ UNCHANGED <<artifacts, nodeLog, tickets>>
    ELSE IF plan # NoPlan /\ status = "paused"
    THEN /\ status' = "running"
         /\ error' = "none"
         /\ UNCHANGED <<plan, node, artifacts, runLog, nodeLog, tickets>>
    ELSE UNCHANGED runVars

\* Mutant: a node may start on a terminal run.
NodeRunningAnyway(m) ==
    IF node[m].status = "pending"
    THEN /\ node' = [node EXCEPT ![m].status = "running"]
         /\ nodeLog' = [nodeLog EXCEPT ![m].running = @ + 1]
         /\ UNCHANGED <<status, error, plan, artifacts, runLog, tickets>>
    ELSE UNCHANGED runVars

\* node_running: refused on a terminal run, a no-op on a node already running.
NodeRunning(m) ==
    IF status \notin Terminal /\ node[m].status = "pending"
    THEN /\ node' = [node EXCEPT ![m].status = "running"]
         /\ nodeLog' = [nodeLog EXCEPT ![m].running = @ + 1]
         /\ UNCHANGED <<status, error, plan, artifacts, runLog, tickets>>
    ELSE UNCHANGED runVars

\* Mutant: every completion inserts a fresh artifact.
CompleteNodeAfresh(m) ==
    LET id == artifacts[m] + 1
    IN  /\ artifacts' = [artifacts EXCEPT ![m] = id]
        /\ node' = [node EXCEPT ![m] = [status |-> "succeeded", artifact |-> id]]
        /\ nodeLog' = [nodeLog EXCEPT
                         ![m].succeeded = IF node[m].status = "succeeded" THEN @ ELSE @ + 1]
        /\ UNCHANGED <<status, error, plan, runLog, tickets>>

\* complete_node: relink the valid artifact the module already has, or insert
\* a fresh one; the node follows the artifact; node.succeeded only on the
\* transition.  It does not read runs.status.
CompleteNode(m) ==
    LET id == IF artifacts[m] > 0 THEN artifacts[m] ELSE artifacts[m] + 1
    IN  /\ artifacts' = [artifacts EXCEPT ![m] = id]
        /\ node' = [node EXCEPT ![m] = [status |-> "succeeded", artifact |-> id]]
        /\ nodeLog' = [nodeLog EXCEPT
                         ![m].succeeded = IF node[m].status = "succeeded" THEN @ ELSE @ + 1]
        /\ UNCHANGED <<status, error, plan, runLog, tickets>>

\* Mutant: success is written whatever the run's status.
FinalizeSuccessUnguarded ==
    /\ status' = "succeeded"
    /\ error' = "none"
    /\ runLog' = [runLog EXCEPT !["run.succeeded"] = @ + 1]
    /\ UNCHANGED <<plan, node, artifacts, nodeLog, tickets>>

\* finalize_success: compare-and-swap from running.
FinalizeSuccess ==
    IF status = "running"
    THEN /\ status' = "succeeded"
         /\ error' = "none"
         /\ runLog' = [runLog EXCEPT !["run.succeeded"] = @ + 1]
         /\ UNCHANGED <<plan, node, artifacts, nodeLog, tickets>>
    ELSE UNCHANGED runVars

\* Mutant: the ticket is consumed without looking whether there is one.
ConsumeTicketBlindly ==
    /\ tickets' = tickets - 1
    /\ UNCHANGED <<status, error, plan, node, artifacts, runLog, nodeLog>>

\* consume_ticket on latest_ticket: nothing to consume is not a refusal.
ConsumeTicket ==
    /\ tickets' = IF tickets > 0 THEN tickets - 1 ELSE 0
    /\ UNCHANGED <<status, error, plan, node, artifacts, runLog, nodeLog>>

-----------------------------------------------------------------------------
(* The process: drivers, the thread lock, continuations.                   *)

\* The thread is deleted once its run is terminal.  A drive still running on
\* it keeps its channel values in memory.
DeletedThread == IF holder = Nobody THEN NoThread ELSE [ck EXCEPT !.created = FALSE]

FreeConts == {c \in Conts : driver[c].st = "idle"}

\* _schedule_continuation with require_running: a task on the loop, if the run
\* (in its next state) is running.
WithContinuation(drivers) ==
    IF status' = "running"
    THEN \E c \in {x \in Conts : drivers[x].st = "idle"} :
            driver' = [drivers EXCEPT ![c] = [st |-> "ready", kind |-> "wait", attempt |-> 0]]
    ELSE driver' = drivers

\* The end of a drive that did not raise: the thread lock is released, a
\* terminal run's thread is deleted, and an inline request schedules the
\* continuation of the run it leaves running.
EndDrive(d) ==
    /\ holder' = Nobody
    /\ task' = [n \in GraphNodes |-> "idle"]
    /\ gateView' = NoPlan
    /\ credit' = FALSE
    /\ agentLock' = Nobody
    /\ guard' = FALSE
    /\ IF d = Api
       THEN WithContinuation([driver EXCEPT ![d] = Idle])
       ELSE driver' = [driver EXCEPT ![d] = Idle]

\* Mutant: an exception ends the continuation and nothing follows it up.
AfterRaiseForgets(d) ==
    /\ driver' = [driver EXCEPT ![d] = Idle]
    /\ UNCHANGED runVars

\* The continuation's done-callback after an exception: back off and retry, or
\* fail the run closed; an inline request hands the exception to its caller.
AfterRaise(d) ==
    IF d = Api
    THEN /\ driver' = [driver EXCEPT ![d] = Idle]
         /\ UNCHANGED runVars
    ELSE IF driver[d].attempt < MaxRetries
         THEN /\ driver' = [driver EXCEPT ![d].st = "timer", ![d].attempt = @ + 1]
              /\ UNCHANGED runVars
         ELSE /\ driver' = [driver EXCEPT ![d] = Idle]
              /\ FinalizeFailure("RUN_EXECUTION_FAILED", Nobody)

\* An exception leaves the drive: lock, tasks and guards are gone with it.
RaiseFromDrive(d) ==
    /\ holder' = Nobody
    /\ task' = [n \in GraphNodes |-> "idle"]
    /\ gateView' = NoPlan
    /\ credit' = FALSE
    /\ agentLock' = Nobody
    /\ guard' = FALSE
    /\ ck' = IF status \in Terminal THEN NoThread ELSE ck
    /\ AfterRaise(d)

\* _finalize_identity_failure, before any lock is taken.
IdentityFailure ==
    /\ FinalizeFailure("AGENT_QUALIFICATION_EXPIRED", Nobody)
    /\ ck' = DeletedThread

\* wait() / _recover_run() up to the thread lock.
BeginDrive(d) ==
    /\ up /\ driver[d].st = "ready"
    /\ IF status \in Terminal
       THEN /\ driver' = [driver EXCEPT ![d] = Idle]
            /\ UNCHANGED <<runVars, ck>>
       ELSE IF expired /\ driver[d].kind = "wait"
       THEN /\ driver' = [driver EXCEPT ![d] = Idle]
            /\ IdentityFailure
       ELSE /\ driver' = [driver EXCEPT ![d].st = "locking"]
            /\ UNCHANGED <<runVars, ck>>
    /\ UNCHANGED <<research, inflight, caseVars, up, driveVars, bounds>>

\* _drive: take the thread lock, re-read the status, enter the graph at the
\* checkpointed superstep.  Only start_run and a readmission carry an input.
AcquireThread(d) ==
    /\ up /\ driver[d].st = "locking" /\ holder = Nobody
    /\ status \notin Terminal
    /\ ck.created \/ driver[d].kind \in {"start", "recover"}
    /\ holder' = d
    /\ driver' = [driver EXCEPT ![d].st = "driving"]
    /\ ck' = [ck EXCEPT !.created = TRUE]
    /\ task' = [n \in GraphNodes |->
                  IF n \in ck.writes THEN "written"
                  ELSE IF n \in Frontier(ck.applied) THEN "ready" ELSE "idle"]
    /\ credit' = (driver[d].kind = "resume")
    /\ UNCHANGED <<storeVars, caseVars, up, gateView, agentLock, guard, bounds>>

\* _drive on a terminal run: delete the thread, return.
DriveTerminal(d) ==
    /\ UNCHANGED <<storeVars, caseVars, up, bounds>>
    /\ up /\ driver[d].st = "locking" /\ holder = Nobody
    /\ status \in Terminal
    /\ ck' = NoThread
    /\ EndDrive(d)

\* LangGraph refuses to resume a thread that has no checkpoint.
ResumeWithoutThread(d) ==
    /\ up /\ driver[d].st = "locking" /\ holder = Nobody
    /\ status \notin Terminal
    /\ ~ck.created /\ driver[d].kind \in {"resume", "wait"}
    /\ RaiseFromDrive(d)
    /\ UNCHANGED <<research, inflight, caseVars, up, bounds>>

\* A retry timer fires: _schedule_continuation reads the status again.
TimerFires(d) ==
    /\ up /\ driver[d].st = "timer"
    /\ driver' = IF IF driver[d].kind = "wait" THEN status = "running" ELSE status \notin Terminal
                 THEN [driver EXCEPT ![d].st = "ready"]
                 ELSE [driver EXCEPT ![d] = Idle]
    /\ UNCHANGED <<storeVars, ck, caseVars, up, driveVars, bounds>>

-----------------------------------------------------------------------------
(* The graph: supersteps, their writes, their end.                         *)

InDrive(d) == up /\ holder = d /\ driver[d].st = "driving"

\* A task's writes (or its interrupt) reach the checkpoint database.
PersistTask(n) ==
    /\ up /\ task[n] \in {"returned", "parked"}
    /\ task' = [task EXCEPT ![n] = IF @ = "returned" THEN "written" ELSE "interrupted"]
    /\ ck' = IF task[n] = "returned"
             THEN [ck EXCEPT !.writes = @ \cup {n},
                             !.plan = IF n = "gate" THEN gateView ELSE @]
             ELSE [ck EXCEPT !.interrupts = @ \cup {n}]
    /\ UNCHANGED <<storeVars, caseVars, up, driver, holder, gateView, credit, agentLock, guard, bounds>>

StepComplete ==
    /\ \A n \in GraphNodes : task[n] \in {"idle", "written"}
    /\ \E n \in GraphNodes : task[n] = "written"

\* Every task of the superstep has written: commit the checkpoint and start
\* the next superstep, unless the caller asked to stop after the gate.
AdvanceStep(d) ==
    /\ UNCHANGED <<storeVars, caseVars, up, bounds>>
    /\ InDrive(d) /\ StepComplete
    /\ LET done == ck.applied \cup ck.writes
           thread == [ck EXCEPT !.applied = done, !.writes = {}, !.interrupts = {}]
           stop == "gate" \in ck.writes /\ driver[d].kind \in {"start", "resume"}
       IN  IF stop \/ Frontier(done) = {}
           THEN /\ ck' = IF status \in Terminal THEN NoThread ELSE thread
                /\ EndDrive(d)
           ELSE /\ ck' = thread
                /\ task' = [n \in GraphNodes |-> IF n \in Frontier(done) THEN "ready" ELSE "idle"]
                /\ UNCHANGED <<driver, holder, gateView, credit, agentLock, guard>>

\* The superstep's other tasks have finished and one is interrupted.
ParkDrive(d) ==
    /\ UNCHANGED <<storeVars, caseVars, up, bounds>>
    /\ InDrive(d)
    /\ \A n \in GraphNodes : task[n] \in {"idle", "written", "interrupted"}
    /\ \E n \in GraphNodes : task[n] = "interrupted"
    /\ ck' = IF status \in Terminal THEN NoThread ELSE ck
    /\ EndDrive(d)

\* A task raised a typed error: LangGraph cancels its siblings and _drive
\* finalizes the failure unless the node already has.
AbortDrive(d) ==
    /\ InDrive(d)
    /\ \E n \in GraphNodes : task[n] = "failed"
    /\ FinalizeFailure("AGENT_AUTHORITY_MISMATCH", Nobody)
    /\ ck' = NoThread
    /\ EndDrive(d)
    /\ UNCHANGED <<research, inflight, caseVars, up, bounds>>

-----------------------------------------------------------------------------
(* _gate_node: a synchronous node, in an executor thread.                  *)

\* Mutant: the gate compiles from the current sources every time it runs.
GateEnterAfresh ==
    /\ up /\ task["gate"] = "ready"
    /\ gateView' = curSet
    /\ task' = [task EXCEPT !["gate"] = IF curSet = {} THEN "pausing" ELSE "checking"]
    /\ UNCHANGED <<storeVars, credit, agentLock, guard, others>>

\* Read the run; a plan already pinned is re-emitted from the store.
GateEnter ==
    /\ up /\ task["gate"] = "ready"
    /\ IF plan # NoPlan
       THEN /\ gateView' = plan
            /\ task' = [task EXCEPT !["gate"] = "returned"]
       ELSE /\ gateView' = curSet
            /\ task' = [task EXCEPT !["gate"] = IF curSet = {} THEN "pausing" ELSE "checking"]
    /\ UNCHANGED <<storeVars, credit, agentLock, guard, others>>

\* The loop's body: pause the run, then interrupt(); a resume value makes
\* interrupt() return once and the loop reads the source set again.
GatePause ==
    /\ up /\ task["gate"] = "pausing" /\ status \notin Terminal
    /\ Pause("SOURCE_SET_EMPTY")
    /\ credit' = FALSE
    /\ task' = [task EXCEPT !["gate"] = IF credit THEN "rereading" ELSE "parked"]
    /\ UNCHANGED <<research, inflight, gateView, agentLock, guard, others>>

GateReread ==
    /\ up /\ task["gate"] = "rereading"
    /\ gateView' = curSet
    /\ task' = [task EXCEPT !["gate"] = IF curSet = {} THEN "pausing" ELSE "checking"]
    /\ UNCHANGED <<storeVars, credit, agentLock, guard, others>>

\* pause_run raises StoreConflict on a terminal run; _drive does not catch it.
GatePauseRefused(d) ==
    /\ InDrive(d) /\ task["gate"] = "pausing" /\ status \in Terminal
    /\ RaiseFromDrive(d)
    /\ UNCHANGED <<research, inflight, caseVars, up, bounds>>

\* The set is re-resolved against live source rows and the vault re-verified.
GateCheck ==
    /\ up /\ task["gate"] = "checking"
    /\ \/ /\ Live(gateView)
          /\ task' = [task EXCEPT !["gate"] = "pinning"]
       \/ task' = [task EXCEPT !["gate"] = "failed"]
    /\ UNCHANGED <<storeVars, gateView, credit, agentLock, guard, others>>

GatePin ==
    /\ up /\ task["gate"] = "pinning"
    /\ PinPlan(gateView)
    /\ task' = [task EXCEPT !["gate"] = "returned"]
    /\ UNCHANGED <<research, inflight, gateView, credit, agentLock, guard, others>>

-----------------------------------------------------------------------------
(* _run_module and _execute_agent: coroutines on the event loop.           *)

\* The module's own failure: finalize under its name, then raise.
FailModule(m, code) ==
    /\ FinalizeFailure(code, m)
    /\ task' = [task EXCEPT ![m] = "failed"]

\* Pinned sources are live and every upstream artifact is linked.
ModuleInputsHold(m) ==
    /\ Live(ck.plan)
    /\ \A d \in Deps[m] : node[d].artifact > 0

\* Why a module may not run: its inputs do not hold, or the approved hash is
\* not the hash of the plan that would execute.
Refusal(m) ==
    IF ~ModuleInputsHold(m) THEN "AGENT_AUTHORITY_MISMATCH"
    ELSE IF m \in Gated /\ research.phase = "approved" /\ research.approved # PlanHash(m)
    THEN "RESEARCH_PLAN_MISMATCH" ELSE "none"

ModuleRefused(m) ==
    /\ up /\ task[m] = "ready"
    /\ Refusal(m) # "none"
    /\ FailModule(m, Refusal(m))
    /\ UNCHANGED <<research, inflight, gateView, credit, agentLock, guard, others>>

\* The pinned build is not the active bundle any more, or the metered reuse
\* check crosses the ceiling of active time.
ReuseRefused(m) ==
    /\ up /\ task[m] = "ready"
    /\ \E code \in {"AGENT_AUTHORITY_MISMATCH", "AGENT_BUDGET_EXCEEDED"} : FailModule(m, code)
    /\ UNCHANGED <<research, inflight, gateView, credit, agentLock, guard, others>>

\* Mutant: `if` in place of `while`: a resume value lets the module run on.
ProposePlanOnce(m) ==
    /\ up /\ task[m] = "ready" /\ m \in Gated
    /\ ModuleInputsHold(m)
    /\ research.phase # "approved" /\ status \notin Terminal
    /\ research' = [research EXCEPT !.phase = "awaiting_approval", !.proposed = PlanHash(m)]
    /\ credit' = FALSE
    /\ IF credit
       THEN /\ NodeRunning(m)
            /\ task' = [task EXCEPT ![m] = "queued"]
       ELSE /\ Pause("PLAN_APPROVAL_REQUIRED")
            /\ task' = [task EXCEPT ![m] = "parked"]
    /\ UNCHANGED <<inflight, gateView, agentLock, guard, others>>

\* _await_research_approval while the phase is not approved.  The loop runs
\* until interrupt() raises, so a resume value changes nothing but the ticket.
ProposePlan(m) ==
    /\ up /\ task[m] = "ready" /\ m \in Gated
    /\ ModuleInputsHold(m)
    /\ research.phase # "approved"
    /\ IF status \in Terminal \/ research.proposed \notin {NoHash, PlanHash(m)}
       THEN /\ FailModule(m, "RESEARCH_PLAN_MISMATCH")
            /\ UNCHANGED <<research, credit>>
       ELSE /\ Propose
            /\ research' = [research EXCEPT !.phase = "awaiting_approval", !.proposed = PlanHash(m)]
            /\ credit' = FALSE
            /\ task' = [task EXCEPT ![m] = "parked"]
    /\ UNCHANGED <<inflight, gateView, agentLock, guard, others>>

MayExecute(m) == Refusal(m) = "none" /\ (m \in Gated => research.phase = "approved")

\* find_valid_artifact hit: relink, no provider call.
RelinkModule(m) ==
    /\ up /\ task[m] = "ready" /\ MayExecute(m)
    /\ artifacts[m] > 0
    /\ CompleteNode(m)
    /\ task' = [task EXCEPT ![m] = "returned"]
    /\ UNCHANGED <<research, inflight, gateView, credit, agentLock, guard, others>>

\* No reusable artifact: mark the node and queue for the per-run agent lock.
StartModule(m) ==
    /\ up /\ task[m] = "ready" /\ MayExecute(m)
    /\ artifacts[m] = 0
    /\ NodeRunning(m)
    /\ task' = [task EXCEPT ![m] = "queued"]
    /\ UNCHANGED <<research, inflight, gateView, credit, agentLock, guard, others>>

\* Mutant: no agent lock; only the ledger's reservation keeps modules apart.
EnterAgentUnlocked(m) ==
    /\ up /\ task[m] = "queued"
    /\ status \notin Terminal /\ ~expired /\ ~inflight
    /\ agentLock' = m
    /\ inflight' = TRUE
    /\ task' = [task EXCEPT ![m] = "calling"]
    /\ UNCHANGED <<runVars, research, gateView, credit, guard, others>>

\* The agent lock is taken and the run re-read; the first request is reserved.
EnterAgent(m) ==
    /\ up /\ task[m] = "queued" /\ agentLock = Nobody
    /\ status \notin Terminal /\ ~expired /\ ~inflight
    /\ agentLock' = m
    /\ inflight' = TRUE
    /\ task' = [task EXCEPT ![m] = "calling"]
    /\ UNCHANGED <<runVars, research, gateView, credit, guard, others>>

\* Under the lock the run is terminal, its identity has expired, or a request
\* of an earlier execution is unresolved.
EnterAgentRefused(m) ==
    /\ up /\ task[m] = "queued" /\ agentLock = Nobody
    /\ status \in Terminal \/ expired \/ inflight
    /\ FailModule(m, IF inflight THEN "AGENT_BUDGET_EXCEEDED" ELSE "AGENT_QUALIFICATION_EXPIRED")
    /\ UNCHANGED <<research, inflight, gateView, credit, agentLock, guard, others>>

\* The provider answers and the reservation is reconciled.  The loop starts
\* every task of a superstep in one pass, and a failure in that pass cancels
\* the others before a network round trip can end.
AgentAnswers(m) ==
    /\ up /\ task[m] = "calling"
    /\ \A n \in GraphNodes : task[n] \notin {"ready", "failed"}
    /\ inflight' = FALSE
    /\ task' = [task EXCEPT ![m] = "answered"]
    /\ UNCHANGED <<runVars, research, gateView, credit, agentLock, guard, others>>

\* The provider fails: a second timeout or bad usage leaves the request
\* unresolved; a reconciled answer may still fail validation.
AgentFails(m) ==
    /\ up /\ task[m] \in {"calling", "answered"}
    /\ FailModule(m, "CANONICAL_GENERATION_FAILED")
    /\ agentLock' = Nobody
    /\ UNCHANGED <<research, inflight, gateView, credit, guard, others>>

\* The answer validates and complete_node commits.  No await separates the
\* commit from the charge that follows it, so the lock's next waiter runs after
\* both; only a crash comes between.
FinishModule(m) ==
    /\ up /\ task[m] = "answered"
    /\ CompleteNode(m)
    /\ task' = [task EXCEPT ![m] = "committed"]
    /\ UNCHANGED <<research, inflight, gateView, credit, agentLock, guard, others>>

\* The completion write is a metered bracket: its charge may exceed the ceiling
\* after the node has succeeded.
ChargeCompletion(m) ==
    /\ up /\ task[m] = "committed"
    /\ agentLock' = Nobody
    /\ \/ /\ task' = [task EXCEPT ![m] = "returned"]
          /\ UNCHANGED runVars
       \/ FailModule(m, "AGENT_BUDGET_EXCEEDED")
    /\ UNCHANGED <<research, inflight, gateView, credit, guard, others>>

-----------------------------------------------------------------------------
(* _finalize_node: a synchronous node under the authority mutation lock.   *)

FinalGateHolds ==
    /\ ck.plan = plan /\ Live(plan)
    /\ \A m \in Modules : node[m].status = "succeeded" /\ node[m].artifact = artifacts[m]

FinalizeVerify ==
    /\ up /\ task["finalize"] = "ready" /\ ~guard
    /\ guard' = TRUE
    /\ \/ /\ FinalGateHolds
          /\ task' = [task EXCEPT !["finalize"] = "verified"]
       \/ task' = [task EXCEPT !["finalize"] = "refused"]
    /\ UNCHANGED <<storeVars, gateView, credit, agentLock, others>>

FinalizeCommit ==
    /\ up /\ task["finalize"] = "verified"
    /\ FinalizeSuccess
    /\ guard' = FALSE
    /\ task' = [task EXCEPT !["finalize"] = "returned"]
    /\ UNCHANGED <<research, inflight, gateView, credit, agentLock, others>>

FinalizeRefuse ==
    /\ up /\ task["finalize"] = "refused"
    /\ \E m \in Modules \cup {Nobody} : FinalizeFailure("RUN_NOT_READY", m)
    /\ guard' = FALSE
    /\ task' = [task EXCEPT !["finalize"] = "failed"]
    /\ UNCHANGED <<research, inflight, gateView, credit, agentLock, others>>

-----------------------------------------------------------------------------
(* The API: resume, approve, ingest, withdraw.                             *)

\* resume() finalizes a run whose identity is no longer current, whoever is
\* driving it; it is refused while the thread is held; otherwise it consumes the ticket and
\* drives.
ResumeExpired ==
    /\ up /\ driver[Api].st = "idle" /\ expired
    /\ IdentityFailure
    /\ UNCHANGED <<research, inflight, caseVars, up, driver, driveVars, bounds>>

\* Mutant: a resume needs an unconsumed ticket.
ResumeNeedsTicket ==
    /\ up /\ driver[Api].st = "idle" /\ ~expired
    /\ holder = Nobody /\ tickets > 0
    /\ FreeConts # {}
    /\ ConsumeTicket
    /\ driver' = [driver EXCEPT ![Api] = [st |-> "locking", kind |-> "resume", attempt |-> 0]]
    /\ UNCHANGED <<research, inflight, ck, caseVars, up, driveVars, bounds>>

Resume ==
    /\ up /\ driver[Api].st = "idle" /\ ~expired
    /\ holder = Nobody
    /\ FreeConts # {}
    /\ ConsumeTicket
    /\ driver' = [driver EXCEPT ![Api] = [st |-> "locking", kind |-> "resume", attempt |-> 0]]
    /\ UNCHANGED <<research, inflight, ck, caseVars, up, driveVars, bounds>>

\* approve_research_plan with the exact proposed hash.
Approve ==
    /\ up /\ ~expired /\ Live(plan)
    /\ \E c \in FreeConts : driver[Api].st = "idle" \/ FreeConts # {c}
    /\ research.phase = "awaiting_approval"
    /\ status = "paused" /\ error = "PLAN_APPROVAL_REQUIRED"
    /\ research' = [research EXCEPT !.phase = "approved", !.approved = research.proposed]
    /\ Approved
    /\ WithContinuation(driver)
    /\ UNCHANGED <<inflight, ck, caseVars, up, driveVars, bounds>>

\* ingest and withdraw run under the authority mutation lock.
Ingest(s) ==
    /\ up /\ ~guard
    /\ s \notin curSet \cup withdrawn
    /\ curSet' = curSet \cup {s}
    /\ UNCHANGED <<storeVars, ck, withdrawn, expired, procVars, bounds>>

\* Mutant: withdraw does not take the authority mutation lock.
WithdrawUnlocked(s) ==
    /\ up
    /\ s \in curSet
    /\ curSet' = curSet \ {s}
    /\ withdrawn' = withdrawn \cup {s}
    /\ UNCHANGED <<storeVars, ck, expired, procVars, bounds>>

Withdraw(s) ==
    /\ up /\ ~guard
    /\ s \in curSet
    /\ curSet' = curSet \ {s}
    /\ withdrawn' = withdrawn \cup {s}
    /\ UNCHANGED <<storeVars, ck, expired, procVars, bounds>>

-----------------------------------------------------------------------------
(* Faults: infrastructure exceptions, process death, time.                 *)

Site(d) == IF d = Api THEN "inline" ELSE "drive"

\* A locked database, a dropped connection, a vault OSError, under the lock
\* or on the way to it.
DriveFault(d) ==
    /\ up /\ faults < MaxFaults /\ Site(d) \in FaultSites
    /\ InDrive(d)
    /\ faults' = faults + 1
    /\ RaiseFromDrive(d)
    /\ UNCHANGED <<research, inflight, caseVars, up, crashes>>

PreLockFault(d) ==
    /\ up /\ faults < MaxFaults /\ Site(d) \in FaultSites
    /\ driver[d].st \in {"ready", "locking"}
    /\ faults' = faults + 1
    /\ AfterRaise(d)
    /\ UNCHANGED <<research, inflight, ck, caseVars, up, driveVars, crashes>>

\* The timer's own read of the status raises: nothing schedules it again.
TimerFault(d) ==
    /\ up /\ faults < MaxFaults /\ "timer" \in FaultSites
    /\ driver[d].st = "timer"
    /\ faults' = faults + 1
    /\ driver' = [driver EXCEPT ![d] = Idle]
    /\ UNCHANGED <<storeVars, ck, caseVars, up, driveVars, crashes>>

Crash ==
    /\ up /\ crashes < MaxCrashes
    /\ crashes' = crashes + 1
    /\ up' = FALSE
    /\ driver' = [d \in Drivers |-> Idle]
    /\ holder' = Nobody
    /\ task' = [n \in GraphNodes |-> "idle"]
    /\ gateView' = NoPlan
    /\ credit' = FALSE
    /\ agentLock' = Nobody
    /\ guard' = FALSE
    /\ ck' = IF ck.created THEN ck ELSE NoThread
    /\ UNCHANGED <<storeVars, caseVars, faults>>

\* Mutant: recovery skips every run parked at an interrupt, whatever its status.
RestartSkipsParked ==
    /\ ~up
    /\ up' = TRUE
    /\ IF status \in Terminal
       THEN /\ ck' = NoThread
            /\ UNCHANGED <<runVars, driver>>
       ELSE IF expired
       THEN /\ IdentityFailure
            /\ UNCHANGED driver
       ELSE IF ck.interrupts # {}
       THEN UNCHANGED <<runVars, ck, driver>>
       ELSE /\ \E c \in Conts :
                 driver' = [driver EXCEPT ![c] = [st |-> "ready", kind |-> "recover", attempt |-> 0]]
            /\ UNCHANGED <<runVars, ck>>
    /\ UNCHANGED <<research, inflight, caseVars, driveVars, bounds>>

\* recover(): reap a terminal thread, fail an expired identity, skip a run
\* parked at an interrupt unless the gate was cleared out of band, schedule
\* every other run.
Restart ==
    /\ ~up
    /\ up' = TRUE
    /\ IF status \in Terminal
       THEN /\ ck' = NoThread
            /\ UNCHANGED <<runVars, driver>>
       ELSE IF expired
       THEN /\ IdentityFailure
            /\ UNCHANGED driver
       ELSE IF ck.interrupts # {} /\ status # "running"
       THEN UNCHANGED <<runVars, ck, driver>>
       ELSE /\ \E c \in Conts :
                 driver' = [driver EXCEPT ![c] = [st |-> "ready", kind |-> "recover", attempt |-> 0]]
            /\ UNCHANGED <<runVars, ck>>
    /\ UNCHANGED <<research, inflight, caseVars, driveVars, bounds>>

Expire ==
    /\ MayExpire /\ ~expired
    /\ expired' = TRUE
    /\ UNCHANGED <<storeVars, ck, curSet, withdrawn, procVars, bounds>>

-----------------------------------------------------------------------------
(* create_run has just committed and start_run is about to drive.          *)
Init ==
    /\ status = "queued" /\ error = "none" /\ plan = NoPlan
    /\ node = [m \in Modules |-> [status |-> "absent", artifact |-> 0]]
    /\ artifacts = [m \in Modules |-> 0]
    /\ runLog = [e \in {"run.created", "run.running", "run.paused", "run.succeeded", "run.failed",
                        "research.plan_ready", "research.plan_approved"} |->
                    IF e = "run.created" THEN 1 ELSE 0]
    /\ nodeLog = [m \in Modules |-> [running |-> 0, succeeded |-> 0]]
    /\ tickets = 0
    /\ research = [phase |-> "brief_locked", proposed |-> NoHash, approved |-> NoHash]
    /\ inflight = FALSE
    /\ ck = NoThread
    /\ curSet \in SUBSET Sources /\ withdrawn = {} /\ expired = FALSE
    /\ up = TRUE
    /\ driver = [d \in Drivers |->
                    IF d = Api THEN [st |-> "locking", kind |-> "start", attempt |-> 0] ELSE Idle]
    /\ holder = Nobody
    /\ task = [n \in GraphNodes |-> "idle"]
    /\ gateView = NoPlan /\ credit = FALSE /\ agentLock = Nobody /\ guard = FALSE
    /\ faults = 0 /\ crashes = 0

GateStep == GateEnter \/ GatePause \/ GateReread \/ GateCheck \/ GatePin
ModuleStep(m) ==
    \/ ModuleRefused(m) \/ ReuseRefused(m) \/ ProposePlan(m) \/ RelinkModule(m)
    \/ StartModule(m) \/ EnterAgent(m) \/ EnterAgentRefused(m)
    \/ AgentAnswers(m) \/ AgentFails(m) \/ FinishModule(m) \/ ChargeCompletion(m)
FinalizeStep == FinalizeVerify \/ FinalizeCommit \/ FinalizeRefuse
DriverStep(d) ==
    \/ BeginDrive(d) \/ AcquireThread(d) \/ DriveTerminal(d) \/ ResumeWithoutThread(d)
    \/ TimerFires(d) \/ AdvanceStep(d) \/ ParkDrive(d) \/ AbortDrive(d) \/ GatePauseRefused(d)
Client ==
    \/ ResumeExpired \/ Resume \/ Approve
    \/ \E s \in Sources : Ingest(s) \/ Withdraw(s)
Fault ==
    \/ \E d \in Drivers : DriveFault(d) \/ PreLockFault(d) \/ TimerFault(d)
    \/ Crash \/ Expire

Next ==
    \/ GateStep \/ FinalizeStep
    \/ \E m \in Modules : ModuleStep(m)
    \/ \E n \in GraphNodes : PersistTask(n)
    \/ \E d \in Drivers : DriverStep(d)
    \/ Client \/ Fault \/ Restart

Spec == Init /\ [][Next]_vars

\* The event loop, the executor and the timers run; a provider call ends by
\* its timeout; a stopped process is started again.  Clients, faults and the
\* clock owe nothing.
Fairness ==
    /\ WF_vars(GateStep) /\ WF_vars(FinalizeStep) /\ WF_vars(Restart)
    /\ \A m \in Modules : WF_vars(ModuleStep(m))
    /\ \A n \in GraphNodes : WF_vars(PersistTask(n))
    /\ \A d \in Drivers : WF_vars(DriverStep(d))

FairSpec == Spec /\ Fairness

-----------------------------------------------------------------------------
(* Type invariant.                                                         *)

RunStatus == {"queued", "running", "paused"} \cup Terminal
NodeStatus == {"absent", "pending", "running", "succeeded", "failed", "cancelled"}
RunErrors == {"none", "SOURCE_SET_EMPTY", "PLAN_APPROVAL_REQUIRED", "AGENT_AUTHORITY_MISMATCH",
              "AGENT_QUALIFICATION_EXPIRED", "AGENT_BUDGET_EXCEEDED", "RESEARCH_PLAN_MISMATCH",
              "CANONICAL_GENERATION_FAILED", "RUN_NOT_READY", "RUN_EXECUTION_FAILED"}
RunEvents == {"run.created", "run.running", "run.paused", "run.succeeded", "run.failed",
              "research.plan_ready", "research.plan_approved"}
TaskState == {"idle", "ready", "pausing", "rereading", "checking", "pinning", "queued", "calling",
              "answered", "committed", "verified", "refused", "returned", "written", "parked",
              "interrupted", "failed"}
DriverState == [st : {"idle", "ready", "locking", "driving", "timer"},
                kind : {"start", "resume", "wait", "recover"}, attempt : Nat]

\* The hashes research_plan_hash may return.
PlanHashes == [plan : SUBSET Sources, upstream : [Modules -> Nat]]

RunTypeOK ==
    /\ status \in RunStatus /\ error \in RunErrors
    /\ plan \in SUBSET Sources
    /\ node \in [Modules -> [status : NodeStatus, artifact : Nat]]
    /\ artifacts \in [Modules -> Nat]
    /\ runLog \in [RunEvents -> Nat]
    /\ nodeLog \in [Modules -> [running : Nat, succeeded : Nat]]
    /\ tickets \in Nat
ResearchTypeOK ==
    research \in [phase : {"brief_locked", "awaiting_approval", "approved"},
                  proposed : PlanHashes, approved : PlanHashes]
ThreadTypeOK ==
    ck \in [created : BOOLEAN, applied : SUBSET GraphNodes, writes : SUBSET GraphNodes,
            interrupts : SUBSET GraphNodes, plan : SUBSET Sources]
CaseTypeOK ==
    /\ curSet \in SUBSET Sources /\ withdrawn \in SUBSET Sources /\ expired \in BOOLEAN
DriverTypeOK ==
    /\ up \in BOOLEAN
    /\ driver \in [Drivers -> DriverState]
DriveTypeOK ==
    /\ holder \in Drivers \cup {Nobody}
    /\ task \in [GraphNodes -> TaskState]
    /\ gateView \in SUBSET Sources /\ credit \in BOOLEAN
    /\ agentLock \in Modules \cup {Nobody} /\ guard \in BOOLEAN

\* Every variable ranges over what the code can store in it; in particular the
\* number of unconsumed resume tickets is a count (consume_ticket reports a row
\* it did not find instead of consuming it).
TypeOK ==
    /\ RunTypeOK
    /\ ResearchTypeOK
    /\ inflight \in BOOLEAN
    /\ ThreadTypeOK
    /\ CaseTypeOK
    /\ DriverTypeOK
    /\ DriveTypeOK
    /\ faults \in Nat /\ crashes \in Nat

-----------------------------------------------------------------------------
(* Safety.                                                                 *)

\* The log holds one terminal event once the run is terminal and none before,
\* whoever finalizes it (runs.py: "terminal events are exactly-once").
OneTerminalEvent ==
    runLog["run.succeeded"] + runLog["run.failed"] = IF status \in Terminal THEN 1 ELSE 0

\* No retry, recovery, resume or approval moves a run out of its terminal
\* status or rewrites its error.
TerminalIsFinal == [][(status \in Terminal) => UNCHANGED <<status, error, plan>>]_vars

\* The plan the graph executes from its checkpoint is the plan the store
\* pinned, whatever happened between the two commits (gate re-execution after
\* a crash, sources ingested meanwhile).  A run failed under a driving gate is
\* the exception: its gate may checkpoint a plan that pin_plan refused.
PlanAgreement == status # "failed" => ck.plan \in {NoPlan, plan}

\* When run.succeeded commits, every pinned source is live at that instant,
\* every module is linked to its artifact and every gated module executed the
\* approved plan: finalize and withdraw are linearized.
SuccessIsEarned ==
    [][status' = "succeeded" /\ status # "succeeded" =>
        /\ Live(plan)
        /\ \A m \in Modules : node[m] = [status |-> "succeeded", artifact |-> artifacts[m]]
        /\ \A m \in Gated : research.approved = PlanHash(m)]_vars

\* A module commits one artifact and one pair of node events however often its
\* node is re-executed (crash between store commit and checkpoint, retries).
OneArtifactPerModule ==
    \A m \in Modules :
        /\ artifacts[m] \in {0, 1}
        /\ artifacts[m] = nodeLog[m].succeeded
        /\ nodeLog[m].succeeded <= nodeLog[m].running
        /\ nodeLog[m].running <= 1

\* A plan_approval module never starts before the exact plan it would execute
\* (pinned plan and upstream artifacts) was approved, on any path: resume
\* values, re-executions, restarts.
ApprovalBindsExecution ==
    \A m \in Gated :
        node[m].status \in {"running", "succeeded"} =>
            research.phase = "approved" /\ research.approved = PlanHash(m)

\* A terminal run shows no node as live work (SIM-003).
NoLiveWorkOnTerminal ==
    status \in Terminal => \A m \in Modules : node[m].status # "running"

\* The one thing that may still land behind the end is the completion of the
\* module that holds the agent lock, whose provider call was out when the run
\* was finalized: no module starts, and no run event follows.
OnlyOpenCallLands ==
    [][(status \in Terminal) =>
        /\ UNCHANGED runLog
        /\ \A m \in Modules \ {agentLock} : UNCHANGED nodeLog[m]
        /\ \A m \in Modules : UNCHANGED (nodeLog[m].running)]_vars

\* A run that holds an admission slot is driven by somebody, or by a retry
\* timer, while the process is up: no queued or running orphan.
SlotHasDriver ==
    up /\ status \in {"queued", "running"} => \E d \in Drivers : driver[d].st # "idle"

\* A parked run has at most one resume ticket however often it parks.
AtMostOneTicket == tickets <= 1

\* One provider request is in flight at most, and only in the module that
\* holds the agent lock; no module calls the provider for a run it has seen
\* terminal with another request unresolved.
OneCallAtATime ==
    \A m, n \in Modules :
        task[m] = "calling" => inflight /\ (task[n] \in {"calling", "answered"} => m = n)

\* The row of a run and its log agree whoever writes them: what is stored is of
\* its kind, one end is recorded at most, nothing runs behind it, and one ticket
\* at most waits for a resume.
RunRowsSound == TypeOK /\ OneTerminalEvent /\ NoLiveWorkOnTerminal /\ AtMostOneTicket

\* Parallel modules of a run neither commit twice nor share the one request
\* that the ledger can have in flight.
ModulesRunOnce == OneArtifactPerModule /\ OneCallAtATime

-----------------------------------------------------------------------------
(* Liveness.                                                               *)

\* A queued or running run comes to rest: it ends, or parks for a human.
RunSettles == status \in {"queued", "running"} ~> status \in Terminal \cup {"paused"}

\* A run parked for want of sources does not stay parked once the case has
\* sources and somebody keeps resuming it, even when an earlier resume was
\* lost after it consumed the ticket.
EmptyGateClears ==
    WF_vars(Resume \/ ResumeExpired) => []<>~(status = "paused" /\ error = "SOURCE_SET_EMPTY" /\ curSet # {})

-----------------------------------------------------------------------------
(* The run implements its contract.                                        *)
Contract == INSTANCE RunContract WITH
    delivered <- {m \in Modules : artifacts[m] > 0},
    endings <- runLog["run.succeeded"] + runLog["run.failed"]

RunKeepsContract == Contract!Spec
=============================================================================
