--------------------------- MODULE RunLifecycleProofs ---------------------------
(***************************************************************************)
(* What TLAPS proves about RunLifecycle.                                   *)
(*                                                                         *)
(* TypeOK is inductive by itself; it has one lemma per operation of the    *)
(* store and one per group of actions.  The two results about the end of   *)
(* a run rest on RunStep, the list of everything a step may do to the run  *)
(* tables: a case per store operation then replaces a case per action.     *)
(***************************************************************************)
EXTENDS RunLifecycle, TLAPS

-----------------------------------------------------------------------------
(* The store's operations and the driver's helpers keep their types.       *)

\* finalize_failure keeps the run tables well typed, whichever node it blames.
LEMMA FinalizeFailureTyping ==
    ASSUME NEW code \in RunErrors, NEW blamed, RunTypeOK, FinalizeFailure(code, blamed)
    PROVE  RunTypeOK'
BY DEF RunTypeOK, FinalizeFailure, runVars, RunStatus, Terminal, RunErrors, NodeStatus, RunEvents

\* pause_run keeps the run tables well typed.
LEMMA PauseTyping ==
    ASSUME NEW code \in RunErrors, RunTypeOK, Pause(code)
    PROVE  RunTypeOK'
BY DEF RunTypeOK, Pause, RunStatus, Terminal, RunErrors, RunEvents

\* propose_research_plan keeps the run tables well typed.
LEMMA ProposeTyping ==
    ASSUME RunTypeOK, Propose
    PROVE  RunTypeOK'
BY DEF RunTypeOK, Propose, RunStatus, Terminal, RunErrors, RunEvents

\* approve_research_plan keeps the run tables well typed.
LEMMA ApprovedTyping ==
    ASSUME RunTypeOK, Approved
    PROVE  RunTypeOK'
BY DEF RunTypeOK, Approved, RunStatus, Terminal, RunErrors, RunEvents

\* pin_plan keeps the run tables well typed, on its writing and its no-op branches.
LEMMA PinPlanTyping ==
    ASSUME NEW set \in SUBSET Sources, RunTypeOK, PinPlan(set)
    PROVE  RunTypeOK'
<1>1. CASE plan = NoPlan /\ status \notin Terminal
  <2>0. /\ status' = "running" /\ error' = "none" /\ plan' = set
        /\ node' = [m \in Modules |-> [status |-> "pending", artifact |-> 0]]
        /\ runLog' = [runLog EXCEPT !["run.running"] = @ + 1]
        /\ UNCHANGED <<artifacts, nodeLog, tickets>>
    BY <1>1 DEF PinPlan
  <2>1. node' \in [Modules -> [status : NodeStatus, artifact : Nat]]
    BY <2>0 DEF NodeStatus
  <2>2. runLog' \in [RunEvents -> Nat]
    BY <2>0 DEF RunTypeOK, RunEvents
  <2> QED BY <2>0, <2>1, <2>2 DEF RunTypeOK, RunStatus, RunErrors
<1>2. CASE plan # NoPlan /\ status = "paused"
  BY <1>2 DEF PinPlan, RunTypeOK, RunStatus, RunErrors
<1>3. CASE ~(plan = NoPlan /\ status \notin Terminal) /\ ~(plan # NoPlan /\ status = "paused")
  BY <1>3 DEF PinPlan, RunTypeOK, runVars
<1> QED BY <1>1, <1>2, <1>3

\* node_running keeps the run tables well typed.
LEMMA NodeRunningTyping ==
    ASSUME NEW m \in Modules, RunTypeOK, NodeRunning(m)
    PROVE  RunTypeOK'
<1>1. CASE status \notin Terminal /\ node[m].status = "pending"
  <2>1. node' \in [Modules -> [status : NodeStatus, artifact : Nat]]
    BY <1>1 DEF NodeRunning, RunTypeOK, NodeStatus
  <2>2. nodeLog' \in [Modules -> [running : Nat, succeeded : Nat]]
    BY <1>1 DEF NodeRunning, RunTypeOK
  <2>3. UNCHANGED <<status, error, plan, artifacts, runLog, tickets>>
    BY <1>1 DEF NodeRunning
  <2> QED BY <2>1, <2>2, <2>3 DEF RunTypeOK
<1>2. CASE ~(status \notin Terminal /\ node[m].status = "pending")
  BY <1>2 DEF NodeRunning, RunTypeOK, runVars
<1> QED BY <1>1, <1>2

\* complete_node keeps the run tables well typed: an artifact id is a number.
LEMMA CompleteNodeTyping ==
    ASSUME NEW m \in Modules, RunTypeOK, CompleteNode(m)
    PROVE  RunTypeOK'
BY DEF RunTypeOK, CompleteNode, NodeStatus

\* finalize_success keeps the run tables well typed.
LEMMA FinalizeSuccessTyping ==
    ASSUME RunTypeOK, FinalizeSuccess
    PROVE  RunTypeOK'
BY DEF RunTypeOK, FinalizeSuccess, runVars, RunStatus, Terminal, RunErrors, RunEvents

\* consume_ticket never takes the count of unconsumed tickets below zero.
LEMMA ConsumeTicketTyping ==
    ASSUME RunTypeOK, ConsumeTicket
    PROVE  RunTypeOK'
BY DEF RunTypeOK, ConsumeTicket

\* A driver at rest is in a driver state.
LEMMA IdleIsDriverState == Idle \in DriverState
BY DEF Idle, DriverState

\* Scheduling a continuation leaves every driver in a driver state.
LEMMA WithContinuationTyping ==
    ASSUME NEW drivers \in [Drivers -> DriverState], WithContinuation(drivers)
    PROVE  driver' \in [Drivers -> DriverState]
<1>1. CASE status' = "running"
  <2>1. PICK c \in Conts :
            driver' = [drivers EXCEPT ![c] = [st |-> "ready", kind |-> "wait", attempt |-> 0]]
    BY <1>1 DEF WithContinuation
  <2> QED BY <2>1 DEF Drivers, DriverState
<1>2. CASE status' # "running"
  BY <1>2 DEF WithContinuation
<1> QED BY <1>1, <1>2

\* A drive that ends without raising leaves the drivers and the drive well typed.
LEMMA EndDriveTyping ==
    ASSUME NEW d \in Drivers, DriverTypeOK, status' \in RunStatus, UNCHANGED up, EndDrive(d)
    PROVE  DriverTypeOK' /\ DriveTypeOK'
<1>1. DriveTypeOK'
  BY DEF EndDrive, DriveTypeOK, TaskState, NoPlan
<1>2. driver' \in [Drivers -> DriverState]
  <2>1. [driver EXCEPT ![d] = Idle] \in [Drivers -> DriverState]
    BY IdleIsDriverState DEF DriverTypeOK
  <2> QED BY <2>1, WithContinuationTyping DEF EndDrive
<1> QED BY <1>1, <1>2 DEF DriverTypeOK

\* What follows a raise (an error answer, a retry timer, a failure once the retries
\* are spent) keeps the run tables and the drivers well typed.
LEMMA AfterRaiseTyping ==
    ASSUME NEW d \in Drivers, RunTypeOK, DriverTypeOK, UNCHANGED up, AfterRaise(d)
    PROVE  RunTypeOK' /\ DriverTypeOK'
<1>1. CASE d = Api
  <2>1. RunTypeOK'
    BY <1>1 DEF AfterRaise, RunTypeOK, runVars
  <2>2. DriverTypeOK'
    BY <1>1, IdleIsDriverState DEF AfterRaise, DriverTypeOK
  <2> QED BY <2>1, <2>2
<1>2. CASE d # Api /\ driver[d].attempt < MaxRetries
  <2>1. RunTypeOK'
    BY <1>2 DEF AfterRaise, RunTypeOK, runVars
  <2>2. driver' = [driver EXCEPT ![d].st = "timer", ![d].attempt = @ + 1]
    BY <1>2 DEF AfterRaise
  <2>3. driver' \in [Drivers -> DriverState]
    BY <2>2 DEF DriverTypeOK, DriverState
  <2> QED BY <2>1, <2>2, <2>3 DEF DriverTypeOK
<1>3. CASE d # Api /\ ~(driver[d].attempt < MaxRetries)
  <2>1. RunTypeOK'
    <3>1. FinalizeFailure("RUN_EXECUTION_FAILED", Nobody)
      BY <1>3 DEF AfterRaise
    <3> QED BY <3>1, FinalizeFailureTyping DEF RunErrors
  <2>2. DriverTypeOK'
    BY <1>3, IdleIsDriverState DEF AfterRaise, DriverTypeOK
  <2> QED BY <2>1, <2>2
<1> QED BY <1>1, <1>2, <1>3

\* A raise from inside a drive keeps every part of the state it touches well typed.
LEMMA RaiseFromDriveTyping ==
    ASSUME NEW d \in Drivers, RunTypeOK, ThreadTypeOK, DriverTypeOK, UNCHANGED up, RaiseFromDrive(d)
    PROVE  RunTypeOK' /\ ThreadTypeOK' /\ DriverTypeOK' /\ DriveTypeOK'
<1>1. RunTypeOK' /\ DriverTypeOK'
  BY AfterRaiseTyping DEF RaiseFromDrive
<1>2. ThreadTypeOK'
  BY DEF RaiseFromDrive, ThreadTypeOK, NoThread, NoPlan
<1>3. DriveTypeOK'
  BY DEF RaiseFromDrive, DriveTypeOK, TaskState, NoPlan
<1> QED BY <1>1, <1>2, <1>3

\* Failing a run whose qualification expired keeps the run tables and the thread
\* well typed.
LEMMA IdentityFailureTyping ==
    ASSUME RunTypeOK, ThreadTypeOK, IdentityFailure
    PROVE  RunTypeOK' /\ ThreadTypeOK'
<1>1. RunTypeOK'
  BY FinalizeFailureTyping DEF IdentityFailure, RunErrors
<1>2. ThreadTypeOK'
  BY DEF IdentityFailure, DeletedThread, ThreadTypeOK, NoThread, NoPlan
<1> QED BY <1>1, <1>2

-----------------------------------------------------------------------------
\* The parts of TypeOK, and what keeps them.

\* TypeOK of the next state, from its parts.
LEMMA TypeParts ==
    ASSUME RunTypeOK', ResearchTypeOK', inflight' \in BOOLEAN, ThreadTypeOK', CaseTypeOK',
           DriverTypeOK', DriveTypeOK', faults' \in Nat, crashes' \in Nat
    PROVE  TypeOK'
BY DEF TypeOK

\* A step inside a task keeps the parts it leaves alone well typed.
LEMMA OthersTyping ==
    ASSUME TypeOK, UNCHANGED others
    PROVE  /\ ThreadTypeOK' /\ CaseTypeOK' /\ DriverTypeOK'
           /\ holder' \in Drivers \cup {Nobody} /\ faults' \in Nat /\ crashes' \in Nat
BY DEF TypeOK, others, caseVars, bounds, ThreadTypeOK, CaseTypeOK, DriverTypeOK, DriveTypeOK

\* The gate, finalize and every module are nodes of the graph.
LEMMA NodesAreTasks == "gate" \in GraphNodes /\ "finalize" \in GraphNodes /\ Modules \subseteq GraphNodes
BY DEF GraphNodes

\* Every step of the gate task keeps TypeOK.
LEMMA GateTyping ==
    ASSUME TypeOK, GateStep
    PROVE  TypeOK'
<1> USE NodesAreTasks
<1>1. CASE GateEnter
  <2>1. /\ task' \in [GraphNodes -> TaskState] /\ gateView' \in SUBSET Sources
    BY <1>1 DEF GateEnter, TypeOK, RunTypeOK, CaseTypeOK, DriveTypeOK, TaskState
  <2>2. UNCHANGED <<storeVars, credit, agentLock, guard, others>>
    BY <1>1 DEF GateEnter
  <2> QED BY <2>1, <2>2, OthersTyping, TypeParts
          DEF TypeOK, storeVars, runVars, RunTypeOK, ResearchTypeOK, DriveTypeOK
<1>2. CASE GatePause
  <2>1. RunTypeOK'
    BY <1>2, PauseTyping DEF GatePause, TypeOK, RunErrors
  <2>2. task' \in [GraphNodes -> TaskState] /\ credit' \in BOOLEAN
    BY <1>2 DEF GatePause, TypeOK, DriveTypeOK, TaskState
  <2>3. UNCHANGED <<research, inflight, gateView, agentLock, guard, others>>
    BY <1>2 DEF GatePause
  <2> QED BY <2>1, <2>2, <2>3, OthersTyping, TypeParts DEF TypeOK, ResearchTypeOK, DriveTypeOK
<1>3. CASE GateReread
  <2>1. /\ task' \in [GraphNodes -> TaskState] /\ gateView' \in SUBSET Sources
    BY <1>3 DEF GateReread, TypeOK, CaseTypeOK, DriveTypeOK, TaskState
  <2>2. UNCHANGED <<storeVars, credit, agentLock, guard, others>>
    BY <1>3 DEF GateReread
  <2> QED BY <2>1, <2>2, OthersTyping, TypeParts
          DEF TypeOK, storeVars, runVars, RunTypeOK, ResearchTypeOK, DriveTypeOK
<1>4. CASE GateCheck
  <2>1. task' \in [GraphNodes -> TaskState]
    BY <1>4 DEF GateCheck, TypeOK, DriveTypeOK, TaskState
  <2>2. UNCHANGED <<storeVars, gateView, credit, agentLock, guard, others>>
    BY <1>4 DEF GateCheck
  <2> QED BY <2>1, <2>2, OthersTyping, TypeParts
          DEF TypeOK, storeVars, runVars, RunTypeOK, ResearchTypeOK, DriveTypeOK
<1>5. CASE GatePin
  <2>1. RunTypeOK'
    BY <1>5, PinPlanTyping DEF GatePin, TypeOK, DriveTypeOK
  <2>2. task' \in [GraphNodes -> TaskState]
    BY <1>5 DEF GatePin, TypeOK, DriveTypeOK, TaskState
  <2>3. UNCHANGED <<research, inflight, gateView, credit, agentLock, guard, others>>
    BY <1>5 DEF GatePin
  <2> QED BY <2>1, <2>2, <2>3, OthersTyping, TypeParts DEF TypeOK, ResearchTypeOK, DriveTypeOK
<1> QED BY <1>1, <1>2, <1>3, <1>4, <1>5 DEF GateStep

\* Every step of the finalize task keeps TypeOK.
LEMMA FinalizeTyping ==
    ASSUME TypeOK, FinalizeStep
    PROVE  TypeOK'
<1> USE NodesAreTasks
<1>1. CASE FinalizeVerify
  <2>1. task' \in [GraphNodes -> TaskState] /\ guard' \in BOOLEAN
    BY <1>1 DEF FinalizeVerify, TypeOK, DriveTypeOK, TaskState
  <2>2. UNCHANGED <<storeVars, gateView, credit, agentLock, others>>
    BY <1>1 DEF FinalizeVerify
  <2> QED BY <2>1, <2>2, OthersTyping, TypeParts
          DEF TypeOK, storeVars, runVars, RunTypeOK, ResearchTypeOK, DriveTypeOK
<1>2. CASE FinalizeCommit
  <2>1. RunTypeOK'
    BY <1>2, FinalizeSuccessTyping DEF FinalizeCommit, TypeOK
  <2>2. task' \in [GraphNodes -> TaskState] /\ guard' \in BOOLEAN
    BY <1>2 DEF FinalizeCommit, TypeOK, DriveTypeOK, TaskState
  <2>3. UNCHANGED <<research, inflight, gateView, credit, agentLock, others>>
    BY <1>2 DEF FinalizeCommit
  <2> QED BY <2>1, <2>2, <2>3, OthersTyping, TypeParts DEF TypeOK, ResearchTypeOK, DriveTypeOK
<1>3. CASE FinalizeRefuse
  <2>1. RunTypeOK'
    <3>1. PICK m \in Modules \cup {Nobody} : FinalizeFailure("RUN_NOT_READY", m)
      BY <1>3 DEF FinalizeRefuse
    <3> QED BY <3>1, FinalizeFailureTyping DEF TypeOK, RunErrors
  <2>2. task' \in [GraphNodes -> TaskState] /\ guard' \in BOOLEAN
    BY <1>3 DEF FinalizeRefuse, TypeOK, DriveTypeOK, TaskState
  <2>3. UNCHANGED <<research, inflight, gateView, credit, agentLock, others>>
    BY <1>3 DEF FinalizeRefuse
  <2> QED BY <2>1, <2>2, <2>3, OthersTyping, TypeParts DEF TypeOK, ResearchTypeOK, DriveTypeOK
<1> QED BY <1>1, <1>2, <1>3 DEF FinalizeStep

\* research_plan_hash returns a plan hash.
LEMMA PlanHashTyping ==
    ASSUME RunTypeOK, NEW m \in Modules
    PROVE  PlanHash(m) \in PlanHashes
BY DEF RunTypeOK, PlanHash, PlanHashes

\* The hash of a research row that has no proposal yet is a plan hash.
LEMMA NoHashTyping == NoHash \in PlanHashes
BY DEF NoHash, NoPlan, PlanHashes

\* Every step of a module task keeps TypeOK.
LEMMA ModuleTyping ==
    ASSUME TypeOK, NEW m \in Modules, ModuleStep(m)
    PROVE  TypeOK'
<1> USE NodesAreTasks
<1>1. CASE ModuleRefused(m)
  <2>1. RunTypeOK'
    BY <1>1, FinalizeFailureTyping DEF ModuleRefused, Refusal, FailModule, TypeOK, RunErrors
  <2>2. task' \in [GraphNodes -> TaskState]
    BY <1>1 DEF ModuleRefused, FailModule, TypeOK, DriveTypeOK, TaskState
  <2>3. UNCHANGED <<research, inflight, gateView, credit, agentLock, guard, others>>
    BY <1>1 DEF ModuleRefused
  <2> QED BY <2>1, <2>2, <2>3, OthersTyping, TypeParts DEF TypeOK, ResearchTypeOK, DriveTypeOK
<1>2. CASE ProposePlan(m)
  <2>1. RunTypeOK' /\ ResearchTypeOK'
    <3>1. CASE status \in Terminal \/ research.proposed \notin {NoHash, PlanHash(m)}
      <4>1. FailModule(m, "RESEARCH_PLAN_MISMATCH") /\ UNCHANGED research
        BY <1>2, <3>1 DEF ProposePlan
      <4> QED BY <4>1, FinalizeFailureTyping DEF FailModule, TypeOK, ResearchTypeOK, RunErrors
    <3>2. CASE ~(status \in Terminal \/ research.proposed \notin {NoHash, PlanHash(m)})
      <4>1. /\ Propose
            /\ research' = [research EXCEPT !.phase = "awaiting_approval", !.proposed = PlanHash(m)]
        BY <1>2, <3>2 DEF ProposePlan
      <4>2. RunTypeOK'
        BY <4>1, ProposeTyping DEF TypeOK
      <4>3. ResearchTypeOK'
        BY <4>1, PlanHashTyping DEF TypeOK, ResearchTypeOK
      <4> QED BY <4>2, <4>3
    <3> QED BY <3>1, <3>2
  <2>2. task' \in [GraphNodes -> TaskState] /\ credit' \in BOOLEAN
    BY <1>2 DEF ProposePlan, FailModule, TypeOK, DriveTypeOK, TaskState
  <2>3. UNCHANGED <<inflight, gateView, agentLock, guard, others>>
    BY <1>2 DEF ProposePlan
  <2> QED BY <2>1, <2>2, <2>3, OthersTyping, TypeParts DEF TypeOK, DriveTypeOK
<1>3. CASE ReuseRefused(m)
  <2>1. PICK code \in {"AGENT_AUTHORITY_MISMATCH", "AGENT_BUDGET_EXCEEDED"} : FailModule(m, code)
    BY <1>3 DEF ReuseRefused
  <2>2. RunTypeOK'
    BY <2>1, FinalizeFailureTyping DEF FailModule, TypeOK, RunErrors
  <2>3. task' \in [GraphNodes -> TaskState]
    BY <2>1 DEF FailModule, TypeOK, DriveTypeOK, TaskState
  <2>4. UNCHANGED <<research, inflight, gateView, credit, agentLock, guard, others>>
    BY <1>3 DEF ReuseRefused
  <2> QED BY <2>2, <2>3, <2>4, OthersTyping, TypeParts DEF TypeOK, ResearchTypeOK, DriveTypeOK
<1>4. CASE RelinkModule(m)
  <2>1. RunTypeOK'
    BY <1>4, CompleteNodeTyping DEF RelinkModule, TypeOK
  <2>2. task' \in [GraphNodes -> TaskState]
    BY <1>4 DEF RelinkModule, FailModule, TypeOK, DriveTypeOK, TaskState
  <2>3. UNCHANGED <<research, inflight, gateView, credit, agentLock, guard, others>>
    BY <1>4 DEF RelinkModule
  <2> QED BY <2>1, <2>2, <2>3, OthersTyping, TypeParts DEF TypeOK, ResearchTypeOK, DriveTypeOK
<1>5. CASE StartModule(m)
  <2>1. RunTypeOK'
    BY <1>5, NodeRunningTyping DEF StartModule, TypeOK
  <2>2. task' \in [GraphNodes -> TaskState]
    BY <1>5 DEF StartModule, FailModule, TypeOK, DriveTypeOK, TaskState
  <2>3. UNCHANGED <<research, inflight, gateView, credit, agentLock, guard, others>>
    BY <1>5 DEF StartModule
  <2> QED BY <2>1, <2>2, <2>3, OthersTyping, TypeParts DEF TypeOK, ResearchTypeOK, DriveTypeOK
<1>6. CASE EnterAgent(m)
  <2>1. RunTypeOK'
    BY <1>6 DEF EnterAgent, TypeOK, RunTypeOK, runVars
  <2>2. task' \in [GraphNodes -> TaskState] /\ inflight' \in BOOLEAN /\ agentLock' \in Modules \cup {Nobody}
    BY <1>6 DEF EnterAgent, FailModule, TypeOK, DriveTypeOK, TaskState
  <2>3. UNCHANGED <<runVars, research, gateView, credit, guard, others>>
    BY <1>6 DEF EnterAgent
  <2> QED BY <2>1, <2>2, <2>3, OthersTyping, TypeParts DEF TypeOK, ResearchTypeOK, DriveTypeOK
<1>7. CASE EnterAgentRefused(m)
  <2>1. RunTypeOK'
    BY <1>7, FinalizeFailureTyping DEF EnterAgentRefused, FailModule, TypeOK, RunErrors
  <2>2. task' \in [GraphNodes -> TaskState]
    BY <1>7 DEF EnterAgentRefused, FailModule, TypeOK, DriveTypeOK, TaskState
  <2>3. UNCHANGED <<research, inflight, gateView, credit, agentLock, guard, others>>
    BY <1>7 DEF EnterAgentRefused
  <2> QED BY <2>1, <2>2, <2>3, OthersTyping, TypeParts DEF TypeOK, ResearchTypeOK, DriveTypeOK
<1>8. CASE AgentAnswers(m)
  <2>1. RunTypeOK'
    BY <1>8 DEF AgentAnswers, TypeOK, RunTypeOK, runVars
  <2>2. task' \in [GraphNodes -> TaskState] /\ inflight' \in BOOLEAN
    BY <1>8 DEF AgentAnswers, FailModule, TypeOK, DriveTypeOK, TaskState
  <2>3. UNCHANGED <<runVars, research, gateView, credit, agentLock, guard, others>>
    BY <1>8 DEF AgentAnswers
  <2> QED BY <2>1, <2>2, <2>3, OthersTyping, TypeParts DEF TypeOK, ResearchTypeOK, DriveTypeOK
<1>9. CASE AgentFails(m)
  <2>1. RunTypeOK'
    BY <1>9, FinalizeFailureTyping DEF AgentFails, FailModule, TypeOK, RunErrors
  <2>2. task' \in [GraphNodes -> TaskState] /\ agentLock' \in Modules \cup {Nobody}
    BY <1>9 DEF AgentFails, FailModule, TypeOK, DriveTypeOK, TaskState
  <2>3. UNCHANGED <<research, inflight, gateView, credit, guard, others>>
    BY <1>9 DEF AgentFails
  <2> QED BY <2>1, <2>2, <2>3, OthersTyping, TypeParts DEF TypeOK, ResearchTypeOK, DriveTypeOK
<1>10. CASE FinishModule(m)
  <2>1. RunTypeOK'
    BY <1>10, CompleteNodeTyping DEF FinishModule, TypeOK
  <2>2. task' \in [GraphNodes -> TaskState]
    BY <1>10 DEF FinishModule, FailModule, TypeOK, DriveTypeOK, TaskState
  <2>3. UNCHANGED <<research, inflight, gateView, credit, agentLock, guard, others>>
    BY <1>10 DEF FinishModule
  <2> QED BY <2>1, <2>2, <2>3, OthersTyping, TypeParts DEF TypeOK, ResearchTypeOK, DriveTypeOK
<1>11. CASE ChargeCompletion(m)
  <2>1. RunTypeOK'
    <3>1. CASE UNCHANGED runVars
      BY <3>1 DEF TypeOK, RunTypeOK, runVars
    <3>2. CASE FailModule(m, "AGENT_BUDGET_EXCEEDED")
      BY <3>2, FinalizeFailureTyping DEF FailModule, TypeOK, RunErrors
    <3> QED BY <1>11, <3>1, <3>2 DEF ChargeCompletion
  <2>2. task' \in [GraphNodes -> TaskState] /\ agentLock' \in Modules \cup {Nobody}
    BY <1>11 DEF ChargeCompletion, FailModule, TypeOK, DriveTypeOK, TaskState
  <2>3. UNCHANGED <<research, inflight, gateView, credit, guard, others>>
    BY <1>11 DEF ChargeCompletion
  <2> QED BY <2>1, <2>2, <2>3, OthersTyping, TypeParts DEF TypeOK, ResearchTypeOK, DriveTypeOK
<1> QED BY <1>1, <1>2, <1>3, <1>4, <1>5, <1>6, <1>7, <1>8, <1>9, <1>10, <1>11 DEF ModuleStep

\* Writing a task's result to the checkpoint keeps TypeOK.
LEMMA PersistTyping ==
    ASSUME TypeOK, NEW n \in GraphNodes, PersistTask(n)
    PROVE  TypeOK'
<1>1. task' \in [GraphNodes -> TaskState]
  BY DEF PersistTask, TypeOK, DriveTypeOK, TaskState
<1>2. ThreadTypeOK'
  <2>1. CASE task[n] = "returned"
    <3>1. ck' = [ck EXCEPT !.writes = @ \cup {n}, !.plan = IF n = "gate" THEN gateView ELSE @]
      BY <2>1 DEF PersistTask
    <3> QED BY <3>1 DEF TypeOK, ThreadTypeOK, DriveTypeOK
  <2>2. CASE task[n] # "returned"
    <3>1. ck' = [ck EXCEPT !.interrupts = @ \cup {n}]
      BY <2>2 DEF PersistTask
    <3> QED BY <3>1 DEF TypeOK, ThreadTypeOK
  <2> QED BY <2>1, <2>2
<1>3. UNCHANGED <<storeVars, caseVars, up, driver, holder, gateView, credit, agentLock, guard, bounds>>
  BY DEF PersistTask
<1>4. RunTypeOK' /\ ResearchTypeOK' /\ inflight' \in BOOLEAN
  BY <1>3 DEF TypeOK, storeVars, runVars, RunTypeOK, ResearchTypeOK
<1> QED BY <1>1, <1>2, <1>3, <1>4, TypeParts
        DEF TypeOK, caseVars, CaseTypeOK, DriverTypeOK, DriveTypeOK, bounds

\* Every step of a caller that drives the run keeps TypeOK.
LEMMA DriverTyping ==
    ASSUME TypeOK, NEW d \in Drivers, DriverStep(d)
    PROVE  TypeOK'
<1> USE IdleIsDriverState
<1>1. CASE BeginDrive(d)
  <2>1. RunTypeOK' /\ ThreadTypeOK'
    <3>1. CASE UNCHANGED <<runVars, ck>>
      BY <3>1 DEF TypeOK, RunTypeOK, ThreadTypeOK, runVars
    <3>2. CASE IdentityFailure
      BY <3>2, IdentityFailureTyping DEF TypeOK
    <3> QED BY <1>1, <3>1, <3>2 DEF BeginDrive
  <2>2. driver' \in [Drivers -> DriverState]
    BY <1>1 DEF BeginDrive, TypeOK, DriverTypeOK, DriverState
  <2>3. UNCHANGED <<research, inflight, caseVars, up, driveVars, bounds>>
    BY <1>1 DEF BeginDrive
  <2> QED BY <2>1, <2>2, <2>3, TypeParts
          DEF TypeOK, ResearchTypeOK, CaseTypeOK, DriverTypeOK, DriveTypeOK, caseVars, driveVars, bounds
<1>2. CASE AcquireThread(d)
  <2>1. driver' \in [Drivers -> DriverState]
    BY <1>2 DEF AcquireThread, TypeOK, DriverTypeOK, DriverState
  <2>2. ThreadTypeOK'
    BY <1>2 DEF AcquireThread, TypeOK, ThreadTypeOK
  <2>3. task' \in [GraphNodes -> TaskState] /\ holder' = d /\ credit' \in BOOLEAN
    BY <1>2 DEF AcquireThread, TaskState
  <2>4. UNCHANGED <<storeVars, caseVars, up, gateView, agentLock, guard, bounds>>
    BY <1>2 DEF AcquireThread
  <2>5. RunTypeOK' /\ ResearchTypeOK' /\ inflight' \in BOOLEAN
    BY <2>4 DEF TypeOK, storeVars, runVars, RunTypeOK, ResearchTypeOK
  <2> QED BY <2>1, <2>2, <2>3, <2>4, <2>5, TypeParts
          DEF TypeOK, CaseTypeOK, DriverTypeOK, DriveTypeOK, caseVars, bounds
<1>3. CASE DriveTerminal(d)
  <2>1. /\ UNCHANGED <<storeVars, caseVars, up, bounds>>
        /\ ck' = NoThread /\ EndDrive(d)
    BY <1>3 DEF DriveTerminal
  <2>2. RunTypeOK' /\ ResearchTypeOK' /\ inflight' \in BOOLEAN
    BY <2>1 DEF TypeOK, storeVars, runVars, RunTypeOK, ResearchTypeOK
  <2>3. DriverTypeOK' /\ DriveTypeOK'
    BY <2>1, <2>2, EndDriveTyping DEF TypeOK, RunTypeOK
  <2>4. ThreadTypeOK'
    BY <2>1 DEF ThreadTypeOK, NoThread, NoPlan
  <2> QED BY <2>1, <2>2, <2>3, <2>4, TypeParts DEF TypeOK, CaseTypeOK, caseVars, bounds
<1>4. CASE ResumeWithoutThread(d) \/ GatePauseRefused(d)
  <2>1. RaiseFromDrive(d) /\ UNCHANGED <<research, inflight, caseVars, up, bounds>>
    BY <1>4 DEF ResumeWithoutThread, GatePauseRefused
  <2>2. RunTypeOK' /\ ThreadTypeOK' /\ DriverTypeOK' /\ DriveTypeOK'
    BY <2>1, RaiseFromDriveTyping DEF TypeOK
  <2> QED BY <2>1, <2>2, TypeParts DEF TypeOK, ResearchTypeOK, CaseTypeOK, caseVars, bounds
<1>5. CASE TimerFires(d)
  <2>1. driver' \in [Drivers -> DriverState]
    BY <1>5 DEF TimerFires, TypeOK, DriverTypeOK, DriverState
  <2>2. UNCHANGED <<storeVars, ck, caseVars, up, driveVars, bounds>>
    BY <1>5 DEF TimerFires
  <2>3. RunTypeOK' /\ ResearchTypeOK' /\ inflight' \in BOOLEAN
    BY <2>2 DEF TypeOK, storeVars, runVars, RunTypeOK, ResearchTypeOK
  <2> QED BY <2>1, <2>2, <2>3, TypeParts
          DEF TypeOK, ThreadTypeOK, CaseTypeOK, DriverTypeOK, DriveTypeOK, caseVars, driveVars, bounds
<1>6. CASE AdvanceStep(d)
  <2> DEFINE done == ck.applied \cup ck.writes
             thread == [ck EXCEPT !.applied = done, !.writes = {}, !.interrupts = {}]
  <2>1. UNCHANGED <<storeVars, caseVars, up, bounds>>
    BY <1>6 DEF AdvanceStep
  <2>2. RunTypeOK' /\ ResearchTypeOK' /\ inflight' \in BOOLEAN
    BY <2>1 DEF TypeOK, storeVars, runVars, RunTypeOK, ResearchTypeOK
  <2>3. ThreadTypeOK'
    <3>1. CASE ck' = NoThread
      BY <3>1 DEF ThreadTypeOK, NoThread, NoPlan
    <3>2. CASE ck' = thread
      <4>1. done \in SUBSET GraphNodes
        BY DEF TypeOK, ThreadTypeOK
      <4> HIDE DEF done
      <4> QED BY <3>2, <4>1 DEF TypeOK, ThreadTypeOK
    <3> QED BY <1>6, <3>1, <3>2 DEF AdvanceStep
  <2>4. DriverTypeOK' /\ DriveTypeOK'
    <3>1. CASE EndDrive(d)
      BY <2>1, <2>2, <3>1, EndDriveTyping DEF TypeOK, RunTypeOK
    <3>2. CASE /\ task' = [n \in GraphNodes |-> IF n \in Frontier(done) THEN "ready" ELSE "idle"]
               /\ UNCHANGED <<driver, holder, gateView, credit, agentLock, guard>>
      <4>1. task' \in [GraphNodes -> TaskState]
        BY <3>2 DEF TaskState
      <4> QED BY <2>1, <3>2, <4>1 DEF TypeOK, DriverTypeOK, DriveTypeOK
    <3> QED BY <1>6, <3>1, <3>2 DEF AdvanceStep
  <2> QED BY <2>1, <2>2, <2>3, <2>4, TypeParts DEF TypeOK, CaseTypeOK, caseVars, bounds
<1>7. CASE ParkDrive(d)
  <2>1. UNCHANGED <<storeVars, caseVars, up, bounds>> /\ EndDrive(d)
    BY <1>7 DEF ParkDrive
  <2>2. RunTypeOK' /\ ResearchTypeOK' /\ inflight' \in BOOLEAN
    BY <2>1 DEF TypeOK, storeVars, runVars, RunTypeOK, ResearchTypeOK
  <2>3. DriverTypeOK' /\ DriveTypeOK'
    BY <2>1, <2>2, EndDriveTyping DEF TypeOK, RunTypeOK
  <2>4. ThreadTypeOK'
    BY <1>7 DEF ParkDrive, TypeOK, ThreadTypeOK, NoThread, NoPlan
  <2> QED BY <2>1, <2>2, <2>3, <2>4, TypeParts DEF TypeOK, CaseTypeOK, caseVars, bounds
<1>8. CASE AbortDrive(d)
  <2>1. /\ FinalizeFailure("AGENT_AUTHORITY_MISMATCH", Nobody) /\ ck' = NoThread /\ EndDrive(d)
        /\ UNCHANGED <<research, inflight, caseVars, up, bounds>>
    BY <1>8 DEF AbortDrive
  <2>2. RunTypeOK'
    BY <2>1, FinalizeFailureTyping DEF TypeOK, RunErrors
  <2>3. DriverTypeOK' /\ DriveTypeOK'
    BY <2>1, <2>2, EndDriveTyping DEF TypeOK, RunTypeOK
  <2>4. ThreadTypeOK'
    BY <2>1 DEF ThreadTypeOK, NoThread, NoPlan
  <2> QED BY <2>1, <2>2, <2>3, <2>4, TypeParts DEF TypeOK, ResearchTypeOK, CaseTypeOK, caseVars, bounds
<1> QED BY <1>1, <1>2, <1>3, <1>4, <1>5, <1>6, <1>7, <1>8 DEF DriverStep

\* Every request of a client keeps TypeOK.
LEMMA ClientTyping ==
    ASSUME TypeOK, Client
    PROVE  TypeOK'
<1>1. CASE ResumeExpired
  <2>1. RunTypeOK' /\ ThreadTypeOK'
    BY <1>1, IdentityFailureTyping DEF ResumeExpired, TypeOK
  <2>2. UNCHANGED <<research, inflight, caseVars, up, driver, driveVars, bounds>>
    BY <1>1 DEF ResumeExpired
  <2> QED BY <2>1, <2>2, TypeParts
          DEF TypeOK, ResearchTypeOK, CaseTypeOK, DriverTypeOK, DriveTypeOK, caseVars, driveVars, bounds
<1>2. CASE Resume
  <2>1. RunTypeOK'
    BY <1>2, ConsumeTicketTyping DEF Resume, TypeOK
  <2>2. driver' \in [Drivers -> DriverState]
    BY <1>2 DEF Resume, TypeOK, DriverTypeOK, DriverState
  <2>3. UNCHANGED <<research, inflight, ck, caseVars, up, driveVars, bounds>>
    BY <1>2 DEF Resume
  <2> QED BY <2>1, <2>2, <2>3, TypeParts
          DEF TypeOK, ResearchTypeOK, ThreadTypeOK, CaseTypeOK, DriverTypeOK, DriveTypeOK,
              caseVars, driveVars, bounds
<1>3. CASE Approve
  <2>1. RunTypeOK'
    BY <1>3, ApprovedTyping DEF Approve, TypeOK
  <2>2. ResearchTypeOK'
    BY <1>3 DEF Approve, TypeOK, ResearchTypeOK
  <2>3. driver' \in [Drivers -> DriverState]
    BY <1>3, WithContinuationTyping DEF Approve, TypeOK, DriverTypeOK
  <2>4. UNCHANGED <<inflight, ck, caseVars, up, driveVars, bounds>>
    BY <1>3 DEF Approve
  <2> QED BY <2>1, <2>2, <2>3, <2>4, TypeParts
          DEF TypeOK, ThreadTypeOK, CaseTypeOK, DriverTypeOK, DriveTypeOK, caseVars, driveVars, bounds
<1>4. ASSUME NEW s \in Sources, Ingest(s) \/ Withdraw(s)
      PROVE  TypeOK'
  <2>1. CaseTypeOK'
    BY <1>4 DEF Ingest, Withdraw, TypeOK, CaseTypeOK
  <2>2. UNCHANGED <<storeVars, ck, procVars, bounds>>
    BY <1>4 DEF Ingest, Withdraw
  <2>3. RunTypeOK' /\ ResearchTypeOK' /\ inflight' \in BOOLEAN
    BY <2>2 DEF TypeOK, storeVars, runVars, RunTypeOK, ResearchTypeOK
  <2> QED BY <2>1, <2>2, <2>3, TypeParts
          DEF TypeOK, ThreadTypeOK, DriverTypeOK, DriveTypeOK, procVars, driveVars, bounds
<1> QED BY <1>1, <1>2, <1>3, <1>4 DEF Client

\* Faults, process death and the clock keep TypeOK.
LEMMA FaultTyping ==
    ASSUME TypeOK, Fault
    PROVE  TypeOK'
<1> USE IdleIsDriverState
<1>1. ASSUME NEW d \in Drivers, DriveFault(d)
      PROVE  TypeOK'
  <2>1. /\ RaiseFromDrive(d) /\ faults' = faults + 1
        /\ UNCHANGED <<research, inflight, caseVars, up, crashes>>
    BY <1>1 DEF DriveFault
  <2>2. RunTypeOK' /\ ThreadTypeOK' /\ DriverTypeOK' /\ DriveTypeOK'
    BY <2>1, RaiseFromDriveTyping DEF TypeOK
  <2> QED BY <2>1, <2>2, TypeParts DEF TypeOK, ResearchTypeOK, CaseTypeOK, caseVars
<1>2. ASSUME NEW d \in Drivers, PreLockFault(d)
      PROVE  TypeOK'
  <2>1. /\ AfterRaise(d) /\ faults' = faults + 1
        /\ UNCHANGED <<research, inflight, ck, caseVars, up, driveVars, crashes>>
    BY <1>2 DEF PreLockFault
  <2>2. RunTypeOK' /\ DriverTypeOK'
    BY <2>1, AfterRaiseTyping DEF TypeOK
  <2> QED BY <2>1, <2>2, TypeParts
          DEF TypeOK, ResearchTypeOK, ThreadTypeOK, CaseTypeOK, DriveTypeOK, caseVars, driveVars
<1>3. ASSUME NEW d \in Drivers, TimerFault(d)
      PROVE  TypeOK'
  <2>1. /\ driver' = [driver EXCEPT ![d] = Idle] /\ faults' = faults + 1
        /\ UNCHANGED <<storeVars, ck, caseVars, up, driveVars, crashes>>
    BY <1>3 DEF TimerFault
  <2>2. RunTypeOK' /\ ResearchTypeOK' /\ inflight' \in BOOLEAN
    BY <2>1 DEF TypeOK, storeVars, runVars, RunTypeOK, ResearchTypeOK
  <2> QED BY <2>1, <2>2, TypeParts
          DEF TypeOK, ThreadTypeOK, CaseTypeOK, DriverTypeOK, DriveTypeOK, caseVars, driveVars
<1>4. CASE Crash
  <2>1. UNCHANGED <<storeVars, caseVars, faults>> /\ crashes' = crashes + 1
    BY <1>4 DEF Crash
  <2>2. RunTypeOK' /\ ResearchTypeOK' /\ inflight' \in BOOLEAN
    BY <2>1 DEF TypeOK, storeVars, runVars, RunTypeOK, ResearchTypeOK
  <2>3. ThreadTypeOK'
    BY <1>4 DEF Crash, TypeOK, ThreadTypeOK, NoThread, NoPlan
  <2>4. DriverTypeOK' /\ DriveTypeOK'
    BY <1>4 DEF Crash, TypeOK, DriverTypeOK, DriveTypeOK, TaskState, NoPlan
  <2> QED BY <2>1, <2>2, <2>3, <2>4, TypeParts DEF TypeOK, CaseTypeOK, caseVars
<1>5. CASE Expire
  <2>1. UNCHANGED <<storeVars, ck, curSet, withdrawn, procVars, bounds>> /\ expired' = TRUE
    BY <1>5 DEF Expire
  <2>2. RunTypeOK' /\ ResearchTypeOK' /\ inflight' \in BOOLEAN
    BY <2>1 DEF TypeOK, storeVars, runVars, RunTypeOK, ResearchTypeOK
  <2> QED BY <2>1, <2>2, TypeParts
          DEF TypeOK, ThreadTypeOK, CaseTypeOK, DriverTypeOK, DriveTypeOK, procVars, driveVars, bounds
<1> QED BY <1>1, <1>2, <1>3, <1>4, <1>5 DEF Fault

\* Recovery at the start of a process keeps TypeOK.
LEMMA RestartTyping ==
    ASSUME TypeOK, Restart
    PROVE  TypeOK'
<1>1. RunTypeOK' /\ ThreadTypeOK'
  <2>1. CASE UNCHANGED runVars /\ (ck' = NoThread \/ UNCHANGED ck)
    <3>1. RunTypeOK'
      BY <2>1 DEF TypeOK, RunTypeOK, runVars
    <3>2. ThreadTypeOK'
      <4>1. CASE ck' = NoThread
        BY <4>1 DEF ThreadTypeOK, NoThread, NoPlan
      <4>2. CASE UNCHANGED ck
        BY <4>2 DEF TypeOK, ThreadTypeOK
      <4> QED BY <2>1, <4>1, <4>2
    <3> QED BY <3>1, <3>2
  <2>2. CASE IdentityFailure
    BY <2>2, IdentityFailureTyping DEF TypeOK
  <2> QED BY <2>1, <2>2 DEF Restart
<1>2. up' \in BOOLEAN /\ driver' \in [Drivers -> DriverState]
  <2>1. up' = TRUE
    BY DEF Restart
  <2>2. CASE UNCHANGED driver
    BY <2>1, <2>2 DEF TypeOK, DriverTypeOK
  <2>3. CASE \E c \in Conts :
               driver' = [driver EXCEPT ![c] = [st |-> "ready", kind |-> "recover", attempt |-> 0]]
    <3>1. PICK c \in Conts :
              driver' = [driver EXCEPT ![c] = [st |-> "ready", kind |-> "recover", attempt |-> 0]]
      BY <2>3
    <3>2. driver' \in [Drivers -> DriverState]
      BY <3>1 DEF TypeOK, DriverTypeOK, DriverState
    <3> QED BY <2>1, <3>2
  <2> QED BY <2>2, <2>3 DEF Restart
<1>3. UNCHANGED <<research, inflight, caseVars, driveVars, bounds>>
  BY DEF Restart
<1> QED BY <1>1, <1>2, <1>3, TypeParts
        DEF TypeOK, ResearchTypeOK, CaseTypeOK, DriverTypeOK, DriveTypeOK, caseVars, driveVars, bounds

\* Every step keeps TypeOK: it is inductive by itself.
LEMMA TypingStep ==
    ASSUME TypeOK, [Next]_vars
    PROVE  TypeOK'
<1>1. CASE Next
  BY <1>1, GateTyping, FinalizeTyping, ModuleTyping, PersistTyping, DriverTyping, ClientTyping,
     FaultTyping, RestartTyping DEF Next
<1>2. CASE UNCHANGED vars
  <2>1. UNCHANGED <<storeVars, ck, caseVars, procVars, bounds>>
    BY <1>2 DEF vars
  <2>2. RunTypeOK' /\ ResearchTypeOK' /\ inflight' \in BOOLEAN
    BY <2>1 DEF TypeOK, storeVars, runVars, RunTypeOK, ResearchTypeOK
  <2> QED BY <2>1, <2>2, TypeParts
          DEF TypeOK, ThreadTypeOK, CaseTypeOK, DriverTypeOK, DriveTypeOK,
              caseVars, procVars, driveVars, bounds
<1> QED BY <1>1, <1>2

\* A run that create_run has just committed is well typed.
LEMMA InitTyping == Init => TypeOK
<1> SUFFICES ASSUME Init PROVE TypeOK
  OBVIOUS
<1> USE IdleIsDriverState, NoHashTyping DEF Init
<1>1. RunTypeOK
  <2>1. node \in [Modules -> [status : NodeStatus, artifact : Nat]]
    BY DEF NodeStatus
  <2>2. runLog \in [RunEvents -> Nat]
    BY DEF RunEvents
  <2>3. artifacts \in [Modules -> Nat] /\ nodeLog \in [Modules -> [running : Nat, succeeded : Nat]]
    OBVIOUS
  <2> QED BY <2>1, <2>2, <2>3 DEF RunTypeOK, RunStatus, RunErrors, NoPlan
<1>2. ResearchTypeOK
  BY DEF ResearchTypeOK
<1>3. ThreadTypeOK
  BY DEF ThreadTypeOK, NoThread, NoPlan
<1>4. DriverTypeOK
  BY DEF DriverTypeOK, DriverState
<1>5. DriveTypeOK
  BY DEF DriveTypeOK, TaskState, NoPlan
<1> QED BY <1>1, <1>2, <1>3, <1>4, <1>5 DEF TypeOK, CaseTypeOK

\* Every variable stays in the range the code can store in it, for every route,
\* every number of sources, continuations, retries, faults and crashes.
THEOREM Typing == Spec => []TypeOK
BY InitTyping, TypingStep, PTL DEF Spec

-----------------------------------------------------------------------------
\* What a step may do to the run tables: one of the store's operations, under
\* the guard its caller gives it.
RunStep ==
    \/ UNCHANGED runVars
    \/ \E code \in RunErrors, m \in Modules \cup {Nobody} : FinalizeFailure(code, m)
    \/ status \notin Terminal /\ Pause("SOURCE_SET_EMPTY")
    \/ status \notin Terminal /\ Propose
    \/ status \notin Terminal /\ Approved
    \/ PinPlan(gateView)
    \/ \E m \in Modules : NodeRunning(m) \/ CompleteNode(m)
    \/ FinalizeCommit
    \/ ConsumeTicket

\* Every step of the system is a RunStep: no path writes the run tables except
\* through a store operation, under the guard named there.
LEMMA RunSteps ==
    ASSUME TypeOK, [Next]_vars
    PROVE  RunStep
<1>1. CASE GateStep
  BY <1>1 DEF GateStep, GateEnter, GatePause, GateReread, GateCheck, GatePin, RunStep, storeVars
<1>2. CASE FinalizeStep
  <2>1. CASE FinalizeVerify
    BY <2>1 DEF FinalizeVerify, RunStep, storeVars
  <2>2. CASE FinalizeCommit
    BY <2>2 DEF RunStep
  <2>3. CASE FinalizeRefuse
    BY <2>3 DEF FinalizeRefuse, RunStep, RunErrors
  <2> QED BY <1>2, <2>1, <2>2, <2>3 DEF FinalizeStep
<1>3. ASSUME NEW m \in Modules, ModuleStep(m)
      PROVE  RunStep
  <2>1. CASE \E code \in RunErrors : FailModule(m, code)
    BY <2>1 DEF FailModule, RunStep
  <2>2. CASE ModuleRefused(m) \/ ReuseRefused(m) \/ AgentFails(m)
    BY <2>1, <2>2 DEF ModuleRefused, Refusal, ReuseRefused, AgentFails, RunErrors
  <2>3. CASE EnterAgentRefused(m)
    <3>1. (IF inflight THEN "AGENT_BUDGET_EXCEEDED" ELSE "AGENT_QUALIFICATION_EXPIRED") \in RunErrors
      BY DEF RunErrors
    <3> QED BY <2>1, <2>3, <3>1 DEF EnterAgentRefused
  <2>4. CASE ProposePlan(m)
    <3>1. CASE status \in Terminal \/ research.proposed \notin {NoHash, PlanHash(m)}
      BY <2>1, <2>4, <3>1 DEF ProposePlan, RunErrors
    <3>2. CASE ~(status \in Terminal \/ research.proposed \notin {NoHash, PlanHash(m)})
      BY <2>4, <3>2 DEF ProposePlan, RunStep
    <3> QED BY <3>1, <3>2
  <2>5. CASE RelinkModule(m) \/ StartModule(m) \/ FinishModule(m)
    BY <2>5 DEF RelinkModule, StartModule, FinishModule, RunStep
  <2>6. CASE EnterAgent(m) \/ AgentAnswers(m)
    BY <2>6 DEF EnterAgent, AgentAnswers, RunStep
  <2>7. CASE ChargeCompletion(m)
    <3>1. CASE UNCHANGED runVars
      BY <3>1 DEF RunStep
    <3> QED BY <2>1, <2>7, <3>1 DEF ChargeCompletion, RunErrors
  <2> QED BY <1>3, <2>2, <2>3, <2>4, <2>5, <2>6, <2>7 DEF ModuleStep
<1>4. CASE \E n \in GraphNodes : PersistTask(n)
  BY <1>4 DEF PersistTask, RunStep, storeVars
<1>5. CASE IdentityFailure
  BY <1>5 DEF IdentityFailure, RunStep, RunErrors
<1>6. ASSUME NEW d \in Drivers, AfterRaise(d)
      PROVE  RunStep
  <2>1. CASE UNCHANGED runVars
    BY <2>1 DEF RunStep
  <2>2. CASE FinalizeFailure("RUN_EXECUTION_FAILED", Nobody)
    BY <2>2 DEF RunStep, RunErrors
  <2> QED BY <1>6, <2>1, <2>2 DEF AfterRaise
<1>7. ASSUME NEW d \in Drivers, DriverStep(d)
      PROVE  RunStep
  <2>1. CASE BeginDrive(d)
    <3>1. CASE UNCHANGED <<runVars, ck>>
      BY <3>1 DEF RunStep
    <3> QED BY <1>5, <2>1, <3>1 DEF BeginDrive
  <2>2. CASE AcquireThread(d) \/ DriveTerminal(d) \/ TimerFires(d) \/ AdvanceStep(d) \/ ParkDrive(d)
    <3>1. UNCHANGED storeVars
      BY <2>2 DEF AcquireThread, DriveTerminal, TimerFires, AdvanceStep, ParkDrive
    <3> QED BY <3>1 DEF storeVars, RunStep
  <2>3. CASE ResumeWithoutThread(d) \/ GatePauseRefused(d)
    BY <1>6, <2>3 DEF ResumeWithoutThread, GatePauseRefused, RaiseFromDrive
  <2>4. CASE AbortDrive(d)
    BY <2>4 DEF AbortDrive, RunStep, RunErrors
  <2> QED BY <1>7, <2>1, <2>2, <2>3, <2>4 DEF DriverStep
<1>8. CASE Client
  <2>1. CASE ResumeExpired
    BY <1>5, <2>1 DEF ResumeExpired
  <2>2. CASE \E s \in Sources : Ingest(s) \/ Withdraw(s)
    BY <2>2 DEF Ingest, Withdraw, storeVars, RunStep
  <2>3. CASE Resume
    BY <2>3 DEF Resume, RunStep
  <2>4. CASE Approve
    BY <2>4 DEF Approve, Terminal, RunStep
  <2> QED BY <1>8, <2>1, <2>2, <2>3, <2>4 DEF Client
<1>9. CASE Fault
  <2>1. CASE \E d \in Drivers : DriveFault(d) \/ PreLockFault(d)
    BY <1>6, <2>1 DEF DriveFault, PreLockFault, RaiseFromDrive
  <2>2. CASE Crash \/ Expire \/ \E d \in Drivers : TimerFault(d)
    <3>1. UNCHANGED storeVars
      BY <2>2 DEF Crash, Expire, TimerFault
    <3> QED BY <3>1 DEF storeVars, RunStep
  <2> QED BY <1>9, <2>1, <2>2 DEF Fault
<1>10. CASE Restart
  <2>1. CASE UNCHANGED runVars
    BY <2>1 DEF RunStep
  <2> QED BY <1>5, <1>10, <2>1 DEF Restart
<1>11. CASE UNCHANGED vars
  BY <1>11 DEF vars, storeVars, RunStep
<1> QED BY <1>1, <1>2, <1>3, <1>4, <1>7, <1>8, <1>9, <1>10, <1>11 DEF Next

\* No store operation breaks the agreement of the terminal events with the status.
LEMMA OneTerminalEventStep ==
    ASSUME TypeOK, OneTerminalEvent, RunStep
    PROVE  OneTerminalEvent'
<1> USE DEF TypeOK, RunTypeOK, OneTerminalEvent, Terminal, RunStatus, RunEvents
<1>1. CASE UNCHANGED runVars \/ ConsumeTicket \/ \E m \in Modules : NodeRunning(m) \/ CompleteNode(m)
  BY <1>1 DEF runVars, ConsumeTicket, NodeRunning, CompleteNode
<1>2. ASSUME NEW code \in RunErrors, NEW m \in Modules \cup {Nobody}, FinalizeFailure(code, m)
      PROVE  OneTerminalEvent'
  BY <1>2 DEF FinalizeFailure, runVars
<1>3. CASE status \notin Terminal /\ (Pause("SOURCE_SET_EMPTY") \/ Propose \/ Approved)
  BY <1>3 DEF Pause, Propose, Approved
<1>4. CASE PinPlan(gateView)
  BY <1>4 DEF PinPlan, runVars
<1>5. CASE FinalizeCommit
  BY <1>5 DEF FinalizeCommit, FinalizeSuccess, runVars
<1> QED BY <1>1, <1>2, <1>3, <1>4, <1>5 DEF RunStep

\* The end of a run is recorded once, whoever finalizes it and however often
\* its graph is re-executed.
THEOREM TerminalOnce == Spec => []OneTerminalEvent
<1>1. Init => OneTerminalEvent
  BY DEF Init, OneTerminalEvent, Terminal
<1>2. TypeOK /\ OneTerminalEvent /\ [Next]_vars => OneTerminalEvent'
  BY RunSteps, OneTerminalEventStep
<1> QED BY <1>1, <1>2, Typing, PTL DEF Spec

\* A terminal run keeps its status, its error and its plan.
THEOREM TerminalStays == Spec => TerminalIsFinal
<1>1. TypeOK /\ [Next]_vars => [(status \in Terminal) => UNCHANGED <<status, error, plan>>]_vars
  <2> SUFFICES ASSUME TypeOK, [Next]_vars, status \in Terminal
               PROVE  UNCHANGED <<status, error, plan>>
    OBVIOUS
  <2>1. RunStep
    BY RunSteps
  <2> QED BY <2>1 DEF RunStep, runVars, FinalizeFailure, PinPlan, NodeRunning, CompleteNode,
                      FinalizeCommit, FinalizeSuccess, ConsumeTicket, Terminal
<1> QED BY <1>1, Typing, PTL DEF Spec, TerminalIsFinal

-----------------------------------------------------------------------------
(* Resume tickets.                                                         *)

\* No store operation mints a second ticket beside an unconsumed one.
LEMMA OneTicketStep ==
    ASSUME TypeOK, AtMostOneTicket, RunStep
    PROVE  AtMostOneTicket'
<1> USE DEF TypeOK, RunTypeOK, AtMostOneTicket
<1>1. CASE \/ UNCHANGED runVars \/ PinPlan(gateView) \/ FinalizeCommit
           \/ \E m \in Modules : NodeRunning(m) \/ CompleteNode(m)
  BY <1>1 DEF runVars, PinPlan, FinalizeCommit, FinalizeSuccess, NodeRunning, CompleteNode
<1>2. ASSUME NEW code \in RunErrors, NEW m \in Modules \cup {Nobody}, FinalizeFailure(code, m)
      PROVE  AtMostOneTicket'
  BY <1>2 DEF FinalizeFailure, runVars
<1>3. CASE status \notin Terminal /\ (Pause("SOURCE_SET_EMPTY") \/ Propose \/ Approved)
  BY <1>3 DEF Pause, Propose, Approved
<1>4. CASE ConsumeTicket
  BY <1>4 DEF ConsumeTicket
<1> QED BY <1>1, <1>2, <1>3, <1>4 DEF RunStep

\* However often a run parks, is resumed, approved or recovered, it has at most
\* one unconsumed resume ticket.
THEOREM TicketsDoNotPile == Spec => []AtMostOneTicket
<1>1. Init => AtMostOneTicket
  BY DEF Init, AtMostOneTicket
<1>2. TypeOK /\ AtMostOneTicket /\ [Next]_vars => AtMostOneTicket'
  BY RunSteps, OneTicketStep
<1> QED BY <1>1, <1>2, Typing, PTL DEF Spec

-----------------------------------------------------------------------------
(* Live work.                                                              *)

\* Between its verification and its commit, finalize relies on this: while the
\* run has not ended, the plan stays pinned and every module stays delivered.
VerifiedHolds ==
    task["finalize"] = "verified" /\ status \notin Terminal =>
        plan # NoPlan /\ \A m \in Modules : node[m].status = "succeeded"

LiveWork == NoLiveWorkOnTerminal /\ VerifiedHolds

\* Only the verification of finalize makes its task verified.
LEMMA OnlyVerifyVerifies ==
    ASSUME TypeOK, [Next]_vars, task'["finalize"] = "verified"
    PROVE  task["finalize"] = "verified" \/ FinalizeVerify
<1> USE NodesAreTasks
<1>0. /\ task \in [GraphNodes -> TaskState]
      /\ "finalize" \notin Modules /\ "gate" \notin Modules
  BY ModulesAssumption DEF TypeOK, DriveTypeOK
<1>1. CASE UNCHANGED task
  BY <1>1
<1>2. CASE task' = [n \in GraphNodes |-> "idle"]
  BY <1>2
<1>3. CASE GateStep
  BY <1>0, <1>3 DEF GateStep, GateEnter, GatePause, GateReread, GateCheck, GatePin
<1>4. CASE FinalizeStep
  BY <1>0, <1>4 DEF FinalizeStep, FinalizeCommit, FinalizeRefuse
<1>5. ASSUME NEW m \in Modules, ModuleStep(m)
      PROVE  task["finalize"] = "verified"
  <2>1. task'["finalize"] = task["finalize"]
    BY <1>0, <1>5 DEF ModuleStep, ModuleRefused, ReuseRefused, ProposePlan, RelinkModule,
       StartModule, EnterAgent, EnterAgentRefused, AgentAnswers, AgentFails, FinishModule,
       ChargeCompletion, FailModule
  <2> QED BY <2>1
<1>6. ASSUME NEW n \in GraphNodes, PersistTask(n)
      PROVE  task["finalize"] = "verified"
  BY <1>0, <1>6 DEF PersistTask
<1>7. ASSUME NEW d \in Drivers, DriverStep(d)
      PROVE  task["finalize"] = "verified"
  <2>1. CASE EndDrive(d) \/ RaiseFromDrive(d)
    BY <1>2, <2>1 DEF EndDrive, RaiseFromDrive
  <2>2. CASE BeginDrive(d) \/ TimerFires(d)
    BY <1>1, <2>2 DEF BeginDrive, TimerFires, driveVars
  <2>3. CASE AcquireThread(d)
    BY <2>3 DEF AcquireThread
  <2>4. CASE AdvanceStep(d)
    <3>1. CASE task' = [n \in GraphNodes |-> IF n \in Frontier(ck.applied \cup ck.writes)
                                             THEN "ready" ELSE "idle"]
      BY <3>1
    <3> QED BY <2>1, <2>4, <3>1 DEF AdvanceStep
  <2> QED BY <1>7, <2>1, <2>2, <2>3, <2>4
          DEF DriverStep, DriveTerminal, ResumeWithoutThread, ParkDrive, AbortDrive, GatePauseRefused
<1>8. CASE Client \/ Restart
  <2>1. UNCHANGED task
    BY <1>8 DEF Client, Restart, ResumeExpired, Resume, Approve, Ingest, Withdraw,
       procVars, driveVars
  <2> QED BY <1>1, <2>1
<1>9. CASE Fault
  BY <1>1, <1>2, <1>9
     DEF Fault, DriveFault, PreLockFault, TimerFault, Crash, Expire, RaiseFromDrive, procVars, driveVars
<1>10. CASE UNCHANGED vars
  BY <1>1, <1>10 DEF vars, procVars, driveVars
<1> QED BY <1>3, <1>4, <1>5, <1>6, <1>7, <1>8, <1>9, <1>10 DEF Next

\* A verified finalize stays justified: nothing but the end of the run unpins
\* the plan or takes a delivered module back.
LEMMA VerifiedHoldsStep ==
    ASSUME TypeOK, VerifiedHolds, [Next]_vars
    PROVE  VerifiedHolds'
<1> SUFFICES ASSUME task'["finalize"] = "verified", status' \notin Terminal
             PROVE  plan' # NoPlan /\ \A m \in Modules : node'[m].status = "succeeded"
  BY DEF VerifiedHolds
<1>1. CASE FinalizeVerify
  <2>1. UNCHANGED <<plan, node>>
    BY <1>1 DEF FinalizeVerify, storeVars, runVars
  <2>2. FinalGateHolds
    <3>1. CASE task' = [task EXCEPT !["finalize"] = "refused"]
      BY <3>1, NodesAreTasks DEF TypeOK, DriveTypeOK
    <3> QED BY <1>1, <3>1 DEF FinalizeVerify
  <2> QED BY <2>1, <2>2 DEF FinalGateHolds, Live, NoPlan
<1>2. CASE task["finalize"] = "verified"
  <2>0. RunStep
    BY RunSteps
  <2>1. status \notin Terminal
    BY <2>0 DEF RunStep, runVars, FinalizeFailure, PinPlan, NodeRunning, CompleteNode,
                FinalizeCommit, FinalizeSuccess, ConsumeTicket, Terminal
  <2>2. plan # NoPlan /\ \A m \in Modules : node[m].status = "succeeded"
    BY <1>2, <2>1 DEF VerifiedHolds
  <2>3. CASE \E m \in Modules : NodeRunning(m) \/ CompleteNode(m)
    BY <2>2, <2>3 DEF NodeRunning, CompleteNode, runVars, TypeOK, RunTypeOK
  <2>4. CASE \/ UNCHANGED runVars \/ PinPlan(gateView) \/ FinalizeCommit \/ ConsumeTicket
             \/ Pause("SOURCE_SET_EMPTY") \/ Propose \/ Approved
    BY <2>2, <2>4 DEF runVars, PinPlan, FinalizeCommit, FinalizeSuccess, ConsumeTicket,
                      Pause, Propose, Approved
  <2>5. ASSUME NEW code \in RunErrors, NEW m \in Modules \cup {Nobody}, FinalizeFailure(code, m)
        PROVE  FALSE
    BY <2>1, <2>5 DEF FinalizeFailure, Terminal
  <2> QED BY <2>0, <2>3, <2>4, <2>5 DEF RunStep
<1> QED BY <1>1, <1>2, OnlyVerifyVerifies

\* A run that ends leaves no node running, and none starts after the end.
LEMMA NoLiveWorkStep ==
    ASSUME TypeOK, LiveWork, RunStep
    PROVE  NoLiveWorkOnTerminal'
<1> USE DEF LiveWork, NoLiveWorkOnTerminal, TypeOK, RunTypeOK
<1>1. CASE UNCHANGED runVars \/ ConsumeTicket
  BY <1>1 DEF runVars, ConsumeTicket
<1>2. ASSUME NEW code \in RunErrors, NEW m \in Modules \cup {Nobody}, FinalizeFailure(code, m)
      PROVE  NoLiveWorkOnTerminal'
  BY <1>2 DEF FinalizeFailure, runVars, NodeStatus
<1>3. CASE status \notin Terminal /\ (Pause("SOURCE_SET_EMPTY") \/ Propose \/ Approved)
  BY <1>3 DEF Pause, Propose, Approved, Terminal
<1>4. CASE PinPlan(gateView)
  BY <1>4 DEF PinPlan, runVars, Terminal
<1>5. ASSUME NEW m \in Modules, NodeRunning(m) \/ CompleteNode(m)
      PROVE  NoLiveWorkOnTerminal'
  BY <1>5 DEF NodeRunning, CompleteNode, runVars
<1>6. CASE FinalizeCommit
  BY <1>6 DEF FinalizeCommit, FinalizeSuccess, VerifiedHolds, runVars, Terminal
<1> QED BY <1>1, <1>2, <1>3, <1>4, <1>5, <1>6 DEF RunStep

\* A terminal run shows no node as live work: a failure cancels the running
\* siblings, a success is only committed when no module is running.
THEOREM TerminalRunsAreQuiet == Spec => []NoLiveWorkOnTerminal
<1>1. Init => LiveWork
  BY NodesAreTasks DEF Init, LiveWork, NoLiveWorkOnTerminal, VerifiedHolds, Terminal
<1>2. TypeOK /\ LiveWork /\ [Next]_vars => LiveWork'
  BY RunSteps, NoLiveWorkStep, VerifiedHoldsStep DEF LiveWork
<1>3. LiveWork => NoLiveWorkOnTerminal
  BY DEF LiveWork
<1> QED BY <1>1, <1>2, <1>3, Typing, PTL DEF Spec

\* The row of a run and its log agree: the parts above, together.
THEOREM RunRowsStaySound == Spec => []RunRowsSound
<1>1. TypeOK /\ OneTerminalEvent /\ NoLiveWorkOnTerminal /\ AtMostOneTicket => RunRowsSound
  BY DEF RunRowsSound
<1> QED BY <1>1, Typing, TerminalOnce, TerminalRunsAreQuiet, TicketsDoNotPile, PTL
=============================================================================
