-------------------------- MODULE RunExecutionProofs --------------------------
(***************************************************************************)
(* What a run executes: the invariants of its graph, its plan and its      *)
(* modules, for every route.                                               *)
(*                                                                         *)
(* None of the properties is inductive by itself.  Strong is: who drives   *)
(* the graph (Driven), which superstep the tasks belong to (Supersteps),   *)
(* where each kind of task may stand (Stations), what the row of a module  *)
(* says of its artifact and its log (Delivery), what is known once a plan  *)
(* is pinned, parked or approved (Planned, Parked, Bound) and what holds   *)
(* between the verification of finalize and its commit (Verified).         *)
(*                                                                         *)
(* On Strong rests what the run promises outside: it implements            *)
(* RunContract, and an open run is never without somebody who takes it on. *)
(* The second needs one more invariant (Attended), about the callers that  *)
(* wait for the thread lock.                                               *)
(***************************************************************************)
EXTENDS RunLifecycleProofs

Open == status \notin Terminal

\* One driver at most holds the thread; nothing of a drive is left without one.
Driven ==
    /\ ~up => \A d \in Drivers : driver[d].st = "idle"
    /\ \A d \in Drivers : driver[d].st = "driving" <=> holder = d
    /\ holder = Nobody => \A n \in GraphNodes : task[n] = "idle"
    /\ holder = Nobody => agentLock = Nobody /\ ~guard
    /\ \A d \in Drivers : driver[d].st # "idle" =>
           driver[d].kind \in (IF d = Api THEN {"start", "resume"} ELSE {"wait", "recover"})
    /\ driver[Api].st # "timer"

\* The tasks at work are those of the superstep that the checkpoint says is next.
Supersteps ==
    /\ \A n \in ck.applied : GraphDeps[n] \subseteq ck.applied
    /\ ck.writes \subseteq Frontier(ck.applied)
    /\ \A n \in GraphNodes : task[n] # "idle" => n \in Frontier(ck.applied)
    /\ \A n \in GraphNodes : task[n] = "written" => n \in ck.writes
    /\ holder # Nobody => \A n \in ck.writes : task[n] = "written"

GateStations == {"idle", "ready", "pausing", "rereading", "checking", "pinning", "returned",
                 "written", "parked", "interrupted", "failed"}
ModuleStations == {"idle", "ready", "queued", "calling", "answered", "committed", "returned",
                   "written", "parked", "interrupted", "failed"}
FinalizeStations == {"idle", "ready", "verified", "refused", "returned", "written", "failed"}
\* Each kind of task stands only where its own code can leave it; the agent lock
\* is held by the module that is out at its provider or has just committed.
Stations ==
    /\ task["gate"] \in GateStations /\ task["finalize"] \in FinalizeStations
    /\ \A m \in Modules : task[m] \in ModuleStations
    /\ \A m \in Modules : task[m] \in {"calling", "answered", "committed"} => agentLock = m
    /\ \A m \in Modules : task[m] = "calling" => inflight

\* The row of a module, its artifacts and its log tell one story.
Delivered(m) ==
    /\ artifacts[m] \in {0, 1} /\ node[m].artifact = artifacts[m]
    /\ nodeLog[m].succeeded = artifacts[m]
    /\ nodeLog[m].running \in {0, 1} /\ nodeLog[m].succeeded <= nodeLog[m].running
    /\ node[m].status \in {"absent", "pending"} => nodeLog[m].running = 0
    /\ node[m].status \in {"running", "cancelled", "succeeded"} => nodeLog[m].running = 1
    /\ node[m].status = "succeeded" => artifacts[m] = 1
    /\ artifacts[m] = 1 => node[m].status \in {"succeeded", "failed"}
    /\ node[m].status \in {"failed", "cancelled"} => status = "failed"
    /\ node[m].status = "failed" =>
           /\ task[m] \notin {"ready", "queued", "calling", "answered"}
           /\ holder # Nobody => \E n \in GraphNodes : task[n] = "failed"
    /\ task[m] \in {"queued", "calling", "answered"} => artifacts[m] = 0
    /\ task[m] \in {"calling", "answered"} => nodeLog[m].running = 1
    /\ task[m] = "queued" /\ Open => nodeLog[m].running = 1
Delivery == \A m \in Modules : Delivered(m)

\* Before the pin nothing has started; the checkpointed plan is the pinned one.
Planned ==
    /\ plan = NoPlan => \A m \in Modules :
           /\ node[m].status \in {"absent", "failed"} /\ artifacts[m] = 0 /\ nodeLog[m].running = 0
    /\ plan # NoPlan => \A m \in Modules : node[m].status # "absent"
    /\ status \in {"running", "succeeded"} => plan # NoPlan
    /\ status = "queued" => plan = NoPlan
    /\ task["gate"] \in {"pausing", "rereading", "checking", "pinning", "parked", "interrupted"} =>
           plan = NoPlan
    /\ task["gate"] \in {"checking", "pinning"} => gateView # NoPlan
    /\ task["gate"] = "returned" /\ status # "failed" => plan # NoPlan /\ gateView = plan
    /\ "gate" \in ck.applied \cup ck.writes /\ status # "failed" => plan # NoPlan
    /\ PlanAgreement

Resting(n) == task[n] \in {"parked", "interrupted"}
\* What is known while the run waits for a human.
Parked ==
    /\ plan = NoPlan => research.phase = "brief_locked"
    /\ research.phase # "brief_locked" => Gated # {}
    /\ status = "paused" => plan = NoPlan \/ research.phase = "awaiting_approval"
    /\ status = "queued" => ck.interrupts = {} /\ \A n \in GraphNodes : ~Resting(n)
    /\ \A m \in Modules : Resting(m) /\ status = "running" => research.phase = "approved"

\* A module at work, or delivered, executes the plan that was approved for it,
\* on upstream artifacts that are there.
BoundTo(m) ==
    /\ m \in Gated => research.phase = "approved" /\ research.approved = PlanHash(m)
    /\ \A d \in Deps[m] : artifacts[d] = 1
Bound ==
    \A m \in Modules :
        \/ node[m].status \in {"running", "succeeded"}
        \/ task[m] \in {"queued", "calling", "answered"}
        => BoundTo(m)

Succeeded == \A m \in Modules : node[m].status = "succeeded"
\* Between its verification and its commit finalize holds the authority lock,
\* and what it verified stays true; behind its commit the run has ended.
Verified ==
    /\ task["finalize"] \in {"verified", "refused"} => guard
    /\ task["finalize"] = "verified" /\ Open => status = "running" /\ Live(plan) /\ Succeeded
    /\ task["finalize"] \in {"returned", "written"} => ~Open
    /\ "finalize" \in ck.applied \cup ck.writes => ~Open

Strong == Driven /\ Supersteps /\ Stations /\ Delivery /\ Planned /\ Parked /\ Bound /\ Verified

-----------------------------------------------------------------------------
(* The graph of a route, from RouteAssumption alone.                       *)

Closed(done) == \A n \in done : GraphDeps[n] \subseteq done

\* What a node of the graph waits for.
LEMMA Waiting ==
    /\ GraphDeps["gate"] = {} /\ GraphDeps["finalize"] = Sinks
    /\ \A m \in Modules : GraphDeps[m] = IF Deps[m] = {} THEN {"gate"} ELSE Deps[m]
    /\ Sinks \subseteq Modules /\ Sinks # {}
    /\ "gate" \notin Modules /\ "finalize" \notin Modules
<1>1. "gate" \notin Modules /\ "finalize" \notin Modules
  BY ModulesAssumption
<1>2. PICK m \in Modules : \A n \in Modules : m \notin Deps[n]
  BY RouteAssumption
<1>3. m \in Sinks
  BY <1>2 DEF Sinks
<1> QED BY <1>1, <1>3 DEF GraphDeps, GraphNodes, Sinks

\* Nothing is applied before the gate.
LEMMA GateFirst ==
    ASSUME NEW done \in SUBSET GraphNodes, Closed(done), done # {}
    PROVE  "gate" \in done
<1> DEFINE part == done \cap Modules
<1>1. CASE part # {}
  <2>1. PICK m \in part : Deps[m] \cap part = {}
    BY <1>1, RouteAssumption
  <2>2. GraphDeps[m] \subseteq done
    BY <2>1 DEF Closed
  <2>3. CASE Deps[m] = {}
    BY <2>2, <2>3, Waiting
  <2>4. CASE Deps[m] # {}
    <3>1. Deps[m] \subseteq done /\ Deps[m] \subseteq Modules
      BY <2>2, <2>4, Waiting, ModulesAssumption
    <3> QED BY <2>1, <2>4, <3>1
  <2> QED BY <2>3, <2>4
<1>2. CASE part = {} /\ "finalize" \in done
  <2>1. Sinks \subseteq done
    BY <1>2, Waiting DEF Closed
  <2> QED BY <1>2, <2>1, Waiting
<1>3. CASE part = {} /\ "finalize" \notin done
  BY <1>3 DEF GraphNodes
<1> QED BY <1>1, <1>2, <1>3

\* Behind the sinks everything is applied.
LEMMA SinksLast ==
    ASSUME NEW done \in SUBSET GraphNodes, Closed(done), Sinks \subseteq done
    PROVE  Modules \cup {"gate"} \subseteq done
<1> DEFINE part == Modules \ done
<1>1. part = {}
  <2> SUFFICES ASSUME part # {} PROVE FALSE
    OBVIOUS
  <2>1. PICK m \in part : \A n \in part : m \notin Deps[n]
    BY RouteAssumption
  <2>2. PICK n \in Modules : m \in Deps[n]
    BY <2>1 DEF Sinks
  <2>3. GraphDeps[n] \subseteq done
    BY <2>1, <2>2 DEF Closed
  <2> QED BY <2>1, <2>2, <2>3, Waiting
<1>2. "gate" \in done
  BY GateFirst, Waiting
<1> QED BY <1>1, <1>2

\* A graph with nothing left to run has run finalize.
LEMMA NothingLeft ==
    ASSUME NEW done \in SUBSET GraphNodes, Closed(done), Frontier(done) = {}
    PROVE  "finalize" \in done
<1> SUFFICES ASSUME "finalize" \notin done PROVE FALSE
  OBVIOUS
<1>1. "gate" \in done
  BY Waiting, NodesAreTasks DEF Frontier
<1>2. ~(Sinks \subseteq done)
  BY Waiting, NodesAreTasks DEF Frontier
<1> DEFINE part == Modules \ done
<1>3. part # {}
  BY <1>2, Waiting
<1>4. PICK m \in part : Deps[m] \cap part = {}
  BY <1>3, RouteAssumption
<1>5. Deps[m] \subseteq done
  BY <1>4, ModulesAssumption
<1>6. GraphDeps[m] \subseteq done
  BY <1>1, <1>4, <1>5, Waiting
<1> QED BY <1>4, <1>6, NodesAreTasks DEF Frontier

\* The gate is a superstep of its own, and the first.
LEMMA GateAlone ==
    ASSUME TypeOK, Supersteps, task["gate"] # "idle"
    PROVE  ck.applied = {} /\ \A n \in GraphNodes \ {"gate"} : task[n] = "idle"
<1>0. ck.applied \in SUBSET GraphNodes /\ Closed(ck.applied)
  BY DEF TypeOK, ThreadTypeOK, Supersteps, Closed
<1>1. ck.applied = {}
  BY <1>0, GateFirst, NodesAreTasks DEF Supersteps, Frontier
<1>2. \A n \in Frontier({}) : n = "gate"
  BY Waiting DEF Frontier, GraphNodes
<1> QED BY <1>1, <1>2 DEF Supersteps

\* Behind the gate, the gate has been applied and rests.
LEMMA GateBehind ==
    ASSUME TypeOK, Supersteps, NEW n \in GraphNodes \ {"gate"}, task[n] # "idle"
    PROVE  "gate" \in ck.applied /\ task["gate"] = "idle"
<1>0. ck.applied \in SUBSET GraphNodes /\ Closed(ck.applied)
  BY DEF TypeOK, ThreadTypeOK, Supersteps, Closed
<1>1. n \in Frontier(ck.applied) /\ GraphDeps[n] # {}
  BY Waiting DEF Supersteps, GraphNodes
<1>2. "gate" \in ck.applied
  BY <1>0, <1>1, GateFirst DEF Frontier
<1> QED BY <1>2, NodesAreTasks DEF Supersteps, Frontier

\* finalize is a superstep of its own, and the last.
LEMMA FinalizeAlone ==
    ASSUME TypeOK, Supersteps, task["finalize"] # "idle"
    PROVE  /\ Modules \cup {"gate"} \subseteq ck.applied
           /\ \A n \in GraphNodes \ {"finalize"} : task[n] = "idle"
<1>0. ck.applied \in SUBSET GraphNodes /\ Closed(ck.applied)
  BY DEF TypeOK, ThreadTypeOK, Supersteps, Closed
<1>1. Sinks \subseteq ck.applied
  BY Waiting, NodesAreTasks DEF Supersteps, Frontier
<1>2. Modules \cup {"gate"} \subseteq ck.applied
  BY <1>0, <1>1, SinksLast
<1> QED BY <1>2 DEF Supersteps, Frontier, GraphNodes

-----------------------------------------------------------------------------
(* What a step is.  Twenty of the actions leave the tasks alone or end the *)
(* drive they belong to; Aside and DriveOver stand for them below.         *)

NextThread == [ck EXCEPT !.applied = @ \cup ck.writes, !.writes = {}, !.interrupts = {}]

\* A drive takes the thread lock and enters the graph where the checkpoint left it.
Launch ==
    /\ holder = Nobody /\ holder' # Nobody /\ Open
    /\ ck' = [ck EXCEPT !.created = TRUE]
    /\ task' = [n \in GraphNodes |->
                  IF n \in ck.writes THEN "written"
                  ELSE IF n \in Frontier(ck.applied) THEN "ready" ELSE "idle"]
    /\ UNCHANGED <<storeVars, caseVars, gateView, agentLock, guard>>

\* The superstep is complete and the next one starts.
Onward ==
    /\ holder # Nobody /\ StepComplete
    /\ ck' = NextThread
    /\ task' = [n \in GraphNodes |->
                  IF n \in Frontier(ck.applied \cup ck.writes) THEN "ready" ELSE "idle"]
    /\ UNCHANGED <<storeVars, caseVars, holder, gateView, credit, agentLock, guard>>

\* The drive is over, whatever ended it; its run may have been failed with it.
DriveOver ==
    /\ holder' = Nobody /\ task' = [n \in GraphNodes |-> "idle"]
    /\ agentLock' = Nobody /\ guard' = FALSE
    /\ UNCHANGED <<research, inflight, caseVars>>
    /\ UNCHANGED runVars \/ \E code \in RunErrors : FinalizeFailure(code, Nobody)
    /\ \/ ck' = ck \/ ck' = NoThread
       \/ holder # Nobody /\ StepComplete /\ ck' = NextThread

\* Something happens beside the drive, or before one.
Aside ==
    /\ UNCHANGED <<research, inflight, driveVars>>
    /\ UNCHANGED runVars \/ ConsumeTicket \/ \E code \in RunErrors : FinalizeFailure(code, Nobody)
    /\ ck' = ck \/ ck' = DeletedThread \/ (holder = Nobody /\ ck' = NoThread)
    /\ guard => UNCHANGED withdrawn

\* What the thread says, in each of the states a step may leave it in.
LEMMA Threads ==
    ASSUME TypeOK
    PROVE  /\ NextThread.applied = ck.applied \cup ck.writes /\ NextThread.writes = {}
           /\ NextThread.interrupts = {} /\ NextThread.plan = ck.plan
           /\ NextThread.created = ck.created
           /\ [ck EXCEPT !.created = TRUE].applied = ck.applied
           /\ [ck EXCEPT !.created = TRUE].writes = ck.writes
           /\ [ck EXCEPT !.created = TRUE].plan = ck.plan
           /\ [ck EXCEPT !.created = TRUE].interrupts = ck.interrupts
           /\ NoThread.applied = {} /\ NoThread.writes = {} /\ NoThread.plan = NoPlan
           /\ NoThread.interrupts = {}
           /\ DeletedThread = NoThread \/
                 /\ DeletedThread.applied = ck.applied /\ DeletedThread.writes = ck.writes
                 /\ DeletedThread.plan = ck.plan /\ DeletedThread.interrupts = ck.interrupts
<1>1. ck \in [created : BOOLEAN, applied : SUBSET GraphNodes, writes : SUBSET GraphNodes,
              interrupts : SUBSET GraphNodes, plan : SUBSET Sources]
  BY DEF TypeOK, ThreadTypeOK
<1> QED BY <1>1 DEF NextThread, NoThread, DeletedThread

\* A stopped process drives nothing.
LEMMA DownHoldsNothing ==
    ASSUME TypeOK, Driven, ~up
    PROVE  holder = Nobody
BY DEF TypeOK, DriveTypeOK, Driven

\* A complete superstep leads to the next one or ends the drive.
LEMMA Advancing ==
    ASSUME NEW d \in Drivers, AdvanceStep(d)
    PROVE  (Onward /\ UNCHANGED driver) \/ (DriveOver /\ EndDrive(d))
<1>1. Nobody \notin Drivers
  BY DriversAssumption DEF Drivers
<1> QED BY <1>1 DEF AdvanceStep, Onward, DriveOver, EndDrive, InDrive, NextThread, storeVars

\* The steps that end a drive of d, or find that there is nothing to drive.
Ending(d) ==
    \/ DriveTerminal(d) \/ ParkDrive(d) \/ AbortDrive(d)
    \/ ResumeWithoutThread(d) \/ GatePauseRefused(d) \/ DriveFault(d)

\* They end it with a return or with a raise.
LEMMA Endings ==
    ASSUME NEW d \in Drivers, Ending(d)
    PROVE  DriveOver /\ (EndDrive(d) \/ AfterRaise(d))
<1>1. CASE DriveTerminal(d) \/ ParkDrive(d)
  BY <1>1 DEF DriveTerminal, ParkDrive, DriveOver, EndDrive, storeVars
<1>2. CASE AbortDrive(d)
  BY <1>2 DEF AbortDrive, DriveOver, EndDrive, RunErrors
<1>3. CASE ResumeWithoutThread(d) \/ GatePauseRefused(d) \/ DriveFault(d)
  BY <1>3 DEF ResumeWithoutThread, GatePauseRefused, DriveFault, RaiseFromDrive, AfterRaise,
              DriveOver, RunErrors
<1> QED BY <1>1, <1>2, <1>3 DEF Ending

\* Every step is one of these.
LEMMA Steps ==
    ASSUME TypeOK, Driven, [Next]_vars
    PROVE  \/ GateStep \/ FinalizeStep \/ (\E m \in Modules : ModuleStep(m))
           \/ (\E n \in GraphNodes : PersistTask(n))
           \/ Launch \/ Onward \/ DriveOver \/ Approve \/ Aside
<1>0. Nobody \notin Drivers
  BY DriversAssumption DEF Drivers
<1>1. ASSUME NEW d \in Drivers, DriverStep(d)
      PROVE  Launch \/ Onward \/ DriveOver \/ Aside
  <2>1. CASE BeginDrive(d) \/ TimerFires(d)
    <3>1. UNCHANGED <<research, inflight, driveVars, withdrawn>>
      BY <2>1 DEF BeginDrive, TimerFires, storeVars, caseVars
    <3>2. \/ UNCHANGED <<runVars, ck>>
          \/ FinalizeFailure("AGENT_QUALIFICATION_EXPIRED", Nobody) /\ ck' = DeletedThread
      BY <2>1 DEF BeginDrive, TimerFires, IdentityFailure, storeVars
    <3> QED BY <3>1, <3>2 DEF Aside, RunErrors
  <2>2. CASE AcquireThread(d)
    BY <1>0, <2>2 DEF AcquireThread, Launch, Open
  <2> QED BY <1>1, <2>1, <2>2, Advancing, Endings DEF DriverStep, Ending
<1>2. CASE Client
  <2>1. CASE ResumeExpired
    BY <2>1 DEF ResumeExpired, IdentityFailure, Aside, RunErrors, caseVars
  <2>2. CASE Resume
    BY <2>2 DEF Resume, Aside, caseVars
  <2>3. CASE \E s \in Sources : Ingest(s) \/ Withdraw(s)
    BY <2>3 DEF Ingest, Withdraw, Aside, storeVars, procVars
  <2> QED BY <1>2, <2>1, <2>2, <2>3 DEF Client
<1>3. CASE Fault
  <2>1. ASSUME NEW d \in Drivers, DriveFault(d)
        PROVE  DriveOver
    BY <2>1, Endings DEF Ending
  <2>2. ASSUME NEW d \in Drivers, PreLockFault(d)
        PROVE  Aside
    BY <2>2 DEF PreLockFault, AfterRaise, Aside, RunErrors, caseVars
  <2>3. CASE Expire \/ \E d \in Drivers : TimerFault(d)
    BY <2>3 DEF Expire, TimerFault, Aside, storeVars, procVars, caseVars
  <2>4. CASE Crash
    BY <2>4 DEF Crash, DriveOver, storeVars
  <2> QED BY <1>3, <2>1, <2>2, <2>3, <2>4 DEF Fault
<1>4. CASE Restart
  <2>1. holder = Nobody
    BY <1>4, DownHoldsNothing DEF Restart
  <2> QED BY <1>4, <2>1 DEF Restart, IdentityFailure, Aside, RunErrors, caseVars
<1>5. CASE UNCHANGED vars
  BY <1>5 DEF vars, storeVars, procVars, caseVars, Aside
<1> QED BY <1>1, <1>2, <1>3, <1>4, <1>5 DEF Next

-----------------------------------------------------------------------------
(* Who drives.                                                             *)

\* A task at work has a drive that holds its thread.
LEMMA WorkIsHeld ==
    ASSUME TypeOK, Driven, NEW n \in GraphNodes, task[n] # "idle"
    PROVE  holder \in Drivers /\ driver[holder].st = "driving"
BY DEF TypeOK, DriveTypeOK, Driven

\* A step inside a task leaves the drivers and their lock alone.
LEMMA DrivenInside ==
    ASSUME TypeOK, Driven, UNCHANGED <<up, driver, holder>>, NEW n \in GraphNodes, task[n] # "idle"
    PROVE  Driven'
<1>1. holder \in Drivers /\ Nobody \notin Drivers
  BY WorkIsHeld, DriversAssumption DEF Drivers
<1> QED BY <1>1 DEF Driven

\* A step that only moves the state of drivers away from the thread lock keeps
\* Driven, when no driver becomes what its caller cannot be.
LEMMA DrivenBeside ==
    ASSUME TypeOK, Driven, UNCHANGED driveVars, driver' \in [Drivers -> DriverState],
           ~up' => \A d \in Drivers : driver'[d].st = "idle",
           \A d \in Drivers : driver'[d] # driver[d] =>
               /\ holder # d /\ driver'[d].st # "driving"
               /\ driver'[d].st # "idle" =>
                      driver'[d].kind \in (IF d = Api THEN {"start", "resume"} ELSE {"wait", "recover"})
               /\ d = Api => driver'[d].st # "timer"
    PROVE  Driven'
<1>1. Api \in Drivers
  BY DEF Drivers
<1> QED BY <1>1 DEF Driven, driveVars

\* The drive is over: nobody drives on, and one continuation may be waiting.
LEMMA DrivenOver ==
    ASSUME TypeOK, Driven, DriveOver, driver' \in [Drivers -> DriverState],
           ~up' => \A d \in Drivers : driver'[d].st = "idle",
           \A d \in Drivers : \/ driver'[d].st = "idle"
                              \/ driver'[d] = driver[d] /\ holder # d
                              \/ d # Api /\ driver'[d].st \in {"ready", "timer"}
                                 /\ driver'[d].kind \in {"wait", "recover"}
    PROVE  Driven'
<1>1. Api \in Drivers /\ Nobody \notin Drivers
  BY DriversAssumption DEF Drivers
<1> QED BY <1>1 DEF Driven, DriveOver

\* What EndDrive leaves of the drivers.
LEMMA EndDriveDrivers ==
    ASSUME TypeOK, Driven, NEW d \in Drivers, holder \in {d, Nobody}, EndDrive(d)
    PROVE  \A x \in Drivers : \/ driver'[x].st = "idle"
                              \/ driver'[x] = driver[x] /\ holder # x
                              \/ x # Api /\ driver'[x].st \in {"ready", "timer"}
                                 /\ driver'[x].kind \in {"wait", "recover"}
<1>0. Nobody \notin Drivers /\ Api \notin Conts /\ Conts \subseteq Drivers /\ Idle.st = "idle"
  BY DriversAssumption DEF Drivers, Idle
<1>1. driver \in [Drivers -> DriverState]
  BY DEF TypeOK, DriverTypeOK
<1>2. CASE driver' = [driver EXCEPT ![d] = Idle]
  BY <1>0, <1>1, <1>2
<1>3. ASSUME NEW c \in Conts,
             driver' = [[driver EXCEPT ![d] = Idle] EXCEPT
                            ![c] = [st |-> "ready", kind |-> "wait", attempt |-> 0]]
      PROVE  \A x \in Drivers : \/ driver'[x].st = "idle"
                                \/ driver'[x] = driver[x] /\ holder # x
                                \/ x # Api /\ driver'[x].st \in {"ready", "timer"}
                                   /\ driver'[x].kind \in {"wait", "recover"}
  BY <1>0, <1>1, <1>3
<1> QED BY <1>2, <1>3 DEF EndDrive, WithContinuation

\* What a raise leaves of the drivers.
LEMMA AfterRaiseDrivers ==
    ASSUME TypeOK, Driven, NEW d \in Drivers, holder \in {d, Nobody}, AfterRaise(d),
           driver[d].st # "idle"
    PROVE  \A x \in Drivers : \/ driver'[x].st = "idle"
                              \/ driver'[x] = driver[x] /\ holder # x
                              \/ x # Api /\ driver'[x].st \in {"ready", "timer"}
                                 /\ driver'[x].kind \in {"wait", "recover"}
<1>0. Nobody \notin Drivers /\ Idle.st = "idle"
  BY DriversAssumption DEF Drivers, Idle
<1>1. driver \in [Drivers -> DriverState]
  BY DEF TypeOK, DriverTypeOK
<1> QED BY <1>0, <1>1 DEF AfterRaise, Driven, DriverState

\* One driver at most holds the thread, after any step.
LEMMA DrivenStep ==
    ASSUME TypeOK, Driven, [Next]_vars
    PROVE  Driven'
<1> USE NodesAreTasks
<1>0. /\ Nobody \notin Drivers /\ Api \in Drivers /\ Api \notin Conts /\ Conts \subseteq Drivers
      /\ Idle.st = "idle" /\ driver \in [Drivers -> DriverState] /\ driver' \in [Drivers -> DriverState]
  BY DriversAssumption, TypingStep DEF Drivers, Idle, TypeOK, DriverTypeOK
<1>1. ASSUME GateStep \/ FinalizeStep \/ (\E m \in Modules : ModuleStep(m))
                \/ (\E n \in GraphNodes : PersistTask(n))
      PROVE  Driven'
  <2>1. CASE GateStep
    BY <2>1, DrivenInside DEF GateStep, GateEnter, GatePause, GateReread, GateCheck, GatePin, others
  <2>2. CASE FinalizeStep
    BY <2>2, DrivenInside DEF FinalizeStep, FinalizeVerify, FinalizeCommit, FinalizeRefuse, others
  <2>3. ASSUME NEW m \in Modules, ModuleStep(m)
        PROVE  Driven'
    BY <2>3, DrivenInside DEF ModuleStep, ModuleRefused, ReuseRefused, ProposePlan, RelinkModule,
       StartModule, EnterAgent, EnterAgentRefused, AgentAnswers, AgentFails, FinishModule,
       ChargeCompletion, others
  <2>4. ASSUME NEW n \in GraphNodes, PersistTask(n)
        PROVE  Driven'
    BY <2>4, DrivenInside DEF PersistTask
  <2> QED BY <1>1, <2>1, <2>2, <2>3, <2>4
<1>2. ASSUME NEW d \in Drivers, BeginDrive(d) \/ TimerFires(d) \/ PreLockFault(d) \/ TimerFault(d)
      PROVE  Driven'
  <2>1. holder # d /\ up /\ up' = up /\ UNCHANGED driveVars /\ driver[d].st \notin {"idle", "driving"}
    BY <1>0, <1>2 DEF BeginDrive, TimerFires, PreLockFault, TimerFault, Driven
  <2>2. \A x \in Drivers : driver'[x] # driver[x] =>
            x = d /\ (\/ driver'[x].st = "idle"
                      \/ driver'[x].kind = driver[x].kind /\ driver'[x].st \in {"ready", "locking"}
                      \/ d # Api /\ driver'[x].kind = driver[x].kind /\ driver'[x].st = "timer")
    BY <1>0, <1>2 DEF BeginDrive, TimerFires, PreLockFault, TimerFault, AfterRaise, DriverState
  <2> QED BY <1>0, <2>1, <2>2, DrivenBeside DEF Driven
<1>3. ASSUME NEW d \in Drivers, AcquireThread(d)
      PROVE  Driven'
  BY <1>0, <1>3 DEF AcquireThread, Driven, DriverState
<1>4. ASSUME NEW d \in Drivers, AdvanceStep(d) \/ Ending(d)
      PROVE  Driven'
  <2>1. up /\ up' = up /\ holder \in {d, Nobody} /\ driver[d].st # "idle"
    BY <1>4 DEF Ending, AdvanceStep, DriveTerminal, ParkDrive, AbortDrive, ResumeWithoutThread,
       GatePauseRefused, DriveFault, InDrive
  <2>2. CASE Onward /\ UNCHANGED driver
    <3>1. UNCHANGED <<up, driver, holder, agentLock, guard>> /\ holder # Nobody
      BY <2>1, <2>2 DEF Onward
    <3> QED BY <3>1 DEF Driven
  <2>3. CASE DriveOver /\ (EndDrive(d) \/ AfterRaise(d))
    BY <1>0, <2>1, <2>3, EndDriveDrivers, AfterRaiseDrivers, DrivenOver
  <2> QED BY <1>4, <2>2, <2>3, Advancing, Endings
<1>5. CASE Client
  <2>1. CASE \E s \in Sources : Ingest(s) \/ Withdraw(s)
    BY <2>1 DEF Ingest, Withdraw, procVars, driveVars, Driven
  <2>2. CASE ResumeExpired
    BY <2>2 DEF ResumeExpired, driveVars, Driven
  <2>3. CASE Resume
    <3>1. \A x \in Drivers : driver'[x] # driver[x] =>
              x = Api /\ driver'[x].st = "locking" /\ driver'[x].kind = "resume"
      BY <1>0, <2>3 DEF Resume
    <3>2. up /\ up' = up /\ UNCHANGED driveVars /\ holder = Nobody
      BY <2>3 DEF Resume
    <3> QED BY <1>0, <3>1, <3>2, DrivenBeside
  <2>4. CASE Approve
    <3>1. PICK c \in {x \in Conts : driver[x].st = "idle"} :
              driver' = [driver EXCEPT ![c] = [st |-> "ready", kind |-> "wait", attempt |-> 0]]
      BY <2>4 DEF Approve, Approved, WithContinuation
    <3>2. holder # c
      BY <1>0, <3>1 DEF Driven
    <3>3. \A x \in Drivers : driver'[x] # driver[x] =>
              x = c /\ driver'[x].st = "ready" /\ driver'[x].kind = "wait"
      BY <1>0, <3>1
    <3>4. up /\ up' = up /\ UNCHANGED driveVars
      BY <2>4 DEF Approve
    <3> QED BY <1>0, <3>1, <3>2, <3>3, <3>4, DrivenBeside
  <2> QED BY <1>5, <2>1, <2>2, <2>3, <2>4 DEF Client
<1>6. CASE Crash
  BY <1>0, <1>6 DEF Crash, Driven
<1>7. CASE Expire \/ UNCHANGED vars
  BY <1>7 DEF Expire, vars, procVars, driveVars, Driven
<1>8. CASE Restart
  <2>1. holder = Nobody /\ UNCHANGED driveVars /\ up'
    BY <1>8, DownHoldsNothing DEF Restart
  <2>2. \A x \in Drivers : driver'[x] # driver[x] =>
            x # Api /\ driver'[x].st = "ready" /\ driver'[x].kind = "recover"
    BY <1>0, <1>8 DEF Restart
  <2> QED BY <1>0, <2>1, <2>2, DrivenBeside
<1> QED BY <1>1, <1>2, <1>3, <1>4, <1>5, <1>6, <1>7, <1>8 DEF Next, DriverStep, Fault, Ending

-----------------------------------------------------------------------------
(* Which superstep, and where its tasks stand.                             *)

\* The task of n works: it moves within its stations and leaves the graph alone.
Works(n, stations) ==
    /\ UNCHANGED others
    /\ task[n] \notin {"idle", "written"}
    /\ \E v \in stations \ {"idle", "written"} : task' = [task EXCEPT ![n] = v]

\* Every step of a task's own code is of this kind.
LEMMA Working ==
    ASSUME TypeOK
    PROVE  /\ GateStep => Works("gate", GateStations)
           /\ FinalizeStep => Works("finalize", FinalizeStations)
           /\ \A m \in Modules : ModuleStep(m) => Works(m, ModuleStations)
<1>1. GateStep => Works("gate", GateStations)
  BY DEF GateStep, GateEnter, GatePause, GateReread, GateCheck, GatePin, Works, GateStations
<1>2. FinalizeStep => Works("finalize", FinalizeStations)
  BY DEF FinalizeStep, FinalizeVerify, FinalizeCommit, FinalizeRefuse, Works, FinalizeStations
<1>3. ASSUME NEW m \in Modules, ModuleStep(m)
      PROVE  Works(m, ModuleStations)
  <2>1. UNCHANGED others
    BY <1>3 DEF ModuleStep, ModuleRefused, ReuseRefused, ProposePlan, RelinkModule,
       StartModule, EnterAgent, EnterAgentRefused, AgentAnswers, AgentFails, FinishModule,
       ChargeCompletion
  <2>2. task[m] \in {"ready", "queued", "calling", "answered", "committed"}
    BY <1>3 DEF ModuleStep, ModuleRefused, ReuseRefused, ProposePlan, RelinkModule,
       StartModule, EnterAgent, EnterAgentRefused, AgentAnswers, AgentFails, FinishModule,
       ChargeCompletion
  <2>3. \E v \in {"failed", "parked", "returned", "queued", "calling", "answered", "committed"} :
            task' = [task EXCEPT ![m] = v]
    BY <1>3 DEF ModuleStep, ModuleRefused, ReuseRefused, ProposePlan, RelinkModule,
       StartModule, EnterAgent, EnterAgentRefused, AgentAnswers, AgentFails, FinishModule,
       ChargeCompletion, FailModule
  <2> QED BY <2>1, <2>2, <2>3 DEF Works, ModuleStations
<1> QED BY <1>1, <1>2, <1>3

\* The tasks at work stay those of the superstep that the checkpoint says is next.
LEMMA SuperstepsStep ==
    ASSUME TypeOK, Driven, Supersteps, [Next]_vars
    PROVE  Supersteps'
<1>0. /\ task \in [GraphNodes -> TaskState] /\ ck.writes \subseteq GraphNodes
      /\ ck \in [created : BOOLEAN, applied : SUBSET GraphNodes, writes : SUBSET GraphNodes,
                 interrupts : SUBSET GraphNodes, plan : SUBSET Sources]
  BY DEF TypeOK, DriveTypeOK, ThreadTypeOK
<1>1. ASSUME NEW n \in GraphNodes, NEW stations, Works(n, stations)
      PROVE  Supersteps'
  BY <1>0, <1>1 DEF Works, Supersteps, others, Frontier
<1>2. ASSUME NEW n \in GraphNodes, PersistTask(n)
      PROVE  Supersteps'
  <2>1. n \in Frontier(ck.applied) /\ ck'.applied = ck.applied /\ holder' = holder
        /\ task[n] \in {"returned", "parked"}
        /\ task' = [task EXCEPT ![n] = IF @ = "returned" THEN "written" ELSE "interrupted"]
        /\ ck'.writes = IF task[n] = "returned" THEN ck.writes \cup {n} ELSE ck.writes
    BY <1>0, <1>2 DEF PersistTask, Supersteps
  <2>2. \A k \in GraphNodes : task'[k] = IF k # n THEN task[k]
                              ELSE IF task[n] = "returned" THEN "written" ELSE "interrupted"
    BY <1>0, <2>1
  <2>3. (\A k \in ck'.applied : GraphDeps[k] \subseteq ck'.applied)
        /\ ck'.writes \subseteq Frontier(ck'.applied)
    BY <2>1 DEF Supersteps
  <2>4. \A k \in GraphNodes : /\ task'[k] # "idle" => k \in Frontier(ck'.applied)
                              /\ task'[k] = "written" => k \in ck'.writes
    BY <2>1, <2>2 DEF Supersteps
  <2>5. ASSUME holder # Nobody, NEW k \in ck'.writes PROVE task'[k] = "written"
    BY <1>0, <2>1, <2>2, <2>5 DEF Supersteps
  <2> QED BY <2>1, <2>3, <2>4, <2>5 DEF Supersteps, Frontier
<1>3. CASE Launch
  <2>1. ck'.applied = ck.applied /\ ck'.writes = ck.writes
    BY <1>0, <1>3 DEF Launch
  <2> QED BY <1>0, <1>3, <2>1 DEF Launch, Supersteps, Frontier
<1>4. CASE Onward
  <2>1. ck'.applied = ck.applied \cup ck.writes /\ ck'.writes = {}
    BY <1>0, <1>4 DEF Onward, NextThread
  <2>2. \A n \in ck'.applied : GraphDeps[n] \subseteq ck'.applied
    BY <2>1 DEF Supersteps, Frontier
  <2> QED BY <1>4, <2>1, <2>2 DEF Onward, Supersteps, Frontier
<1>5. CASE DriveOver
  <2>1. CASE ck' = ck
    BY <1>5, <2>1 DEF DriveOver, Supersteps, Frontier
  <2>2. CASE ck' = NoThread
    BY <1>5, <2>2 DEF DriveOver, Supersteps, Frontier, NoThread
  <2>3. CASE ck' = NextThread
    <3>1. ck'.applied = ck.applied \cup ck.writes /\ ck'.writes = {}
      BY <1>0, <2>3 DEF NextThread
    <3> QED BY <1>5, <3>1 DEF DriveOver, Supersteps, Frontier
  <2> QED BY <1>5, <2>1, <2>2, <2>3 DEF DriveOver
<1>6. CASE Approve
  BY <1>6 DEF Approve, driveVars, Supersteps, Frontier
<1>7. CASE Aside
  <2>1. UNCHANGED <<task, holder>>
    BY <1>7 DEF Aside, driveVars
  <2>2. CASE holder = Nobody /\ ck' = NoThread
    BY <2>1, <2>2 DEF Driven, Supersteps, Frontier, NoThread
  <2>3. CASE ck'.applied = ck.applied /\ ck'.writes = ck.writes
    BY <2>1, <2>3 DEF Supersteps, Frontier
  <2> QED BY <1>0, <1>7, <2>2, <2>3 DEF Aside, DeletedThread
<1> QED BY <1>1, <1>2, <1>3, <1>4, <1>5, <1>6, <1>7, Steps, Working, NodesAreTasks

\* Every task stays where its own code can leave it.
LEMMA StationsStep ==
    ASSUME TypeOK, Driven, Stations, [Next]_vars
    PROVE  Stations'
<1> USE NodesAreTasks
<1>0. /\ task \in [GraphNodes -> TaskState] /\ Nobody \notin Modules
      /\ "gate" \notin Modules /\ "finalize" \notin Modules
  BY ModulesAssumption DEF TypeOK, DriveTypeOK
<1> DEFINE Locked == /\ \A m \in Modules : task[m] \in {"calling", "answered", "committed"} => agentLock = m
                     /\ \A m \in Modules : task[m] = "calling" => inflight
           Placed == /\ task["gate"] \in GateStations /\ task["finalize"] \in FinalizeStations
                     /\ \A m \in Modules : task[m] \in ModuleStations
<1>1. Locked /\ Placed
  BY DEF Stations
<1>2. CASE GateStep
  <2>1. Works("gate", GateStations) /\ UNCHANGED <<agentLock, inflight>>
    BY <1>2, Working DEF GateStep, GateEnter, GatePause, GateReread, GateCheck, GatePin, storeVars
  <2> QED BY <1>0, <1>1, <2>1 DEF Works, Stations
<1>3. CASE FinalizeStep
  <2>1. Works("finalize", FinalizeStations) /\ UNCHANGED <<agentLock, inflight>>
    BY <1>3, Working DEF FinalizeStep, FinalizeVerify, FinalizeCommit, FinalizeRefuse, storeVars
  <2> QED BY <1>0, <1>1, <2>1 DEF Works, Stations
<1>4. ASSUME NEW m \in Modules, ModuleStep(m)
      PROVE  Stations'
  <2>0. Works(m, ModuleStations)
    BY <1>4, Working
  <2>1. Placed'
    BY <1>0, <1>1, <2>0 DEF Works
  <2>2. Locked'
    <3>1. CASE /\ UNCHANGED <<agentLock, inflight>>
               /\ \E v \in ModuleStations \ {"calling", "answered", "committed"} :
                      task' = [task EXCEPT ![m] = v]
      BY <1>0, <1>1, <3>1
    <3>2. CASE EnterAgent(m)
      BY <1>0, <1>1, <3>2 DEF EnterAgent
    <3>3. CASE AgentAnswers(m) \/ FinishModule(m)
      BY <1>0, <1>1, <3>3 DEF AgentAnswers, FinishModule
    <3>4. CASE AgentFails(m) \/ ChargeCompletion(m)
      BY <1>0, <1>1, <3>4 DEF AgentFails, ChargeCompletion, FailModule
    <3> QED BY <1>4, <3>1, <3>2, <3>3, <3>4
            DEF ModuleStep, ModuleRefused, ReuseRefused, ProposePlan, RelinkModule, StartModule,
                EnterAgentRefused, FailModule, ModuleStations
  <2> QED BY <2>1, <2>2 DEF Stations
<1>5. ASSUME NEW n \in GraphNodes, PersistTask(n)
      PROVE  Stations'
  <2>1. UNCHANGED <<agentLock, inflight>>
    BY <1>5 DEF PersistTask, storeVars
  <2>2. \E v \in {"written", "interrupted"} :
            /\ task' = [task EXCEPT ![n] = v]
            /\ task[n] = IF v = "written" THEN "returned" ELSE "parked"
    BY <1>5 DEF PersistTask
  <2> QED BY <1>0, <1>1, <2>1, <2>2 DEF Stations, GateStations, ModuleStations, FinalizeStations
<1>6. CASE Launch \/ Onward \/ DriveOver
  <2>1. \A n \in GraphNodes : task'[n] \in {"idle", "ready", "written"}
    BY <1>6 DEF Launch, Onward, DriveOver
  <2> QED BY <2>1 DEF Stations, GateStations, ModuleStations, FinalizeStations
<1>7. CASE Approve \/ Aside
  BY <1>7 DEF Approve, Aside, driveVars, Stations
<1> QED BY <1>2, <1>3, <1>4, <1>5, <1>6, <1>7, Steps

-----------------------------------------------------------------------------
(* The row of a module, its artifacts and its log.                         *)

\* A store operation that touches no module row, beside tasks that stay or rest.
LEMMA DeliveryFrame ==
    ASSUME TypeOK, Delivery, UNCHANGED <<node, artifacts, nodeLog>>,
           status = "failed" => status' = "failed", Open' => Open,
           \A m \in Modules : task'[m] \in {"ready", "queued", "calling", "answered"} =>
               task'[m] = task[m] \/ (task'[m] = "ready" /\ node[m].status # "failed"),
           holder' # Nobody => \A m \in Modules : node[m].status = "failed" =>
                                   \E n \in GraphNodes : task'[n] = "failed"
    PROVE  Delivery'
BY DEF Delivery, Delivered

\* A failure of the run, blamed on a module or on nobody.
LEMMA DeliveryFailure ==
    ASSUME TypeOK, Delivery, NEW code \in RunErrors, NEW b \in Modules \cup {Nobody},
           FinalizeFailure(code, b), Open,
           \A m \in Modules : task'[m] \in {"queued", "calling", "answered"} => task'[m] = task[m],
           b \in Modules => task'[b] \notin {"ready", "queued", "calling", "answered"},
           b \in Modules => \E n \in GraphNodes : task'[n] = "failed"
    PROVE  Delivery'
<1>0. /\ status' = "failed" /\ UNCHANGED <<artifacts, nodeLog>>
      /\ \A m \in Modules :
             /\ node'[m].artifact = node[m].artifact
             /\ node'[m].status = IF m = b THEN "failed"
                                  ELSE IF node[m].status = "running" THEN "cancelled"
                                  ELSE node[m].status
  BY DEF FinalizeFailure, Open, TypeOK, RunTypeOK
<1>1. /\ nodeLog \in [Modules -> [running : Nat, succeeded : Nat]]
      /\ status # "failed" /\ status' \in Terminal
  BY <1>0 DEF Open, Terminal, TypeOK, RunTypeOK
<1> SUFFICES ASSUME NEW m \in Modules
             PROVE  Delivered(m)'
  BY DEF Delivery
<1>2. Delivered(m)
  BY DEF Delivery
<1> QED BY <1>0, <1>1, <1>2 DEF Delivered, Open

\* The row of every module keeps telling one story.
LEMMA DeliveryStep ==
    ASSUME TypeOK, Driven, Supersteps, Stations, Delivery, Planned, Verified, [Next]_vars
    PROVE  Delivery'
<1> USE NodesAreTasks
<1>0. /\ task \in [GraphNodes -> TaskState] /\ Nobody \notin Modules
      /\ "gate" \notin Modules /\ "finalize" \notin Modules
      /\ node \in [Modules -> [status : NodeStatus, artifact : Nat]]
      /\ artifacts \in [Modules -> Nat]
      /\ nodeLog \in [Modules -> [running : Nat, succeeded : Nat]]
  BY ModulesAssumption DEF TypeOK, RunTypeOK, DriveTypeOK
<1>1. ASSUME UNCHANGED <<node, artifacts, nodeLog, holder>>, NEW n \in GraphNodes, NEW v \in TaskState,
             task' = [task EXCEPT ![n] = v], v \notin {"idle", "ready", "queued", "calling", "answered"},
             task[n] # "failed", status = "failed" => status' = "failed", Open' => Open
      PROVE  Delivery'
  BY <1>0, <1>1, DeliveryFrame DEF Delivery, Delivered
<1>2. CASE GateStep
  <2>1. CASE GatePin
    <3>1. /\ task' = [task EXCEPT !["gate"] = "returned"] /\ task["gate"] = "pinning"
          /\ UNCHANGED holder /\ PinPlan(gateView)
      BY <2>1 DEF GatePin, others
    <3>2. plan = NoPlan /\ \A m \in Modules : task'[m] = "idle"
      BY <1>0, <3>1, GateAlone DEF Planned
    <3>3. CASE Open
      <4>1. /\ status' = "running" /\ UNCHANGED <<artifacts, nodeLog>>
            /\ node' = [m \in Modules |-> [status |-> "pending", artifact |-> 0]]
        BY <3>1, <3>2, <3>3 DEF PinPlan, Open
      <4> SUFFICES ASSUME NEW m \in Modules PROVE Delivered(m)'
        BY DEF Delivery
      <4> QED BY <1>0, <3>2, <4>1 DEF Planned, Delivered, Delivery
    <3>4. CASE ~Open
      <4>1. UNCHANGED runVars
        BY <3>1, <3>2, <3>4 DEF PinPlan, Open
      <4> QED BY <1>0, <1>1, <3>1, <4>1 DEF runVars, Open, TaskState
    <3> QED BY <3>3, <3>4
  <2>2. CASE GateEnter \/ GatePause \/ GateReread \/ GateCheck
    <3>1. /\ UNCHANGED <<node, artifacts, nodeLog, holder>>
          /\ status' = status \/ (Open /\ status' = "paused")
      BY <2>2 DEF GateEnter, GatePause, GateReread, GateCheck, Pause, Open, storeVars, runVars, others
    <3>2. \E v \in TaskState : /\ task' = [task EXCEPT !["gate"] = v]
                               /\ v \notin {"idle", "ready", "queued", "calling", "answered"}
      BY <2>2 DEF GateEnter, GatePause, GateReread, GateCheck, TaskState
    <3>3. task["gate"] # "failed"
      BY <2>2 DEF GateEnter, GatePause, GateReread, GateCheck
    <3> QED BY <1>1, <3>1, <3>2, <3>3 DEF Open, Terminal
  <2> QED BY <1>2, <2>1, <2>2 DEF GateStep
<1>3. CASE FinalizeStep
  <2>1. CASE FinalizeVerify \/ FinalizeCommit
    <3>1. /\ UNCHANGED <<node, artifacts, nodeLog, holder>>
          /\ status' = status \/ (status = "running" /\ status' = "succeeded")
      BY <2>1 DEF FinalizeVerify, FinalizeCommit, FinalizeSuccess, storeVars, runVars, others
    <3>2. \E v \in TaskState : /\ task' = [task EXCEPT !["finalize"] = v]
                               /\ v \notin {"idle", "ready", "queued", "calling", "answered"}
      BY <2>1 DEF FinalizeVerify, FinalizeCommit, TaskState
    <3>3. task["finalize"] # "failed"
      BY <2>1 DEF FinalizeVerify, FinalizeCommit
    <3> QED BY <1>1, <3>1, <3>2, <3>3 DEF Open, Terminal
  <2>2. CASE FinalizeRefuse
    <3>1. /\ task' = [task EXCEPT !["finalize"] = "failed"] /\ task["finalize"] = "refused"
          /\ UNCHANGED holder
          /\ \E b \in Modules \cup {Nobody} : FinalizeFailure("RUN_NOT_READY", b)
      BY <2>2 DEF FinalizeRefuse, others
    <3>2. CASE Open
      <4>1. \A m \in Modules : task'[m] = "idle"
        BY <1>0, <3>1, FinalizeAlone
      <4>2. task'["finalize"] = "failed" /\ "RUN_NOT_READY" \in RunErrors
        BY <1>0, <3>1 DEF RunErrors
      <4> QED BY <3>1, <3>2, <4>1, <4>2, DeliveryFailure
    <3>3. CASE ~Open
      <4>1. UNCHANGED runVars
        BY <3>1, <3>3 DEF FinalizeFailure, Open
      <4> QED BY <1>1, <3>1, <4>1 DEF runVars, TaskState, Open
    <3> QED BY <3>2, <3>3
  <2> QED BY <1>3, <2>1, <2>2 DEF FinalizeStep
<1>4. ASSUME NEW m \in Modules, ModuleStep(m)
      PROVE  Delivery'
  <2>0. /\ holder' = holder /\ holder # Nobody /\ task[m] \notin {"idle", "failed", "written"}
        /\ Delivered(m)
    BY <1>4, WorkIsHeld, DriversAssumption
       DEF Drivers, Delivery, ModuleStep, ModuleRefused, ReuseRefused, ProposePlan, RelinkModule,
           StartModule, EnterAgent, EnterAgentRefused, AgentAnswers, AgentFails, FinishModule,
           ChargeCompletion, others
  <2>1. ASSUME NEW code \in RunErrors, FailModule(m, code)
        PROVE  Delivery'
    <3>1. task' = [task EXCEPT ![m] = "failed"] /\ FinalizeFailure(code, m)
      BY <2>1 DEF FailModule
    <3>2. CASE Open
      BY <1>0, <3>1, <3>2, DeliveryFailure
    <3>3. CASE ~Open
      <4>1. UNCHANGED runVars
        BY <3>1, <3>3 DEF FinalizeFailure, Open
      <4> QED BY <1>1, <2>0, <3>1, <4>1 DEF runVars, TaskState, Open
    <3> QED BY <3>2, <3>3
  <2>2. CASE ModuleRefused(m) \/ ReuseRefused(m) \/ AgentFails(m)
    BY <2>1, <2>2 DEF ModuleRefused, Refusal, ReuseRefused, AgentFails, RunErrors
  <2>3. CASE EnterAgentRefused(m)
    <3>1. (IF inflight THEN "AGENT_BUDGET_EXCEEDED" ELSE "AGENT_QUALIFICATION_EXPIRED") \in RunErrors
      BY DEF RunErrors
    <3> QED BY <2>1, <2>3, <3>1 DEF EnterAgentRefused
  <2>4. CASE ProposePlan(m)
    <3>1. CASE status \in Terminal \/ research.proposed \notin {NoHash, PlanHash(m)}
      BY <2>1, <2>4, <3>1 DEF ProposePlan, RunErrors
    <3>2. CASE ~(status \in Terminal \/ research.proposed \notin {NoHash, PlanHash(m)})
      <4>1. task' = [task EXCEPT ![m] = "parked"] /\ Open /\ Propose
        BY <2>4, <3>2 DEF ProposePlan, Open
      <4> QED BY <1>1, <2>0, <4>1 DEF Propose, Open, Terminal, TaskState
    <3> QED BY <3>1, <3>2
  <2>5. CASE RelinkModule(m)
    <3>1. /\ task[m] = "ready" /\ task' = [task EXCEPT ![m] = "returned"]
          /\ artifacts[m] = 1 /\ node[m].status = "succeeded"
      BY <2>0, <2>5 DEF RelinkModule, Delivered
    <3>2. UNCHANGED <<node, artifacts, nodeLog, status>>
      BY <1>0, <2>0, <2>5, <3>1 DEF RelinkModule, CompleteNode, Delivered
    <3> QED BY <1>1, <2>0, <3>1, <3>2 DEF TaskState, Open
  <2>6. CASE StartModule(m)
    <3>1. /\ task[m] = "ready" /\ task' = [task EXCEPT ![m] = "queued"]
          /\ artifacts[m] = 0 /\ NodeRunning(m)
      BY <2>6 DEF StartModule
    <3>2. CASE Open /\ node[m].status = "pending"
      <4>1. /\ UNCHANGED <<status, artifacts>>
            /\ node' = [node EXCEPT ![m].status = "running"]
            /\ nodeLog' = [nodeLog EXCEPT ![m].running = @ + 1]
        BY <3>1, <3>2 DEF NodeRunning, Open
      <4> SUFFICES ASSUME NEW k \in Modules PROVE Delivered(k)'
        BY DEF Delivery
      <4>2. Delivered(k)
        BY DEF Delivery
      <4>3. CASE k = m
        BY <1>0, <2>0, <3>1, <3>2, <4>1, <4>3 DEF Delivered, Open, Terminal
      <4>4. CASE k # m
        BY <1>0, <2>0, <3>1, <3>2, <4>1, <4>2, <4>4 DEF Delivered, Open, Terminal
      <4> QED BY <4>3, <4>4
    <3>3. CASE ~(Open /\ node[m].status = "pending")
      <4>1. UNCHANGED runVars
        BY <3>1, <3>3 DEF NodeRunning, Open
      <4>2. Open => nodeLog[m].running = 1
        <5>1. "gate" \in ck.applied
          BY <1>0, <3>1, GateBehind
        <5>2. Open => node[m].status \notin {"absent", "failed", "cancelled"}
          BY <2>0, <5>1 DEF Planned, Delivered, Open, Terminal
        <5> QED BY <1>0, <2>0, <3>1, <3>3, <5>2 DEF Delivered, NodeStatus
      <4> SUFFICES ASSUME NEW k \in Modules PROVE Delivered(k)'
        BY DEF Delivery
      <4>3. Delivered(k)
        BY DEF Delivery
      <4>4. CASE k = m
        BY <1>0, <2>0, <3>1, <4>1, <4>2, <4>4 DEF Delivered, Open, runVars
      <4>5. CASE k # m
        BY <1>0, <2>0, <3>1, <4>1, <4>3, <4>5 DEF Delivered, Open, runVars
      <4> QED BY <4>4, <4>5
    <3> QED BY <3>2, <3>3
  <2>7. CASE EnterAgent(m) \/ AgentAnswers(m)
    <3>1. /\ UNCHANGED runVars
          /\ \/ task[m] = "queued" /\ Open /\ task' = [task EXCEPT ![m] = "calling"]
             \/ task[m] = "calling" /\ task' = [task EXCEPT ![m] = "answered"]
      BY <2>7 DEF EnterAgent, AgentAnswers, Open
    <3> SUFFICES ASSUME NEW k \in Modules PROVE Delivered(k)'
      BY DEF Delivery
    <3>2. Delivered(k)
      BY DEF Delivery
    <3> QED BY <1>0, <2>0, <3>1, <3>2 DEF Delivered, runVars, Open
  <2>8. CASE FinishModule(m)
    <3>1. /\ task[m] = "answered" /\ task' = [task EXCEPT ![m] = "committed"]
          /\ artifacts[m] = 0 /\ nodeLog[m].running = 1 /\ node[m].status # "succeeded"
      BY <2>0, <2>8 DEF FinishModule, Delivered
    <3>2. /\ UNCHANGED status
          /\ artifacts' = [artifacts EXCEPT ![m] = 1]
          /\ node' = [node EXCEPT ![m] = [status |-> "succeeded", artifact |-> 1]]
          /\ nodeLog' = [nodeLog EXCEPT ![m].succeeded = @ + 1]
      BY <1>0, <2>8, <3>1 DEF FinishModule, CompleteNode
    <3> SUFFICES ASSUME NEW k \in Modules PROVE Delivered(k)'
      BY DEF Delivery
    <3>3. Delivered(k)
      BY DEF Delivery
    <3>4. CASE k = m
      BY <1>0, <2>0, <3>1, <3>2, <3>4 DEF Delivered, Open, Terminal
    <3>5. CASE k # m
      BY <1>0, <2>0, <3>1, <3>2, <3>3, <3>5 DEF Delivered, Open, Terminal
    <3> QED BY <3>4, <3>5
  <2>9. CASE ChargeCompletion(m)
    <3>1. CASE task' = [task EXCEPT ![m] = "returned"] /\ UNCHANGED runVars
      BY <1>1, <2>0, <3>1 DEF runVars, TaskState, Open
    <3> QED BY <2>1, <2>9, <3>1 DEF ChargeCompletion, RunErrors
  <2> QED BY <1>4, <2>2, <2>3, <2>4, <2>5, <2>6, <2>7, <2>8, <2>9 DEF ModuleStep
<1>5. ASSUME NEW n \in GraphNodes, PersistTask(n)
      PROVE  Delivery'
  <2>1. /\ UNCHANGED <<node, artifacts, nodeLog, holder, status>> /\ task[n] \in {"returned", "parked"}
        /\ \E v \in TaskState : /\ task' = [task EXCEPT ![n] = v]
                                /\ v \notin {"idle", "ready", "queued", "calling", "answered"}
    BY <1>5 DEF PersistTask, storeVars, runVars, TaskState
  <2> QED BY <1>1, <2>1 DEF Open
<1>6. CASE Launch \/ Onward
  <2>1. UNCHANGED storeVars
    BY <1>6 DEF Launch, Onward
  <2>2. \A m \in Modules : node[m].status # "failed" \/ holder = Nobody
    BY <1>6 DEF Launch, Onward, StepComplete, Delivery, Delivered
  <2>3. \A m \in Modules : node[m].status # "failed"
    BY <1>6, <2>2 DEF Launch, Onward, Delivery, Delivered, Open, Terminal
  <2>4. \A n \in GraphNodes : task'[n] \in {"idle", "ready", "written"}
    BY <1>6 DEF Launch, Onward
  <2> QED BY <2>1, <2>3, <2>4, DeliveryFrame DEF storeVars, runVars, Open
<1>7. CASE DriveOver
  <2>1. holder' = Nobody /\ \A n \in GraphNodes : task'[n] = "idle"
    BY <1>7 DEF DriveOver
  <2>2. CASE UNCHANGED runVars \/ ~Open
    <3>1. UNCHANGED runVars
      BY <1>7, <2>2 DEF DriveOver, FinalizeFailure, Open
    <3> QED BY <2>1, <3>1, DeliveryFrame DEF runVars, Open
  <2>3. CASE Open /\ \E code \in RunErrors : FinalizeFailure(code, Nobody)
    BY <1>0, <2>1, <2>3, DeliveryFailure
  <2> QED BY <1>7, <2>2, <2>3 DEF DriveOver
<1>8. CASE Approve
  BY <1>8, DeliveryFrame DEF Approve, Approved, driveVars, Open, Terminal, Delivery, Delivered
<1>9. CASE Aside
  <2>1. UNCHANGED <<task, holder>>
    BY <1>9 DEF Aside, driveVars
  <2>2. CASE UNCHANGED runVars \/ ConsumeTicket
    BY <2>1, <2>2, DeliveryFrame DEF runVars, ConsumeTicket, Open, Delivery, Delivered
  <2>3. ASSUME NEW code \in RunErrors, FinalizeFailure(code, Nobody)
        PROVE  Delivery'
    <3>1. CASE Open
      BY <1>0, <2>1, <2>3, <3>1, DeliveryFailure
    <3>2. CASE ~Open
      BY <2>2, <2>3, <3>2 DEF FinalizeFailure, Open
    <3> QED BY <3>1, <3>2
  <2> QED BY <1>9, <2>2, <2>3 DEF Aside
<1> QED BY <1>2, <1>3, <1>4, <1>5, <1>6, <1>7, <1>8, <1>9, Steps

-----------------------------------------------------------------------------
(* What is known of the plan.                                              *)

\* The end of a run is its last status, and nothing is pinned behind it.
LEMMA EndStays ==
    ASSUME TypeOK, [Next]_vars, ~Open
    PROVE  UNCHANGED <<status, plan>>
BY RunSteps DEF Open, RunStep, runVars, FinalizeFailure, PinPlan, NodeRunning, CompleteNode,
                FinalizeCommit, FinalizeSuccess, ConsumeTicket, Terminal

\* The two halves of Planned: the rows of the modules, and what the gate has seen.
PlannedRows ==
    /\ plan = NoPlan => \A m \in Modules :
           /\ node[m].status \in {"absent", "failed"} /\ artifacts[m] = 0 /\ nodeLog[m].running = 0
    /\ plan # NoPlan => \A m \in Modules : node[m].status # "absent"
    /\ status \in {"running", "succeeded"} => plan # NoPlan
    /\ status = "queued" => plan = NoPlan
PlannedGate ==
    /\ task["gate"] \in {"pausing", "rereading", "checking", "pinning", "parked", "interrupted"} =>
           plan = NoPlan
    /\ task["gate"] \in {"checking", "pinning"} => gateView # NoPlan
    /\ task["gate"] = "returned" /\ status # "failed" => plan # NoPlan /\ gateView = plan
    /\ "gate" \in ck.applied \cup ck.writes /\ status # "failed" => plan # NoPlan
    /\ PlanAgreement
LEMMA PlannedHalves == Planned <=> PlannedRows /\ PlannedGate
BY DEF Planned, PlannedRows, PlannedGate

\* A store operation that neither pins nor completes keeps the rows.
LEMMA PlannedRowsFrame ==
    ASSUME TypeOK, PlannedRows,
           \/ UNCHANGED runVars \/ ConsumeTicket \/ FinalizeSuccess
           \/ \E code \in RunErrors, b \in Modules \cup {Nobody} : FinalizeFailure(code, b)
           \/ Open /\ (Pause("SOURCE_SET_EMPTY") \/ Propose)
           \/ plan # NoPlan /\ Approved
           \/ \E m \in Modules : NodeRunning(m)
    PROVE  PlannedRows'
<1>0. /\ node \in [Modules -> [status : NodeStatus, artifact : Nat]]
      /\ nodeLog \in [Modules -> [running : Nat, succeeded : Nat]]
  BY DEF TypeOK, RunTypeOK
<1>1. CASE UNCHANGED runVars \/ ConsumeTicket \/ FinalizeSuccess
  BY <1>1 DEF runVars, ConsumeTicket, FinalizeSuccess, PlannedRows
<1>2. ASSUME NEW code \in RunErrors, NEW b \in Modules \cup {Nobody}, FinalizeFailure(code, b)
      PROVE  PlannedRows'
  BY <1>0, <1>2 DEF FinalizeFailure, runVars, PlannedRows
<1>3. CASE Open /\ (Pause("SOURCE_SET_EMPTY") \/ Propose)
  BY <1>3 DEF Pause, Propose, PlannedRows
<1>4. CASE plan # NoPlan /\ Approved
  BY <1>4 DEF Approved, PlannedRows
<1>5. ASSUME NEW m \in Modules, NodeRunning(m)
      PROVE  PlannedRows'
  BY <1>0, <1>5 DEF NodeRunning, runVars, PlannedRows
<1> QED BY <1>1, <1>2, <1>3, <1>4, <1>5

\* The gate's half, when the plan stays and the gate does not move or rests.
LEMMA PlannedGateFrame ==
    ASSUME PlannedGate, UNCHANGED plan,
           \/ task'["gate"] \in {"idle", "ready", "written", "failed"}
           \/ task'["gate"] = task["gate"] /\ gateView' = gateView,
           status = "failed" => status' = "failed",
           ck'.plan \in {NoPlan, ck.plan},
           "gate" \in ck'.applied \cup ck'.writes => "gate" \in ck.applied \cup ck.writes
    PROVE  PlannedGate'
BY DEF PlannedGate, PlanAgreement

\* What is known of the plan stays known.
LEMMA PlannedStep ==
    ASSUME TypeOK, Driven, Supersteps, Stations, Delivery, Planned, [Next]_vars
    PROVE  Planned'
<1> USE NodesAreTasks
<1>0. /\ task \in [GraphNodes -> TaskState] /\ Nobody \notin Modules
      /\ "gate" \notin Modules /\ "finalize" \notin Modules
      /\ ck \in [created : BOOLEAN, applied : SUBSET GraphNodes, writes : SUBSET GraphNodes,
                 interrupts : SUBSET GraphNodes, plan : SUBSET Sources]
      /\ PlannedRows /\ PlannedGate
      /\ (status = "failed" => status' = "failed")
  BY ModulesAssumption, PlannedHalves, EndStays
     DEF TypeOK, RunTypeOK, DriveTypeOK, ThreadTypeOK, Open, Terminal
<1>1. CASE GateStep
  <2>0. UNCHANGED ck
    BY <1>1, Working DEF Works, others
  <2>1. CASE GatePin
    <3>1. /\ task["gate"] = "pinning" /\ task'["gate"] = "returned" /\ UNCHANGED gateView
          /\ PinPlan(gateView) /\ plan = NoPlan /\ gateView # NoPlan
          /\ "gate" \notin ck.applied
      BY <1>0, <2>1, GateAlone DEF GatePin, PlannedGate
    <3>2. CASE Open
      <4>1. /\ status' = "running" /\ plan' = gateView /\ UNCHANGED <<artifacts, nodeLog>>
            /\ node' = [m \in Modules |-> [status |-> "pending", artifact |-> 0]]
        BY <3>1, <3>2 DEF PinPlan, Open
      <4>2. PlannedRows'
        BY <3>1, <4>1 DEF PlannedRows
      <4>3. PlannedGate'
        BY <1>0, <2>0, <3>1, <3>2, <4>1 DEF PlannedGate, PlanAgreement, Open, Terminal
      <4> QED BY <4>2, <4>3, PlannedHalves DEF Planned, PlannedRows, PlannedGate
    <3>3. CASE ~Open
      <4>1. UNCHANGED runVars
        BY <3>1, <3>3 DEF PinPlan, Open
      <4>2. PlannedRows'
        BY <1>0, <4>1, PlannedRowsFrame
      <4>3. status = "failed"
        BY <1>0, <3>1, <3>3 DEF PlannedRows, Open, Terminal
      <4>4. PlannedGate'
        BY <1>0, <2>0, <3>1, <4>1, <4>3 DEF PlannedGate, PlanAgreement, runVars
      <4> QED BY <4>2, <4>4, PlannedHalves DEF Planned, PlannedRows, PlannedGate
    <3> QED BY <3>2, <3>3
  <2>2. CASE GateEnter \/ GatePause \/ GateReread \/ GateCheck
    <3>1. PlannedRows'
      BY <1>0, <2>2, PlannedRowsFrame
         DEF GateEnter, GatePause, GateReread, GateCheck, storeVars, Open
    <3>2. UNCHANGED plan
      BY <2>2 DEF GateEnter, GatePause, GateReread, GateCheck, Pause, storeVars, runVars
    <3>3. /\ task'["gate"] \in {"pausing", "rereading", "checking", "pinning", "parked", "interrupted"} =>
               plan = NoPlan
          /\ task'["gate"] \in {"checking", "pinning"} => gateView' # NoPlan
          /\ task'["gate"] = "returned" => plan # NoPlan /\ gateView' = plan
      BY <1>0, <2>2 DEF GateEnter, GatePause, GateReread, GateCheck, PlannedGate, NoPlan
    <3>4. PlannedGate'
      BY <1>0, <2>0, <3>2, <3>3 DEF PlannedGate, PlanAgreement
    <3> QED BY <3>1, <3>4, PlannedHalves DEF Planned, PlannedRows, PlannedGate
  <2> QED BY <1>1, <2>1, <2>2 DEF GateStep
<1>2. ASSUME PlannedRows', PlannedGate'
      PROVE  Planned'
  BY <1>2 DEF Planned, PlannedRows, PlannedGate
<1>3. ASSUME NEW n \in GraphNodes \ {"gate"}, NEW stations, Works(n, stations),
             UNCHANGED <<plan, gateView>>
      PROVE  PlannedGate'
  BY <1>0, <1>3, PlannedGateFrame DEF Works, others
<1>4. CASE FinalizeStep
  <2>1. PlannedRows'
    BY <1>0, <1>4, PlannedRowsFrame
       DEF FinalizeStep, FinalizeVerify, FinalizeCommit, FinalizeRefuse, storeVars, RunErrors
  <2>2. UNCHANGED <<plan, gateView>>
    BY <1>4 DEF FinalizeStep, FinalizeVerify, FinalizeCommit, FinalizeRefuse, storeVars, runVars,
                FinalizeSuccess, FinalizeFailure
  <2> QED BY <1>0, <1>2, <1>3, <1>4, <2>1, <2>2, Working
<1>5. ASSUME NEW m \in Modules, ModuleStep(m)
      PROVE  Planned'
  <2>0. Works(m, ModuleStations) /\ Delivered(m) /\ m \in GraphNodes \ {"gate"}
    BY <1>0, <1>5, Working DEF Delivery
  <2>1. UNCHANGED <<plan, gateView>>
    BY <1>5 DEF ModuleStep, ModuleRefused, ReuseRefused, ProposePlan, RelinkModule,
       StartModule, EnterAgent, EnterAgentRefused, AgentAnswers, AgentFails, FinishModule,
       ChargeCompletion, FailModule, FinalizeFailure, Propose, CompleteNode, NodeRunning, runVars
  <2>2. CASE RelinkModule(m) \/ FinishModule(m)
    <3>1. CompleteNode(m) /\ plan # NoPlan
      BY <1>0, <2>0, <2>2 DEF RelinkModule, FinishModule, Delivered, PlannedRows
    <3>2. PlannedRows'
      BY <1>0, <3>1 DEF CompleteNode, PlannedRows, TypeOK, RunTypeOK
    <3> QED BY <1>2, <1>3, <2>0, <2>1, <3>2
  <2>3. ASSUME NEW code \in RunErrors, FailModule(m, code)
        PROVE  PlannedRows'
    BY <1>0, <2>3, PlannedRowsFrame DEF FailModule
  <2>4. CASE ModuleRefused(m) \/ ReuseRefused(m) \/ AgentFails(m)
    <3>1. \E code \in RunErrors : FailModule(m, code)
      BY <2>4 DEF ModuleRefused, Refusal, ReuseRefused, AgentFails, RunErrors
    <3> QED BY <1>2, <1>3, <2>0, <2>1, <2>3, <3>1
  <2>5. CASE EnterAgentRefused(m)
    <3>1. (IF inflight THEN "AGENT_BUDGET_EXCEEDED" ELSE "AGENT_QUALIFICATION_EXPIRED") \in RunErrors
      BY DEF RunErrors
    <3> QED BY <1>2, <1>3, <2>0, <2>1, <2>3, <2>5, <3>1 DEF EnterAgentRefused
  <2>6. CASE ProposePlan(m)
    <3>1. CASE status \in Terminal \/ research.proposed \notin {NoHash, PlanHash(m)}
      BY <1>2, <1>3, <2>0, <2>1, <2>3, <2>6, <3>1 DEF ProposePlan, RunErrors
    <3>2. CASE ~(status \in Terminal \/ research.proposed \notin {NoHash, PlanHash(m)})
      <4>1. PlannedRows'
        BY <1>0, <2>6, <3>2, PlannedRowsFrame DEF ProposePlan, Open
      <4> QED BY <1>2, <1>3, <2>0, <2>1, <4>1
    <3> QED BY <3>1, <3>2
  <2>7. CASE StartModule(m) \/ EnterAgent(m) \/ AgentAnswers(m)
    <3>1. PlannedRows'
      BY <1>0, <2>7, PlannedRowsFrame DEF StartModule, EnterAgent, AgentAnswers
    <3> QED BY <1>2, <1>3, <2>0, <2>1, <3>1
  <2>8. CASE ChargeCompletion(m)
    <3>1. CASE UNCHANGED runVars
      BY <1>0, <1>2, <1>3, <2>0, <2>1, <3>1, PlannedRowsFrame
    <3> QED BY <1>2, <1>3, <2>0, <2>1, <2>3, <2>8, <3>1 DEF ChargeCompletion, RunErrors
  <2> QED BY <1>5, <2>2, <2>4, <2>5, <2>6, <2>7, <2>8 DEF ModuleStep
<1>6. ASSUME NEW n \in GraphNodes, PersistTask(n)
      PROVE  Planned'
  <2>1. UNCHANGED <<storeVars, gateView>>
    BY <1>6 DEF PersistTask
  <2>2. PlannedRows'
    BY <1>0, <2>1, PlannedRowsFrame DEF storeVars
  <2>3. CASE n # "gate"
    <3>1. /\ task'["gate"] = task["gate"] /\ ck'.plan = ck.plan /\ ck'.applied = ck.applied
          /\ "gate" \in ck'.writes => "gate" \in ck.writes
      BY <1>0, <1>6, <2>3 DEF PersistTask
    <3> QED BY <1>0, <1>2, <2>1, <2>2, <3>1, PlannedGateFrame DEF storeVars, runVars
  <2>4. CASE n = "gate" /\ task["gate"] = "returned"
    <3>1. /\ task'["gate"] = "written" /\ ck'.plan = gateView
      BY <1>0, <1>6, <2>4 DEF PersistTask
    <3>2. PlannedGate'
      BY <1>0, <2>1, <2>4, <3>1 DEF PlannedGate, PlanAgreement, storeVars, runVars
    <3> QED BY <1>2, <2>2, <3>2
  <2>5. CASE n = "gate" /\ task["gate"] = "parked"
    <3>1. /\ task'["gate"] = "interrupted" /\ ck'.plan = ck.plan /\ ck'.applied = ck.applied
          /\ ck'.writes = ck.writes
      BY <1>0, <1>6, <2>5 DEF PersistTask
    <3>2. PlannedGate'
      BY <1>0, <2>1, <2>5, <3>1 DEF PlannedGate, PlanAgreement, storeVars, runVars
    <3> QED BY <1>2, <2>2, <3>2
  <2> QED BY <1>6, <2>3, <2>4, <2>5 DEF PersistTask
<1>7. CASE Launch \/ Onward
  <2>1. UNCHANGED <<storeVars, gateView>> /\ task'["gate"] \in {"idle", "ready", "written"}
    BY <1>7 DEF Launch, Onward
  <2>2. /\ ck'.plan = ck.plan
        /\ ck'.applied \cup ck'.writes = ck.applied \cup ck.writes
    BY <1>7, Threads DEF Launch, Onward
  <2>3. PlannedRows'
    BY <1>0, <2>1, PlannedRowsFrame DEF storeVars
  <2>4. PlannedGate'
    BY <1>0, <2>1, <2>2, PlannedGateFrame DEF storeVars, runVars
  <2> QED BY <1>2, <2>3, <2>4
<1>8. CASE DriveOver \/ Approve \/ Aside
  <2>1. PlannedRows'
    <3>1. CASE Approve
      BY <1>0, <3>1, PlannedRowsFrame DEF Approve, Live, NoPlan
    <3>2. CASE DriveOver \/ Aside
      BY <1>0, <3>2, PlannedRowsFrame DEF DriveOver, Aside
    <3> QED BY <1>8, <3>1, <3>2
  <2>2. UNCHANGED plan
    BY <1>8 DEF DriveOver, Approve, Approved, Aside, FinalizeFailure, ConsumeTicket, runVars
  <2>3. \/ task'["gate"] = "idle"
        \/ task'["gate"] = task["gate"] /\ gateView' = gateView
    BY <1>8 DEF DriveOver, Approve, Aside, driveVars
  <2>4. /\ ck'.plan \in {NoPlan, ck.plan}
        /\ "gate" \in ck'.applied \cup ck'.writes => "gate" \in ck.applied \cup ck.writes
    BY <1>8, Threads DEF DriveOver, Approve, Aside
  <2> QED BY <1>0, <1>2, <2>1, <2>2, <2>3, <2>4, PlannedGateFrame
<1> QED BY <1>1, <1>4, <1>5, <1>6, <1>7, <1>8, Steps

-----------------------------------------------------------------------------
(* What is known while the run waits for a human.                          *)

\* A step that parks nothing and neither pins, proposes nor approves.
LEMMA ParkedFrame ==
    ASSUME Parked, UNCHANGED <<plan, research>>, status' = status \/ status' \in Terminal,
           status' = "queued" => ck'.interrupts = {},
           \A n \in GraphNodes : Resting(n)' => Resting(n)
    PROVE  Parked'
BY NodesAreTasks DEF Parked, Resting, Terminal

\* What a step of a module's task does to the run: it proposes and parks, or it
\* does one of four things and does not park.
LEMMA ModuleRunStep ==
    ASSUME TypeOK, NEW m \in Modules, ModuleStep(m)
    PROVE  \/ /\ UNCHANGED research /\ ~Resting(m)'
              /\ \/ UNCHANGED runVars
                 \/ FailModule(m, error') /\ error' \in RunErrors
                 \/ NodeRunning(m) /\ StartModule(m)
                 \/ CompleteNode(m) /\ (RelinkModule(m) \/ FinishModule(m))
           \/ /\ Propose /\ Open /\ ProposePlan(m) /\ task' = [task EXCEPT ![m] = "parked"]
              /\ research' = [research EXCEPT !.phase = "awaiting_approval", !.proposed = PlanHash(m)]
<1>0. task \in [GraphNodes -> TaskState] /\ m \in GraphNodes
  BY NodesAreTasks DEF TypeOK, DriveTypeOK
<1>1. ASSUME NEW code \in RunErrors, FailModule(m, code)
      PROVE  ~Resting(m)' /\ (UNCHANGED runVars \/ (FailModule(m, error') /\ error' \in RunErrors))
  <2>1. ~Resting(m)'
    BY <1>0, <1>1 DEF FailModule, Resting
  <2>2. CASE status \in Terminal
    BY <1>1, <2>1, <2>2 DEF FailModule, FinalizeFailure
  <2>3. CASE status \notin Terminal
    BY <1>1, <2>1, <2>3 DEF FailModule, FinalizeFailure
  <2> QED BY <2>2, <2>3
<1>2. CASE ModuleRefused(m) \/ ReuseRefused(m) \/ AgentFails(m)
  <2>1. \E code \in RunErrors : FailModule(m, code) /\ UNCHANGED research
    BY <1>2 DEF ModuleRefused, Refusal, ReuseRefused, AgentFails, RunErrors
  <2> QED BY <1>1, <2>1
<1>3. CASE EnterAgentRefused(m)
  <2>1. (IF inflight THEN "AGENT_BUDGET_EXCEEDED" ELSE "AGENT_QUALIFICATION_EXPIRED") \in RunErrors
    BY DEF RunErrors
  <2> QED BY <1>1, <1>3, <2>1 DEF EnterAgentRefused
<1>4. CASE ProposePlan(m)
  <2>1. CASE status \in Terminal \/ research.proposed \notin {NoHash, PlanHash(m)}
    BY <1>1, <1>4, <2>1 DEF ProposePlan, RunErrors
  <2>2. CASE ~(status \in Terminal \/ research.proposed \notin {NoHash, PlanHash(m)})
    BY <1>4, <2>2 DEF ProposePlan, Open
  <2> QED BY <2>1, <2>2
<1>5. CASE RelinkModule(m) \/ StartModule(m) \/ FinishModule(m)
  BY <1>0, <1>5 DEF RelinkModule, StartModule, FinishModule, Resting
<1>6. CASE EnterAgent(m) \/ AgentAnswers(m)
  BY <1>0, <1>6 DEF EnterAgent, AgentAnswers, Resting
<1>7. CASE ChargeCompletion(m)
  <2>1. CASE UNCHANGED runVars /\ task' = [task EXCEPT ![m] = "returned"]
    BY <1>0, <1>7, <2>1 DEF ChargeCompletion, Resting
  <2> QED BY <1>1, <1>7, <2>1 DEF ChargeCompletion, RunErrors
<1> QED BY <1>2, <1>3, <1>4, <1>5, <1>6, <1>7 DEF ModuleStep

\* A module that is ready to run on an open run finds the plan pinned.
LEMMA ReadyIsPinned ==
    ASSUME TypeOK, Supersteps, Planned, NEW m \in Modules, task[m] # "idle", Open
    PROVE  plan # NoPlan /\ status # "queued"
<1>1. "gate" \in ck.applied
  BY GateBehind, Waiting, NodesAreTasks
<1> QED BY <1>1 DEF Planned, Open, Terminal

\* What is known of a waiting run stays known.
LEMMA ParkedStep ==
    ASSUME TypeOK, Driven, Supersteps, Planned, Parked, [Next]_vars
    PROVE  Parked'
<1> USE NodesAreTasks
<1>0. /\ task \in [GraphNodes -> TaskState] /\ "gate" \notin Modules /\ "finalize" \notin Modules
      /\ research.phase \in {"brief_locked", "awaiting_approval", "approved"}
      /\ research \in [phase : {"brief_locked", "awaiting_approval", "approved"},
                       proposed : PlanHashes, approved : PlanHashes]
  BY ModulesAssumption DEF TypeOK, DriveTypeOK, ResearchTypeOK
<1>1. CASE GateStep
  <2>1. CASE GatePause
    <3>1. /\ status' = "paused" /\ UNCHANGED <<plan, research>> /\ plan = NoPlan
      BY <2>1 DEF GatePause, Pause, Planned
    <3> QED BY <3>1 DEF Parked
  <2>2. CASE GatePin
    <3>1. /\ task' = [task EXCEPT !["gate"] = "returned"] /\ UNCHANGED <<research, ck>>
          /\ \A m \in Modules : task'[m] = "idle"
          /\ plan = NoPlan /\ gateView # NoPlan /\ PinPlan(gateView)
      BY <1>0, <2>2, GateAlone DEF GatePin, others, Planned
    <3>2. \/ status' = "running" /\ plan' # NoPlan
          \/ UNCHANGED <<status, plan>>
      BY <3>1 DEF PinPlan, runVars
    <3>3. \A n \in GraphNodes : Resting(n)' => Resting(n)
      BY <1>0, <3>1 DEF Resting
    <3>4. CASE status' = "running" /\ plan' # NoPlan
      BY <3>1, <3>4 DEF Parked, Resting
    <3>5. CASE UNCHANGED <<status, plan>>
      BY <3>1, <3>3, <3>5, ParkedFrame DEF Parked
    <3> QED BY <3>2, <3>4, <3>5
  <2>3. CASE GateEnter \/ GateReread \/ GateCheck
    <3>1. UNCHANGED <<plan, research, status, ck>>
      BY <2>3 DEF GateEnter, GateReread, GateCheck, storeVars, runVars, others
    <3>2. \A n \in GraphNodes : Resting(n)' => Resting(n)
      BY <1>0, <2>3 DEF GateEnter, GateReread, GateCheck, Resting
    <3> QED BY <3>1, <3>2, ParkedFrame DEF Parked
  <2> QED BY <1>1, <2>1, <2>2, <2>3 DEF GateStep
<1>2. CASE FinalizeStep
  <2>1. /\ UNCHANGED <<plan, research, ck>> /\ (status' = status \/ status' \in Terminal)
    BY <1>2 DEF FinalizeStep, FinalizeVerify, FinalizeCommit, FinalizeRefuse, FinalizeSuccess,
                FinalizeFailure, storeVars, runVars, others, Terminal
  <2>2. \A n \in GraphNodes : Resting(n)' => Resting(n)
    BY <1>0, <1>2 DEF FinalizeStep, FinalizeVerify, FinalizeCommit, FinalizeRefuse, Resting
  <2>3. status' = "queued" => status = "queued"
    BY <2>1 DEF Terminal
  <2> QED BY <2>1, <2>2, <2>3, ParkedFrame DEF Parked
<1>3. ASSUME NEW m \in Modules, ModuleStep(m)
      PROVE  Parked'
  <2>0. Works(m, ModuleStations) /\ UNCHANGED ck
    BY <1>3, Working DEF Works, others
  <2>1. CASE /\ UNCHANGED research /\ ~Resting(m)'
             /\ \/ UNCHANGED runVars
                \/ FailModule(m, error') /\ error' \in RunErrors
                \/ NodeRunning(m) /\ StartModule(m)
                \/ CompleteNode(m) /\ (RelinkModule(m) \/ FinishModule(m))
    <3>1. UNCHANGED plan /\ (status' = status \/ status' \in Terminal)
      BY <2>1 DEF runVars, FailModule, FinalizeFailure, NodeRunning, CompleteNode, Terminal
    <3>2. \A n \in GraphNodes : Resting(n)' => Resting(n)
      BY <1>0, <2>0, <2>1 DEF Works, Resting
    <3>3. status' = "queued" => ck'.interrupts = {}
      BY <2>0, <3>1 DEF Parked, Terminal
    <3> QED BY <2>1, <3>1, <3>2, <3>3, ParkedFrame
  <2>2. CASE /\ Propose /\ Open /\ ProposePlan(m) /\ task' = [task EXCEPT ![m] = "parked"]
             /\ research' = [research EXCEPT !.phase = "awaiting_approval", !.proposed = PlanHash(m)]
    <3>1. /\ status' = "paused" /\ UNCHANGED plan /\ research'.phase = "awaiting_approval"
          /\ m \in Gated /\ task[m] = "ready"
      BY <1>0, <2>2 DEF Propose, ProposePlan
    <3>2. plan # NoPlan
      BY <2>2, <3>1, ReadyIsPinned
    <3> QED BY <3>1, <3>2 DEF Parked
  <2> QED BY <1>3, <2>1, <2>2, ModuleRunStep
<1>4. ASSUME NEW n \in GraphNodes, PersistTask(n)
      PROVE  Parked'
  <2>1. UNCHANGED <<plan, research, status>>
    BY <1>4 DEF PersistTask, storeVars, runVars
  <2>2. \A k \in GraphNodes : Resting(k)' => Resting(k)
    BY <1>0, <1>4 DEF PersistTask, Resting
  <2>3. task[n] = "parked" \/ ck'.interrupts = ck.interrupts
    BY <1>4 DEF PersistTask, TypeOK, ThreadTypeOK
  <2>4. status' = "queued" => ck'.interrupts = {}
    BY <2>1, <2>3 DEF Parked, Resting
  <2> QED BY <2>1, <2>2, <2>4, ParkedFrame
<1>5. CASE Launch \/ Onward \/ DriveOver \/ Aside
  <2>1. UNCHANGED <<plan, research>> /\ (status' = status \/ status' \in Terminal)
    BY <1>5 DEF Launch, Onward, DriveOver, Aside, storeVars, runVars, FinalizeFailure, ConsumeTicket,
                Terminal
  <2>2. \A n \in GraphNodes : Resting(n)' => Resting(n)
    BY <1>5 DEF Launch, Onward, DriveOver, Aside, driveVars, Resting
  <2>3. ck'.interrupts \subseteq ck.interrupts
    BY <1>5, Threads DEF Launch, Onward, DriveOver, Aside
  <2>4. status' = "queued" => ck'.interrupts = {}
    BY <2>1, <2>3 DEF Parked, Terminal
  <2> QED BY <2>1, <2>2, <2>4, ParkedFrame
<1>6. CASE Approve
  <2>1. /\ status' = "running" /\ UNCHANGED <<plan, task, ck>> /\ research'.phase = "approved"
        /\ plan # NoPlan /\ research.phase = "awaiting_approval"
    BY <1>0, <1>6 DEF Approve, Approved, driveVars, Live, NoPlan
  <2> QED BY <2>1 DEF Parked, Resting
<1> QED BY <1>1, <1>2, <1>3, <1>4, <1>5, <1>6, Steps

-----------------------------------------------------------------------------
(* What a module at work is bound to.                                      *)

Busy(m) == node[m].status \in {"running", "succeeded"} \/ task[m] \in {"queued", "calling", "answered"}

\* A delivered artifact stays, so the hash of a plan whose inputs are there does too.
Durable ==
    /\ UNCHANGED plan
    /\ \A d \in Modules : artifacts[d] = 1 => artifacts'[d] = 1 /\ node'[d].artifact = node[d].artifact
    /\ research.phase = "approved" => UNCHANGED research

LEMMA BoundStays ==
    ASSUME NEW m \in Modules, BoundTo(m), Durable
    PROVE  BoundTo(m)'
<1>1. Deps[m] \subseteq Modules
  BY ModulesAssumption
<1>2. \A d \in Deps[m] : artifacts'[d] = 1 /\ node'[d].artifact = node[d].artifact
  BY <1>1 DEF BoundTo, Durable
<1>3. PlanHash(m)' = PlanHash(m)
  BY <1>2 DEF PlanHash, Durable
<1> QED BY <1>2, <1>3 DEF BoundTo, Durable

\* A durable step that puts no module to work.
LEMMA BoundFrame ==
    ASSUME Bound, Durable, \A m \in Modules : Busy(m)' => Busy(m)
    PROVE  Bound'
BY BoundStays DEF Bound, Busy

\* A module that may execute is bound.
LEMMA MayExecuteBinds ==
    ASSUME Delivery, NEW m \in Modules, MayExecute(m)
    PROVE  BoundTo(m)
<1>1. ModuleInputsHold(m) /\ (m \in Gated => research.phase = "approved" /\ research.approved = PlanHash(m))
  BY DEF MayExecute, Refusal
<1>2. \A d \in Deps[m] : artifacts[d] = 1
  BY <1>1, ModulesAssumption DEF ModuleInputsHold, Delivery, Delivered
<1> QED BY <1>1, <1>2 DEF BoundTo

\* A failure of the run takes modules out of work.
LEMMA FailureIsDurable ==
    ASSUME TypeOK, NEW code, NEW b, FinalizeFailure(code, b), UNCHANGED research
    PROVE  Durable /\ \A m \in Modules : node'[m].status \in {"running", "succeeded"} =>
                                            node'[m].status = node[m].status
<1>1. CASE status \in Terminal
  BY <1>1 DEF FinalizeFailure, runVars, Durable
<1>2. CASE status \notin Terminal
  <2>1. /\ UNCHANGED <<plan, artifacts>>
        /\ \A m \in Modules :
               /\ node'[m].artifact = node[m].artifact
               /\ node'[m].status \in {"running", "succeeded"} => node'[m].status = node[m].status
    BY <1>2 DEF FinalizeFailure, TypeOK, RunTypeOK
  <2> QED BY <2>1 DEF Durable
<1> QED BY <1>1, <1>2

\* A module that works, or has delivered, stays bound to what was approved for it.
LEMMA BoundStep ==
    ASSUME TypeOK, Driven, Supersteps, Delivery, Planned, Bound, [Next]_vars
    PROVE  Bound'
<1> USE NodesAreTasks
<1>0. /\ task \in [GraphNodes -> TaskState] /\ "gate" \notin Modules /\ "finalize" \notin Modules
      /\ node \in [Modules -> [status : NodeStatus, artifact : Nat]]
  BY ModulesAssumption DEF TypeOK, RunTypeOK, DriveTypeOK
<1>1. CASE GateStep
  <2>1. CASE GatePin /\ Open
    <3>1. /\ task' = [task EXCEPT !["gate"] = "returned"]
          /\ \A m \in Modules : task'[m] = "idle"
          /\ plan = NoPlan /\ PinPlan(gateView)
      BY <1>0, <2>1, GateAlone DEF GatePin, Planned
    <3>2. \A m \in Modules : node'[m].status = "pending"
      BY <2>1, <3>1 DEF PinPlan, Open
    <3> QED BY <3>1, <3>2 DEF Bound
  <2>2. CASE ~(GatePin /\ Open)
    <3>1. UNCHANGED <<plan, node, artifacts, research>>
      BY <1>1, <2>2 DEF GateStep, GateEnter, GatePause, GateReread, GateCheck, GatePin, Pause, PinPlan,
                        Open, storeVars, runVars
    <3>2. \A m \in Modules : task'[m] = task[m]
      BY <1>0, <1>1, Working DEF Works
    <3> QED BY <3>1, <3>2, BoundFrame DEF Durable, Busy
  <2> QED BY <2>1, <2>2
<1>2. CASE FinalizeStep
  <2>1. \A m \in Modules : task'[m] = task[m]
    BY <1>0, <1>2, Working DEF Works
  <2>2. Durable /\ \A m \in Modules : node'[m].status \in {"running", "succeeded"} =>
                                         node'[m].status = node[m].status
    BY <1>2, FailureIsDurable DEF FinalizeStep, FinalizeVerify, FinalizeCommit, FinalizeRefuse,
       FinalizeSuccess, storeVars, runVars, Durable
  <2> QED BY <2>1, <2>2, BoundFrame DEF Busy
<1>3. ASSUME NEW m \in Modules, ModuleStep(m)
      PROVE  Bound'
  <2>0. \A k \in Modules \ {m} : task'[k] = task[k]
    BY <1>0, <1>3, Working DEF Works
  <2>1. CASE StartModule(m) \/ RelinkModule(m) \/ FinishModule(m)
    <3>1. BoundTo(m)
      BY <2>1, MayExecuteBinds DEF StartModule, RelinkModule, FinishModule, Bound
    <3>2. UNCHANGED <<plan, research>> /\ \A k \in Modules \ {m} : node'[k] = node[k]
      BY <1>0, <2>1 DEF StartModule, RelinkModule, FinishModule, NodeRunning, CompleteNode, runVars
    <3>3. artifacts[m] = 1 => artifacts'[m] = 1 /\ node'[m].artifact = node[m].artifact
      BY <1>0, <2>1 DEF StartModule, RelinkModule, FinishModule, NodeRunning, CompleteNode, runVars,
                        Delivery, Delivered, TypeOK, RunTypeOK
    <3>4. \A k \in Modules \ {m} : artifacts'[k] = artifacts[k]
      BY <2>1 DEF StartModule, RelinkModule, FinishModule, NodeRunning, CompleteNode, runVars,
                  TypeOK, RunTypeOK
    <3>5. Durable
      BY <3>2, <3>3, <3>4 DEF Durable
    <3> QED BY <2>0, <3>1, <3>2, <3>5, BoundStays DEF Bound
  <2>2. CASE ~(StartModule(m) \/ RelinkModule(m) \/ FinishModule(m))
    <3>1. task'[m] \in {"queued", "calling", "answered"} => task[m] \in {"queued", "calling", "answered"}
      BY <1>0, <1>3, <2>2 DEF ModuleStep, ModuleRefused, ReuseRefused, ProposePlan,
         EnterAgent, EnterAgentRefused, AgentAnswers, AgentFails, ChargeCompletion, FailModule
    <3>2. Durable /\ \A k \in Modules : node'[k].status \in {"running", "succeeded"} =>
                                           node'[k].status = node[k].status
      <4>1. CASE UNCHANGED <<runVars, research>>
        BY <4>1 DEF runVars, Durable
      <4>2. CASE FailModule(m, error') /\ UNCHANGED research
        BY <4>2, FailureIsDurable DEF FailModule
      <4>3. CASE Propose /\ ProposePlan(m)
        BY <4>3 DEF Propose, ProposePlan, Durable
      <4> QED BY <1>3, <2>2, <4>1, <4>2, <4>3, ModuleRunStep
    <3> QED BY <2>0, <3>1, <3>2, BoundFrame DEF Busy
  <2> QED BY <2>1, <2>2
<1>4. ASSUME NEW n \in GraphNodes, PersistTask(n)
      PROVE  Bound'
  BY <1>0, <1>4, BoundFrame DEF PersistTask, storeVars, runVars, Durable, Busy
<1>5. CASE Launch \/ Onward \/ DriveOver \/ Aside \/ Approve
  <2>1. \A m \in Modules : task'[m] \in {"idle", "ready", "written"} \/ task'[m] = task[m]
    BY <1>5 DEF Launch, Onward, DriveOver, Aside, Approve, driveVars
  <2>2. Durable /\ \A m \in Modules : node'[m].status \in {"running", "succeeded"} =>
                                         node'[m].status = node[m].status
    <3>1. CASE UNCHANGED <<runVars, research>>
      BY <3>1 DEF runVars, Durable
    <3>2. ASSUME NEW code \in RunErrors, FinalizeFailure(code, Nobody), UNCHANGED research
          PROVE  Durable /\ \A m \in Modules : node'[m].status \in {"running", "succeeded"} =>
                                                node'[m].status = node[m].status
      BY <3>2, FailureIsDurable
    <3>3. CASE ConsumeTicket /\ UNCHANGED research
      BY <3>3 DEF ConsumeTicket, Durable
    <3>4. CASE Approve
      BY <3>4 DEF Approve, Approved, Durable
    <3> QED BY <1>5, <3>1, <3>2, <3>3, <3>4 DEF Launch, Onward, DriveOver, Aside, storeVars
  <2> QED BY <2>1, <2>2, BoundFrame DEF Busy
<1> QED BY <1>1, <1>2, <1>3, <1>4, <1>5, Steps

-----------------------------------------------------------------------------
(* Between the verification of finalize and its commit.                    *)

\* When every module has delivered and the run is open, it is running: a run
\* parked behind its pin waits for a gated module that has not run.
LEMMA DeliveredRuns ==
    ASSUME TypeOK, Planned, Parked, Bound, Open, plan # NoPlan, Succeeded
    PROVE  status = "running"
<1>1. status \in {"queued", "running", "paused"}
  BY DEF Open, TypeOK, RunTypeOK, RunStatus
<1>2. status # "queued"
  BY DEF Planned
<1>3. CASE status = "paused"
  <2>1. research.phase = "awaiting_approval"
    BY <1>3 DEF Parked
  <2>2. PICK m \in Gated : TRUE
    BY <2>1 DEF Parked
  <2>3. m \in Modules /\ node[m].status = "succeeded"
    BY ModulesAssumption DEF Succeeded
  <2>4. research.phase = "approved"
    BY <2>3 DEF Bound, BoundTo
  <2> QED BY <2>1, <2>4
<1> QED BY <1>1, <1>2, <1>3

\* What finalize verified stays true until it commits.
LEMMA VerifiedStep ==
    ASSUME TypeOK, Driven, Supersteps, Planned, Parked, Bound, Verified, [Next]_vars
    PROVE  Verified'
<1> USE NodesAreTasks
<1>0. /\ task \in [GraphNodes -> TaskState] /\ "gate" \notin Modules /\ "finalize" \notin Modules
      /\ "gate" # "finalize" /\ (~Open => ~Open')
      /\ ck \in [created : BOOLEAN, applied : SUBSET GraphNodes, writes : SUBSET GraphNodes,
                 interrupts : SUBSET GraphNodes, plan : SUBSET Sources]
  BY ModulesAssumption, EndStays DEF TypeOK, DriveTypeOK, ThreadTypeOK, Open
<1>1. ASSUME task'["finalize"] \in {"idle", "ready", "failed"},
             "finalize" \in ck'.applied \cup ck'.writes => "finalize" \in ck.applied \cup ck.writes
      PROVE  Verified'
  BY <1>0, <1>1 DEF Verified
<1>2. CASE GateStep \/ (\E m \in Modules : ModuleStep(m))
  <2>1. PICK n \in GraphNodes \ {"finalize"}, stations \in {GateStations, ModuleStations} : Works(n, stations)
    BY <1>0, <1>2, Working
  <2>2. task["finalize"] = "idle" /\ task'["finalize"] = "idle" /\ UNCHANGED ck
    BY <1>0, <2>1, FinalizeAlone DEF Works, others
  <2> QED BY <1>1, <2>2
<1>3. CASE FinalizeStep
  <2>0. UNCHANGED ck
    BY <1>3, Working DEF Works, others
  <2>1. CASE FinalizeVerify
    <3>1. /\ guard' /\ UNCHANGED <<status, plan, node, withdrawn>>
          /\ \/ task'["finalize"] = "verified" /\ FinalGateHolds
             \/ task'["finalize"] = "refused"
      BY <1>0, <2>1 DEF FinalizeVerify, storeVars, runVars, others, caseVars
    <3>2. FinalGateHolds /\ Open => status = "running" /\ Live(plan) /\ Succeeded
      BY DeliveredRuns DEF FinalGateHolds, Live, Succeeded, NoPlan
    <3> QED BY <1>0, <2>0, <3>1, <3>2 DEF Verified, Open, Live, Succeeded
  <2>2. CASE FinalizeCommit
    <3>1. task["finalize"] = "verified" /\ task'["finalize"] = "returned" /\ FinalizeSuccess
      BY <1>0, <2>2 DEF FinalizeCommit
    <3>2. ~Open'
      BY <1>0, <3>1 DEF FinalizeSuccess, Verified, Open, Terminal, runVars
    <3> QED BY <3>1, <3>2 DEF Verified
  <2>3. CASE FinalizeRefuse
    BY <1>0, <1>1, <2>0, <2>3 DEF FinalizeRefuse
  <2> QED BY <1>3, <2>1, <2>2, <2>3 DEF FinalizeStep
<1>4. ASSUME NEW n \in GraphNodes, PersistTask(n)
      PROVE  Verified'
  <2>1. CASE n = "finalize"
    <3>1. task["finalize"] = "returned" => ~Open'
      BY <1>0 DEF Verified
    <3>2. \/ task["finalize"] = "returned" /\ task'["finalize"] = "written"
          \/ task'["finalize"] = "interrupted" /\ ck'.applied = ck.applied /\ ck'.writes = ck.writes
      BY <1>0, <1>4, <2>1 DEF PersistTask
    <3> QED BY <1>0, <3>1, <3>2 DEF Verified
  <2>2. CASE n # "finalize"
    <3>1. task["finalize"] = "idle" /\ task'["finalize"] = "idle"
      BY <1>0, <1>4, <2>2, FinalizeAlone DEF PersistTask
    <3>2. "finalize" \in ck'.applied \cup ck'.writes => "finalize" \in ck.applied \cup ck.writes
      BY <1>0, <1>4, <2>2 DEF PersistTask
    <3> QED BY <1>1, <3>1, <3>2
  <2> QED BY <2>1, <2>2
<1>5. CASE Launch
  <2>1. /\ task'["finalize"] = "written" => "finalize" \in ck.writes
        /\ task'["finalize"] \in {"idle", "ready", "written"}
        /\ ck'.applied = ck.applied /\ ck'.writes = ck.writes
    BY <1>5, Threads DEF Launch
  <2> QED BY <1>0, <2>1 DEF Verified
<1>6. CASE Onward \/ DriveOver
  <2>1. task'["finalize"] \in {"idle", "ready"}
    BY <1>6 DEF Onward, DriveOver
  <2>2. "finalize" \in ck'.applied \cup ck'.writes => "finalize" \in ck.applied \cup ck.writes
    BY <1>6, Threads DEF Onward, DriveOver
  <2> QED BY <1>1, <2>1, <2>2
<1>7. CASE Approve
  <2>1. /\ status = "paused" /\ Open /\ UNCHANGED <<task, guard, ck>>
    BY <1>7 DEF Approve, driveVars, Open, Terminal
  <2> QED BY <1>0, <2>1 DEF Verified
<1>8. CASE Aside
  <2>1. UNCHANGED <<task, guard>> /\ (guard => UNCHANGED withdrawn)
    BY <1>8 DEF Aside, driveVars
  <2>2. "finalize" \in ck'.applied \cup ck'.writes => "finalize" \in ck.applied \cup ck.writes
    BY <1>8, Threads DEF Aside
  <2>3. UNCHANGED <<status, plan, node>> \/ ~Open'
    BY <1>8 DEF Aside, runVars, ConsumeTicket, FinalizeFailure, Open, Terminal
  <2>4. CASE ~Open'
    BY <2>1, <2>4 DEF Verified
  <2>5. CASE UNCHANGED <<status, plan, node>>
    BY <1>0, <2>1, <2>2, <2>5 DEF Verified, Open, Live, Succeeded
  <2> QED BY <2>3, <2>4, <2>5
<1> QED BY <1>2, <1>3, <1>4, <1>5, <1>6, <1>7, <1>8, Steps

-----------------------------------------------------------------------------
(* The inductive invariant.                                                *)

\* Nothing is known to have happened when the run has just been created.
LEMMA InitStrong == Init => Strong
<1> SUFFICES ASSUME Init PROVE Strong
  OBVIOUS
<1> USE NodesAreTasks
<1>0. Nobody \notin Drivers /\ Api \in Drivers /\ Api \notin Conts
  BY DriversAssumption DEF Drivers
<1>1. Driven
  BY <1>0 DEF Init, Driven, Idle
<1>2. Supersteps /\ Stations
  BY DEF Init, Supersteps, Stations, NoThread, GateStations, ModuleStations, FinalizeStations
<1>3. Delivery /\ Planned
  BY DEF Init, Delivery, Delivered, Planned, PlanAgreement, NoThread, NoPlan
<1>4. Parked /\ Bound /\ Verified
  BY DEF Init, Parked, Resting, Bound, Verified, NoThread, NoPlan, Open, Terminal
<1> QED BY <1>1, <1>2, <1>3, <1>4 DEF Strong

\* Every step keeps it.
LEMMA StrongStep == TypeOK /\ Strong /\ [Next]_vars => Strong'
BY DrivenStep, SuperstepsStep, StationsStep, DeliveryStep, PlannedStep, ParkedStep, BoundStep,
   VerifiedStep DEF Strong

\* Strong holds of every run, for every route, number of continuations, retries,
\* faults and crashes.
THEOREM StrongHolds == Spec => []Strong
BY InitStrong, StrongStep, Typing, PTL DEF Spec

-----------------------------------------------------------------------------
(* What the invariant gives.                                               *)

\* A module commits one artifact and one pair of node events however often its
\* node is re-executed, and one module at a time is out at the provider.
THEOREM EveryModuleRunsOnce == Spec => []ModulesRunOnce
<1>1. TypeOK /\ Strong => ModulesRunOnce
  <2> SUFFICES ASSUME TypeOK, Strong PROVE ModulesRunOnce
    OBVIOUS
  <2>1. OneArtifactPerModule
    <3> SUFFICES ASSUME NEW m \in Modules
                 PROVE  /\ artifacts[m] \in {0, 1}
                        /\ artifacts[m] = nodeLog[m].succeeded
                        /\ nodeLog[m].succeeded <= nodeLog[m].running
                        /\ nodeLog[m].running <= 1
      BY DEF OneArtifactPerModule
    <3>1. Delivered(m)
      BY DEF Strong, Delivery
    <3> QED BY <3>1 DEF Delivered
  <2>2. OneCallAtATime
    BY DEF Strong, Stations, OneCallAtATime
  <2> QED BY <2>1, <2>2 DEF ModulesRunOnce
<1> QED BY <1>1, Typing, StrongHolds, PTL

\* The plan the graph executes from its checkpoint is the plan the store pinned,
\* whatever happened between the two commits.
THEOREM ThePlanAgrees == Spec => []PlanAgreement
<1>1. Strong => PlanAgreement
  BY DEF Strong, Planned
<1> QED BY <1>1, StrongHolds, PTL

\* A gated module never starts before the exact plan it would execute was
\* approved, on any path.
THEOREM ApprovalBinds == Spec => []ApprovalBindsExecution
<1>1. Strong => ApprovalBindsExecution
  BY ModulesAssumption DEF Strong, Bound, BoundTo, ApprovalBindsExecution
<1> QED BY <1>1, StrongHolds, PTL

\* A run succeeds only with live sources, every module linked to its artifact
\* and every gated module bound to what was approved.
THEOREM SuccessEarned == Spec => SuccessIsEarned
<1>1. TypeOK /\ Strong /\ [Next]_vars =>
          [status' = "succeeded" /\ status # "succeeded" =>
              /\ Live(plan)
              /\ \A m \in Modules : node[m] = [status |-> "succeeded", artifact |-> artifacts[m]]
              /\ \A m \in Gated : research.approved = PlanHash(m)]_vars
  <2> SUFFICES ASSUME TypeOK, Strong, [Next]_vars, status' = "succeeded", status # "succeeded"
               PROVE  /\ Live(plan)
                      /\ \A m \in Modules : node[m] = [status |-> "succeeded", artifact |-> artifacts[m]]
                      /\ \A m \in Gated : research.approved = PlanHash(m)
    OBVIOUS
  <2>1. FinalizeCommit /\ status = "running"
    BY RunSteps DEF RunStep, runVars, FinalizeFailure, Pause, Propose, Approved, PinPlan, NodeRunning,
       CompleteNode, FinalizeCommit, FinalizeSuccess, ConsumeTicket
  <2>2. Live(plan) /\ Succeeded
    BY <2>1 DEF FinalizeCommit, Strong, Verified, Open, Terminal
  <2>3. ASSUME NEW m \in Modules
        PROVE  node[m] = [status |-> "succeeded", artifact |-> artifacts[m]]
    <3>1. node[m] \in [status : NodeStatus, artifact : Nat]
      BY DEF TypeOK, RunTypeOK
    <3> QED BY <2>2, <3>1 DEF Succeeded, Strong, Delivery, Delivered
  <2>4. \A m \in Gated : research.approved = PlanHash(m)
    BY <2>2, ModulesAssumption DEF Succeeded, Strong, Bound, BoundTo
  <2> QED BY <2>2, <2>3, <2>4
<1> QED BY <1>1, Typing, StrongHolds, PTL DEF Spec, SuccessIsEarned

\* Behind the end of a run only the completion of the module whose provider call
\* was out may land: no module starts, and no run event follows.
THEOREM OnlyOpenCallsLand == Spec => OnlyOpenCallLands
<1>1. TypeOK /\ Strong /\ [Next]_vars =>
          [(status \in Terminal) =>
              /\ UNCHANGED runLog
              /\ \A m \in Modules \ {agentLock} : UNCHANGED nodeLog[m]
              /\ \A m \in Modules : UNCHANGED (nodeLog[m].running)]_vars
  <2> SUFFICES ASSUME TypeOK, Strong, [Next]_vars, status \in Terminal
               PROVE  /\ UNCHANGED runLog
                      /\ \A m \in Modules \ {agentLock} : nodeLog'[m] = nodeLog[m]
                      /\ \A m \in Modules : nodeLog'[m].running = nodeLog[m].running
    OBVIOUS
  <2>0. nodeLog \in [Modules -> [running : Nat, succeeded : Nat]]
    BY DEF TypeOK, RunTypeOK
  <2>1. CASE UNCHANGED <<runLog, nodeLog>>
    BY <2>1
  <2>2. ASSUME NEW m \in Modules, ModuleStep(m)
        PROVE  /\ UNCHANGED runLog
               /\ \A k \in Modules \ {agentLock} : nodeLog'[k] = nodeLog[k]
               /\ \A k \in Modules : nodeLog'[k].running = nodeLog[k].running
    <3>1. Delivered(m)
      BY DEF Strong, Delivery
    <3>2. CASE FinishModule(m)
      <4>1. agentLock = m
        BY <3>2 DEF FinishModule, Strong, Stations
      <4> QED BY <2>0, <3>2, <4>1 DEF FinishModule, CompleteNode
    <3>3. CASE RelinkModule(m)
      <4>1. node[m].status = "succeeded"
        BY <3>1, <3>3 DEF RelinkModule, Delivered, TypeOK, RunTypeOK
      <4> QED BY <2>0, <3>3, <4>1 DEF RelinkModule, CompleteNode
    <3>4. CASE ~(FinishModule(m) \/ RelinkModule(m))
      BY <2>1, <2>2, <3>4, ModuleRunStep DEF runVars, FailModule, FinalizeFailure, NodeRunning, Open
    <3> QED BY <3>2, <3>3, <3>4
  <2>3. CASE GateStep \/ FinalizeStep
    BY <2>1, <2>3 DEF GateStep, GateEnter, GatePause, GateReread, GateCheck, GatePin, PinPlan,
       FinalizeStep, FinalizeVerify, FinalizeCommit, FinalizeSuccess, FinalizeRefuse, FinalizeFailure,
       storeVars, runVars, Terminal
  <2>4. CASE \/ Launch \/ Onward \/ DriveOver \/ Approve \/ Aside
             \/ \E n \in GraphNodes : PersistTask(n)
    BY <2>1, <2>4 DEF Launch, Onward, DriveOver, Approve, Aside, PersistTask, FinalizeFailure,
       ConsumeTicket, storeVars, runVars, Terminal
  <2> QED BY <2>2, <2>3, <2>4, Steps DEF Strong
<1> QED BY <1>1, Typing, StrongHolds, PTL DEF Spec, OnlyOpenCallLands

-----------------------------------------------------------------------------
(* The run implements its contract, step by step.                          *)

\* The initial states map to the initial state of the contract.
LEMMA ContractInit == Init => Contract!Init
BY DEF Init, Contract!Init, NoPlan

\* A failure of the run is the contract's Fail, or nothing.
LEMMA FailsAsPromised ==
    ASSUME TypeOK, NEW code, NEW b, FinalizeFailure(code, b)
    PROVE  Contract!Fail \/ UNCHANGED Contract!vars
<1>1. CASE status \in Terminal
  BY <1>1 DEF FinalizeFailure, runVars, Contract!vars
<1>2. CASE status \notin Terminal
  <2>1. /\ status' = "failed" /\ UNCHANGED <<plan, artifacts>>
        /\ runLog' = [runLog EXCEPT !["run.failed"] = @ + 1]
        /\ runLog \in [RunEvents -> Nat]
    BY <1>2 DEF FinalizeFailure, TypeOK, RunTypeOK
  <2>2. /\ runLog'["run.failed"] = runLog["run.failed"] + 1
        /\ runLog'["run.succeeded"] = runLog["run.succeeded"]
        /\ runLog["run.failed"] \in Nat /\ runLog["run.succeeded"] \in Nat
    BY <2>1 DEF RunEvents
  <2>3. status \in {"queued", "running", "paused"}
    BY <1>2 DEF TypeOK, RunTypeOK, RunStatus
  <2> QED BY <2>1, <2>2, <2>3 DEF Contract!Fail, Contract!Open
<1> QED BY <1>1, <1>2

\* A pause or a proposal parks an open run.
LEMMA ParksAsPromised ==
    ASSUME TypeOK, Open, Pause("SOURCE_SET_EMPTY") \/ Propose
    PROVE  Contract!Park \/ UNCHANGED Contract!vars
<1>1. /\ status' = "paused" /\ UNCHANGED <<plan, artifacts>>
      /\ runLog'["run.failed"] = runLog["run.failed"]
      /\ runLog'["run.succeeded"] = runLog["run.succeeded"]
  BY DEF Pause, Propose, TypeOK, RunTypeOK, RunEvents
<1>2. status \in {"queued", "running", "paused"}
  BY DEF Open, TypeOK, RunTypeOK, RunStatus
<1> QED BY <1>1, <1>2 DEF Contract!Park, Contract!vars

\* A step of the run is a step of the contract, or leaves what it speaks of alone.
LEMMA ContractStep ==
    ASSUME TypeOK, Strong, [Next]_vars
    PROVE  [Contract!Next]_(Contract!vars)
<1> USE NodesAreTasks DEF Contract!Next
<1>0. /\ runLog \in [RunEvents -> Nat] /\ artifacts \in [Modules -> Nat]
      /\ node \in [Modules -> [status : NodeStatus, artifact : Nat]]
  BY DEF TypeOK, RunTypeOK
<1>1. CASE UNCHANGED <<status, plan, artifacts, runLog>>
  BY <1>1 DEF Contract!vars
<1>2. CASE GateStep
  <2>1. CASE GatePin
    <3>1. PinPlan(gateView) /\ plan = NoPlan /\ gateView # NoPlan
      BY <2>1 DEF GatePin, Strong, Planned
    <3>2. CASE Open
      <4>1. /\ status' = "running" /\ plan' = gateView /\ UNCHANGED artifacts
            /\ runLog' = [runLog EXCEPT !["run.running"] = @ + 1]
        BY <3>1, <3>2 DEF PinPlan, Open
      <4>2. status \in {"queued", "paused"}
        BY <3>1, <3>2 DEF Strong, Planned, Open, Terminal, TypeOK, RunTypeOK, RunStatus
      <4>3. Contract!Pin
        BY <1>0, <3>1, <4>1, <4>2 DEF Contract!Pin, RunEvents, NoPlan
      <4> QED BY <4>3
    <3>3. CASE ~Open
      BY <1>1, <3>1, <3>3 DEF PinPlan, Open, runVars
    <3> QED BY <3>2, <3>3
  <2>2. CASE GatePause
    BY <2>2, ParksAsPromised DEF GatePause, Open
  <2>3. CASE GateEnter \/ GateReread \/ GateCheck
    BY <1>1, <2>3 DEF GateEnter, GateReread, GateCheck, storeVars, runVars
  <2> QED BY <1>2, <2>1, <2>2, <2>3 DEF GateStep
<1>3. CASE FinalizeStep
  <2>1. CASE FinalizeVerify
    BY <1>1, <2>1 DEF FinalizeVerify, storeVars, runVars
  <2>2. CASE FinalizeCommit
    <3>1. CASE status = "running"
      <4>1. /\ status' = "succeeded" /\ UNCHANGED <<plan, artifacts>>
            /\ runLog' = [runLog EXCEPT !["run.succeeded"] = @ + 1]
        BY <2>2, <3>1 DEF FinalizeCommit, FinalizeSuccess
      <4>2. Live(plan) /\ Succeeded
        BY <2>2, <3>1 DEF FinalizeCommit, Strong, Verified, Open, Terminal
      <4>3. \A m \in Modules : artifacts[m] > 0
        BY <4>2 DEF Succeeded, Strong, Delivery, Delivered
      <4>4. Contract!Succeed
        BY <1>0, <3>1, <4>1, <4>2, <4>3 DEF Contract!Succeed, RunEvents, Live
      <4> QED BY <4>4
    <3>2. CASE status # "running"
      BY <1>1, <2>2, <3>2 DEF FinalizeCommit, FinalizeSuccess, runVars
    <3> QED BY <3>1, <3>2
  <2>3. CASE FinalizeRefuse
    BY <2>3, FailsAsPromised DEF FinalizeRefuse
  <2> QED BY <1>3, <2>1, <2>2, <2>3 DEF FinalizeStep
<1>4. ASSUME NEW m \in Modules, ModuleStep(m)
      PROVE  [Contract!Next]_(Contract!vars)
  <2>0. Delivered(m)
    BY DEF Strong, Delivery
  <2>1. CASE FailModule(m, error')
    BY <2>1, FailsAsPromised DEF FailModule
  <2>2. CASE UNCHANGED runVars \/ NodeRunning(m)
    BY <1>1, <2>2 DEF runVars, NodeRunning
  <2>3. CASE RelinkModule(m)
    BY <1>0, <1>1, <2>3 DEF RelinkModule, CompleteNode
  <2>4. CASE FinishModule(m)
    <3>1. artifacts[m] = 0 /\ plan # NoPlan
      BY <2>0, <2>4 DEF FinishModule, Delivered, Strong, Planned
    <3>2. artifacts' = [artifacts EXCEPT ![m] = 1] /\ UNCHANGED <<status, plan, runLog>>
      BY <1>0, <2>4, <3>1 DEF FinishModule, CompleteNode
    <3>3. Contract!Deliver(m)
      BY <1>0, <3>1, <3>2 DEF Contract!Deliver, NoPlan
    <3> QED BY <3>3
  <2>5. CASE Propose /\ Open
    BY <2>5, ParksAsPromised
  <2> QED BY <1>4, <2>1, <2>2, <2>3, <2>4, <2>5, ModuleRunStep
<1>5. CASE Approve
  <2>1. /\ status = "paused" /\ status' = "running" /\ plan # NoPlan /\ UNCHANGED <<plan, artifacts>>
        /\ runLog' = [runLog EXCEPT !["research.plan_approved"] = @ + 1]
    BY <1>5 DEF Approve, Approved, Live, NoPlan
  <2>2. Contract!Release
    BY <1>0, <2>1 DEF Contract!Release, RunEvents, NoPlan
  <2> QED BY <2>2
<1>6. CASE \/ Launch \/ Onward \/ DriveOver \/ Aside \/ \E n \in GraphNodes : PersistTask(n)
  <2>1. CASE UNCHANGED runVars \/ ConsumeTicket
    BY <1>1, <2>1 DEF runVars, ConsumeTicket
  <2>2. CASE \E code \in RunErrors : FinalizeFailure(code, Nobody)
    BY <2>2, FailsAsPromised
  <2> QED BY <1>6, <2>1, <2>2 DEF Launch, Onward, DriveOver, Aside, PersistTask, storeVars
<1> QED BY <1>2, <1>3, <1>4, <1>5, <1>6, Steps DEF Strong

\* Every run keeps the contract: one plan pinned once, a pause the only stop
\* before the end, one recorded end, success only when every module delivered.
THEOREM RunImplementsContract == Spec => RunKeepsContract
<1>1. Init => Contract!Init
  BY ContractInit
<1>2. TypeOK /\ Strong /\ [Next]_vars => [Contract!Next]_(Contract!vars)
  BY ContractStep
<1> QED BY <1>1, <1>2, Typing, StrongHolds, PTL DEF Spec, RunKeepsContract, Contract!Spec

-----------------------------------------------------------------------------
(* An open run has a driver, when infrastructure faults hit continuations  *)
(* only: a fault of the inline start_run, or of the retry timer's own read *)
(* of the status, does leave a run that nobody drives.                     *)

Away == {"ready", "locking", "timer"}

\* A thread that has no checkpoint yet has somebody who brings its input.
Created ==
    /\ holder # Nobody /\ Open => ck.created
    /\ ~ck.created /\ Open => ck.interrupts = {}
    /\ up /\ Open /\ ~ck.created =>
           \E d \in Drivers : driver[d].st \in Away /\ driver[d].kind \in {"start", "recover"}

\* A run that was released while its drive is still on the way to park has
\* somebody who follows that drive.
Followed ==
    /\ \A d \in Drivers : driver[d].st # "idle" /\ driver[d].kind = "wait" => status # "queued"
    /\ up /\ status = "running" /\ (\E n \in GraphNodes : Resting(n)) =>
           \E c \in Drivers \ {holder} : driver[c].st # "idle"

Attended == SlotHasDriver /\ Created /\ Followed

\* A run that has ended needs nobody.
LEMMA ClosedIsAttended ==
    ASSUME ~Open'
    PROVE  Attended'
BY DEF Attended, SlotHasDriver, Created, Followed, Open, Terminal

\* Drivers on their way to the lock may move on their way; a continuation that
\* waits for a run to be running may give up when it is not.
LEMMA AttendedBeside ==
    ASSUME Attended, UNCHANGED <<up, status, ck, task, holder>>,
           \A x \in Drivers :
               \/ driver'[x] = driver[x]
               \/ driver[x].st \in Away /\ driver'[x].st \in Away /\ driver'[x].kind = driver[x].kind
               \/ driver'[x].st = "idle" /\ driver[x].kind = "wait" /\ status # "running"
    PROVE  Attended'
<1>1. SlotHasDriver'
  <2> SUFFICES ASSUME up, status \in {"queued", "running"}
               PROVE  \E d \in Drivers : driver'[d].st # "idle"
    BY DEF SlotHasDriver
  <2>1. PICK d \in Drivers : driver[d].st # "idle"
    BY DEF Attended, SlotHasDriver
  <2>2. ~(driver[d].kind = "wait" /\ status # "running")
    BY <2>1 DEF Attended, Followed
  <2> QED BY <2>1, <2>2 DEF Away
<1>2. Created'
  BY DEF Attended, Created, Open, Away
<1>3. Followed'
  BY DEF Attended, Followed, Resting, Away
<1> QED BY <1>1, <1>2, <1>3 DEF Attended

\* A step inside a task leaves its drive in place.
LEMMA AttendedInside ==
    ASSUME TypeOK, Driven, Attended, Open, Open', UNCHANGED <<up, driver, holder>>,
           ck'.created = ck.created, status' = "queued" => status = "queued",
           NEW n \in GraphNodes, task[n] # "idle",
           status' = "running" /\ (\E k \in GraphNodes : Resting(k)') =>
               status = "running" /\ \E k \in GraphNodes : Resting(k)
    PROVE  Attended'
<1>1. holder \in Drivers /\ driver[holder].st = "driving" /\ holder # Nobody
  BY WorkIsHeld, DriversAssumption DEF Drivers
<1>2. ck.created
  BY <1>1 DEF Attended, Created
<1>3. SlotHasDriver' /\ Created'
  BY <1>1, <1>2 DEF SlotHasDriver, Created
<1>4. Followed'
  BY DEF Attended, Followed
<1> QED BY <1>3, <1>4 DEF Attended

\* A drive that ends with a return leaves the run to a continuation, to the
\* waiting caller that follows it, or at rest.
LEMMA AttendedReturn ==
    ASSUME TypeOK, Strong, Attended, Open, Open', NEW d \in Drivers, AdvanceStep(d) \/ ParkDrive(d),
           DriveOver, EndDrive(d)
    PROVE  Attended'
<1>0. /\ up /\ up' = up /\ holder = d /\ d # Nobody /\ status' = status
      /\ driver \in [Drivers -> DriverState] /\ driver[d].st = "driving"
      /\ Api \notin Conts /\ Conts \subseteq Drivers /\ Api \in Drivers
      /\ Idle.st = "idle"
  BY DriversAssumption DEF AdvanceStep, ParkDrive, InDrive, Drivers, TypeOK, DriverTypeOK, storeVars,
     runVars, Idle
<1>1. ck.created /\ ck'.created
  <2>1. ck.created
    BY <1>0 DEF Attended, Created
  <2>2. ck' = ck \/ ck' = NextThread
    BY DEF AdvanceStep, ParkDrive, NextThread, Open
  <2> QED BY <2>1, <2>2, Threads
<1>2. status # "queued" /\ (d = Api \/ \E c \in Drivers \ {d} : status = "running" => driver[c].st # "idle")
  <2>1. CASE AdvanceStep(d)
    <3>1. \/ "gate" \in ck.writes /\ driver[d].kind \in {"start", "resume"}
          \/ Frontier(ck.applied \cup ck.writes) = {}
      BY <1>0, <2>1, DriversAssumption DEF AdvanceStep, DriveOver, Drivers
    <3>2. CASE "gate" \in ck.writes /\ driver[d].kind \in {"start", "resume"}
      BY <1>0, <3>2 DEF Strong, Driven, Planned, Open, Terminal
    <3>3. CASE Frontier(ck.applied \cup ck.writes) = {}
      <4>1. ck.applied \cup ck.writes \in SUBSET GraphNodes
        BY DEF TypeOK, ThreadTypeOK
      <4>2. Closed(ck.applied \cup ck.writes)
        BY DEF Strong, Supersteps, Frontier, Closed
      <4>3. "finalize" \in ck.applied \cup ck.writes
        BY <3>3, <4>1, <4>2, NothingLeft
      <4> QED BY <4>3 DEF Strong, Verified
    <3> QED BY <3>1, <3>2, <3>3
  <2>2. CASE ParkDrive(d)
    <3>1. \E n \in GraphNodes : Resting(n)
      BY <2>2 DEF ParkDrive, Resting
    <3>2. status # "queued"
      BY <3>1 DEF Strong, Parked
    <3>3. CASE status = "running"
      BY <1>0, <3>1, <3>2, <3>3 DEF Attended, Followed
    <3>4. CASE status # "running" /\ d # Api
      BY <1>0, <3>2, <3>4
    <3> QED BY <3>2, <3>3, <3>4
  <2> QED BY <2>1, <2>2
<1>3. SlotHasDriver'
  <2> SUFFICES ASSUME status = "running"
               PROVE  \E x \in Drivers : driver'[x].st # "idle"
    BY <1>0, <1>2 DEF SlotHasDriver
  <2>1. CASE d = Api
    <3>1. PICK c \in Conts : driver' = [[driver EXCEPT ![d] = Idle] EXCEPT
                                           ![c] = [st |-> "ready", kind |-> "wait", attempt |-> 0]]
      BY <1>0, <2>1 DEF EndDrive, WithContinuation
    <3>2. driver'[c].st = "ready"
      BY <1>0, <3>1
    <3> QED BY <1>0, <3>2
  <2>2. CASE d # Api
    <3>1. driver' = [driver EXCEPT ![d] = Idle]
      BY <2>2 DEF EndDrive
    <3> QED BY <1>0, <1>2, <2>2, <3>1
  <2> QED BY <2>1, <2>2
<1>4. Created'
  BY <1>1 DEF Created, DriveOver
<1>5. Followed'
  BY <1>0, <1>2 DEF Followed, DriveOver, Resting
<1> QED BY <1>3, <1>4, <1>5 DEF Attended

\* A drive that ends with a raise is retried by its own continuation; a request
\* that resumed a thread without checkpoint leaves it to the one who brings the input.
LEMMA AttendedRaise ==
    ASSUME TypeOK, Strong, Attended, Open, Open', FaultSites \subseteq {"drive"}, NEW d \in Drivers,
           ResumeWithoutThread(d) \/ DriveFault(d)
    PROVE  Attended'
<1>0. /\ up /\ up' = up /\ driver[d].st # "idle" /\ ck' = ck /\ holder' = Nobody
      /\ driver \in [Drivers -> DriverState]
      /\ \A n \in GraphNodes : task'[n] = "idle"
      /\ AfterRaise(d) /\ Idle.st = "idle"
  BY DEF ResumeWithoutThread, DriveFault, RaiseFromDrive, InDrive, Open, TypeOK, DriverTypeOK, Idle
<1>1. status' = status
  BY <1>0 DEF AfterRaise, FinalizeFailure, runVars, Open, Terminal
<1>2. CASE d # Api
  <2>1. driver' = [driver EXCEPT ![d].st = "timer", ![d].attempt = @ + 1]
    BY <1>0, <1>2 DEF AfterRaise, FinalizeFailure, Open, Terminal
  <2>2. /\ driver'[d].st = "timer" /\ driver'[d].kind = driver[d].kind
        /\ \A x \in Drivers \ {d} : driver'[x] = driver[x]
    BY <1>0, <2>1 DEF DriverState
  <2>3. SlotHasDriver'
    BY <2>2 DEF SlotHasDriver
  <2>4. Created'
    <3>1. CASE ck.created
      BY <1>0, <3>1 DEF Created
    <3>2. CASE ~ck.created
      <4>1. holder = Nobody
        BY <3>2 DEF Attended, Created
      <4>2. driver[d].st # "driving"
        BY <4>1, DriversAssumption DEF Strong, Driven, Drivers
      <4> QED BY <1>0, <2>2, <3>2, <4>2 DEF Attended, Created, Open, Away
    <3> QED BY <3>1, <3>2
  <2>5. Followed'
    BY <1>0, <1>1, <2>2 DEF Attended, Followed, Resting
  <2> QED BY <2>3, <2>4, <2>5 DEF Attended
<1>3. CASE d = Api
  <2>1. ResumeWithoutThread(d)
    BY <1>3 DEF DriveFault, Site
  <2>2. PICK c \in Drivers : driver[c].st \in Away /\ driver[c].kind \in {"start", "recover"}
    BY <1>0, <2>1 DEF ResumeWithoutThread, Attended, Created
  <2>3. driver' = [driver EXCEPT ![d] = Idle] /\ c # d
    BY <1>0, <1>3, <2>1, <2>2 DEF AfterRaise, ResumeWithoutThread
  <2>4. driver'[c] = driver[c] /\ driver'[d] = Idle /\ \A x \in Drivers \ {d} : driver'[x] = driver[x]
    BY <1>0, <2>3
  <2>5. SlotHasDriver' /\ Created'
    BY <1>0, <2>2, <2>4 DEF SlotHasDriver, Created, Attended, Open, Away
  <2>6. Followed'
    BY <1>0, <1>1, <2>4 DEF Attended, Followed, Resting
  <2> QED BY <2>5, <2>6 DEF Attended
<1> QED BY <1>2, <1>3

\* The callers outside: resume, approve, ingest, withdraw.
LEMMA AttendedClient ==
    ASSUME TypeOK, Strong, Attended, Open, Open', Client
    PROVE  Attended'
<1>0. /\ driver \in [Drivers -> DriverState] /\ Api \in Drivers /\ Api \notin Conts
      /\ Conts \subseteq Drivers /\ Nobody \notin Drivers
  BY DriversAssumption DEF TypeOK, DriverTypeOK, Drivers
<1>1. CASE ResumeExpired
  BY <1>1 DEF ResumeExpired, IdentityFailure, FinalizeFailure, Open, Terminal
<1>2. CASE \E s \in Sources : Ingest(s) \/ Withdraw(s)
  BY <1>2, AttendedBeside DEF Ingest, Withdraw, storeVars, runVars, procVars, driveVars
<1>3. CASE Resume
  <2>1. /\ up /\ up' = up /\ UNCHANGED <<status, ck>> /\ holder = Nobody /\ holder' = Nobody
        /\ task' = task /\ driver[Api].st = "idle"
        /\ driver' = [driver EXCEPT ![Api] = [st |-> "locking", kind |-> "resume", attempt |-> 0]]
    BY <1>3 DEF Resume, ConsumeTicket, driveVars
  <2>2. /\ driver'[Api].st = "locking" /\ driver'[Api].kind = "resume"
        /\ \A x \in Drivers \ {Api} : driver'[x] = driver[x]
    BY <1>0, <2>1
  <2>3. SlotHasDriver' /\ Created'
    BY <1>0, <2>1, <2>2 DEF SlotHasDriver, Created, Attended, Open, Away
  <2>4. \A n \in GraphNodes : task'[n] = "idle"
    BY <2>1 DEF Strong, Driven
  <2>5. Followed'
    BY <2>1, <2>2, <2>4 DEF Attended, Followed, Resting
  <2> QED BY <2>3, <2>5 DEF Attended
<1>4. CASE Approve
  <2>1. PICK c \in {x \in Conts : driver[x].st = "idle"} :
            driver' = [driver EXCEPT ![c] = [st |-> "ready", kind |-> "wait", attempt |-> 0]]
    BY <1>4 DEF Approve, Approved, WithContinuation
  <2>2. /\ c \in Drivers /\ driver[c].st = "idle" /\ driver'[c].st = "ready" /\ driver'[c].kind = "wait"
        /\ \A x \in Drivers \ {c} : driver'[x] = driver[x]
    BY <1>0, <2>1
  <2>3. /\ up /\ up' = up /\ UNCHANGED <<ck, holder, task>> /\ status' = "running"
    BY <1>4 DEF Approve, Approved, driveVars
  <2>4. holder # c
    BY <1>0, <2>2 DEF Strong, Driven
  <2>5. SlotHasDriver' /\ Created'
    BY <2>2, <2>3 DEF SlotHasDriver, Created, Attended, Open, Away
  <2>6. Followed'
    BY <2>2, <2>3, <2>4 DEF Followed
  <2> QED BY <2>5, <2>6 DEF Attended
<1> QED BY <1>1, <1>2, <1>3, <1>4 DEF Client

\* A step of a driver.
LEMMA AttendedDriver ==
    ASSUME TypeOK, Strong, Attended, Open, Open', [Next]_vars, FaultSites \subseteq {"drive"},
           NEW d \in Drivers, DriverStep(d) \/ DriveFault(d) \/ PreLockFault(d) \/ TimerFault(d)
    PROVE  Attended'
<1>0. /\ driver \in [Drivers -> DriverState] /\ Idle.st = "idle" /\ Nobody \notin Drivers
  BY DriversAssumption DEF TypeOK, DriverTypeOK, Drivers, Idle
<1>1. CASE BeginDrive(d)
  <2>1. driver[d].st = "ready" /\ driver' = [driver EXCEPT ![d].st = "locking"]
        /\ UNCHANGED <<up, runVars, ck, driveVars>>
    BY <1>1 DEF BeginDrive, IdentityFailure, FinalizeFailure, Open, Terminal
  <2>2. /\ driver'[d].st = "locking" /\ driver'[d].kind = driver[d].kind
        /\ \A x \in Drivers \ {d} : driver'[x] = driver[x]
    BY <1>0, <2>1 DEF DriverState
  <2> QED BY <2>1, <2>2, AttendedBeside DEF runVars, driveVars, Away
<1>2. CASE TimerFires(d)
  <2>1. /\ driver[d].st = "timer" /\ UNCHANGED <<up, storeVars, ck, driveVars>>
        /\ \/ driver' = [driver EXCEPT ![d].st = "ready"]
           \/ driver' = [driver EXCEPT ![d] = Idle] /\ driver[d].kind = "wait" /\ status # "running"
    BY <1>2 DEF TimerFires, Open
  <2>2. /\ \A x \in Drivers \ {d} : driver'[x] = driver[x]
        /\ \/ driver'[d].st = "ready" /\ driver'[d].kind = driver[d].kind
           \/ driver'[d].st = "idle" /\ driver[d].kind = "wait" /\ status # "running"
    BY <1>0, <2>1 DEF DriverState
  <2> QED BY <2>1, <2>2, AttendedBeside DEF storeVars, runVars, driveVars, Away
<1>3. CASE PreLockFault(d)
  <2>1. /\ d # Api /\ driver[d].st \in {"ready", "locking"} /\ AfterRaise(d)
        /\ UNCHANGED <<up, ck, driveVars>>
    BY <1>3 DEF PreLockFault, Site
  <2>2. driver' = [driver EXCEPT ![d].st = "timer", ![d].attempt = @ + 1] /\ UNCHANGED runVars
    BY <2>1 DEF AfterRaise, FinalizeFailure, Open, Terminal
  <2>3. /\ driver'[d].st = "timer" /\ driver'[d].kind = driver[d].kind
        /\ \A x \in Drivers \ {d} : driver'[x] = driver[x]
    BY <1>0, <2>2 DEF DriverState
  <2> QED BY <2>1, <2>2, <2>3, AttendedBeside DEF runVars, driveVars, Away
<1>4. CASE AcquireThread(d)
  <2>1. /\ up' = up /\ holder' = d /\ status' = status /\ ck' = [ck EXCEPT !.created = TRUE]
        /\ driver' = [driver EXCEPT ![d].st = "driving"] /\ driver[d].st = "locking"
        /\ \A n \in GraphNodes : task'[n] \in {"idle", "ready", "written"}
    BY <1>4 DEF AcquireThread, storeVars, runVars
  <2>2. /\ driver'[d].st = "driving" /\ driver'[d].kind = driver[d].kind /\ ck'.created
        /\ \A x \in Drivers \ {d} : driver'[x] = driver[x]
    BY <1>0, <2>1 DEF DriverState, TypeOK, ThreadTypeOK
  <2>3. SlotHasDriver' /\ Created'
    BY <2>2 DEF SlotHasDriver, Created
  <2>4. Followed'
    BY <2>1, <2>2 DEF Attended, Followed, Resting
  <2> QED BY <2>3, <2>4 DEF Attended
<1>5. CASE AdvanceStep(d)
  <2>1. CASE Onward /\ UNCHANGED driver
    <3>1. /\ UNCHANGED <<up, driver, holder, status>> /\ holder # Nobody
          /\ \A n \in GraphNodes : task'[n] \in {"idle", "ready"}
      BY <1>5, <2>1 DEF AdvanceStep, Onward, storeVars, runVars
    <3>2. ck'.created
      BY <2>1, <3>1, Threads DEF Onward, Attended, Created
    <3>3. SlotHasDriver' /\ Created'
      BY <3>1, <3>2 DEF Attended, SlotHasDriver, Created
    <3>4. Followed'
      BY <3>1 DEF Attended, Followed, Resting
    <3> QED BY <3>3, <3>4 DEF Attended
  <2>2. CASE DriveOver /\ EndDrive(d)
    BY <1>5, <2>2, AttendedReturn
  <2> QED BY <1>5, <2>1, <2>2, Advancing
<1>6. CASE ParkDrive(d)
  <2>1. DriveOver /\ EndDrive(d)
    BY <1>6, Endings DEF Ending, ParkDrive
  <2> QED BY <1>6, <2>1, AttendedReturn
<1>7. CASE ResumeWithoutThread(d) \/ DriveFault(d)
  BY <1>7, AttendedRaise
<1>8. CASE DriveTerminal(d) \/ AbortDrive(d) \/ GatePauseRefused(d) \/ TimerFault(d)
  <2>1. ~Open' \/ ~Open
    BY <1>8 DEF DriveTerminal, AbortDrive, GatePauseRefused, TimerFault, FinalizeFailure, Open, Terminal
  <2> QED BY <2>1
<1> QED BY <1>1, <1>2, <1>3, <1>4, <1>5, <1>6, <1>7, <1>8 DEF DriverStep

\* Every step leaves an open run attended.
LEMMA AttendedStep ==
    ASSUME TypeOK, Strong, Attended, FaultSites \subseteq {"drive"}, [Next]_vars
    PROVE  Attended'
<1> USE NodesAreTasks
<1>0. /\ task \in [GraphNodes -> TaskState] /\ "gate" \notin Modules /\ "finalize" \notin Modules
      /\ (~Open => ~Open') /\ Driven
  BY ModulesAssumption, EndStays DEF TypeOK, DriveTypeOK, Open, Strong
<1>1. CASE ~Open'
  BY <1>1, ClosedIsAttended
<1>2. CASE Open'
  <2> USE <1>0, <1>2
  <2>1. CASE GateStep
    <3>1. /\ UNCHANGED <<up, driver, holder>> /\ ck' = ck /\ task["gate"] # "idle"
      BY <2>1, Working DEF Works, others
    <3>2. CASE GatePin
      <4>1. /\ \A n \in GraphNodes : ~Resting(n)'
            /\ status' = "queued" => status = "queued"
        BY <3>1, <3>2, GateAlone DEF GatePin, PinPlan, runVars, Strong, Resting
      <4> QED BY <3>1, <4>1, AttendedInside
    <3>3. CASE GatePause
      BY <3>1, <3>3, AttendedInside DEF GatePause, Pause
    <3>4. CASE GateEnter \/ GateReread \/ GateCheck
      <4>1. UNCHANGED status /\ \A n \in GraphNodes : Resting(n)' => Resting(n)
        BY <3>4 DEF GateEnter, GateReread, GateCheck, storeVars, runVars, Resting
      <4> QED BY <3>1, <4>1, AttendedInside
    <3> QED BY <2>1, <3>2, <3>3, <3>4 DEF GateStep
  <2>2. CASE FinalizeStep
    <3>1. /\ UNCHANGED <<up, driver, holder>> /\ ck' = ck /\ task["finalize"] # "idle"
      BY <2>2, Working DEF Works, others
    <3>2. UNCHANGED status
      BY <2>2 DEF FinalizeStep, FinalizeVerify, FinalizeCommit, FinalizeRefuse, FinalizeSuccess,
                  FinalizeFailure, storeVars, runVars, Open, Terminal
    <3>3. \A n \in GraphNodes : Resting(n)' => Resting(n)
      BY <2>2 DEF FinalizeStep, FinalizeVerify, FinalizeCommit, FinalizeRefuse, Resting
    <3> QED BY <3>1, <3>2, <3>3, AttendedInside
  <2>3. ASSUME NEW m \in Modules, ModuleStep(m)
        PROVE  Attended'
    <3>1. /\ UNCHANGED <<up, driver, holder>> /\ ck' = ck /\ task[m] # "idle"
          /\ \A k \in GraphNodes \ {m} : task'[k] = task[k]
      BY <2>3, Working DEF Works, others
    <3>2. CASE Propose
      BY <3>1, <3>2, AttendedInside DEF Propose
    <3>3. CASE ~Resting(m)' /\ (UNCHANGED runVars \/ FailModule(m, error')
                                  \/ NodeRunning(m) \/ CompleteNode(m))
      <4>1. UNCHANGED status
        BY <3>3 DEF runVars, FailModule, FinalizeFailure, NodeRunning, CompleteNode, Open, Terminal
      <4>2. \A k \in GraphNodes : Resting(k)' => Resting(k)
        BY <3>1, <3>3 DEF Resting
      <4> QED BY <3>1, <4>1, <4>2, AttendedInside
    <3> QED BY <2>3, <3>2, <3>3, ModuleRunStep
  <2>4. ASSUME NEW n \in GraphNodes, PersistTask(n)
        PROVE  Attended'
    <3>1. /\ UNCHANGED <<up, driver, holder, status>> /\ task[n] # "idle"
          /\ \A k \in GraphNodes : Resting(k)' => Resting(k)
      BY <2>4 DEF PersistTask, storeVars, runVars, Resting
    <3>2. ck'.created = ck.created
      BY <2>4 DEF PersistTask, TypeOK, ThreadTypeOK
    <3> QED BY <3>1, <3>2, AttendedInside
  <2>5. ASSUME NEW d \in Drivers, DriverStep(d) \/ DriveFault(d) \/ PreLockFault(d) \/ TimerFault(d)
        PROVE  Attended'
    BY <2>5, AttendedDriver
  <2>6. CASE Client
    BY <2>6, AttendedClient
  <2>7. CASE Crash
    BY <2>7 DEF Crash, Attended, SlotHasDriver, Created, Followed, Resting, NoThread, Idle
  <2>8. CASE Expire \/ UNCHANGED vars
    BY <2>8, AttendedBeside DEF Expire, vars, storeVars, runVars, procVars, driveVars
  <2>9. CASE Restart
    <3>1. CASE ck.interrupts # {} /\ status # "running" /\ UNCHANGED <<status, ck, driver, driveVars>>
      <4>1. status # "queued" /\ ck.created
        BY <3>1 DEF Strong, Parked, Attended, Created
      <4> QED BY <3>1, <4>1 DEF Attended, SlotHasDriver, Created, Followed, driveVars
    <3>2. ASSUME NEW c \in Conts, UNCHANGED <<status, ck, driveVars>>,
                 driver' = [driver EXCEPT ![c] = [st |-> "ready", kind |-> "recover", attempt |-> 0]]
          PROVE  Attended'
      <4>1. /\ c \in Drivers /\ driver \in [Drivers -> DriverState] /\ holder = Nobody /\ ~up
            /\ \A n \in GraphNodes : task[n] = "idle"
        BY <2>9, DownHoldsNothing DEF Restart, Driven, Drivers, TypeOK, DriverTypeOK
      <4>2. /\ driver'[c].st = "ready" /\ driver'[c].kind = "recover"
            /\ \A x \in Drivers \ {c} : driver'[x] = driver[x]
        BY <3>2, <4>1
      <4>3. SlotHasDriver' /\ Created'
        BY <3>2, <4>1, <4>2 DEF Attended, SlotHasDriver, Created, driveVars, Away, Open
      <4>4. Followed'
        BY <3>2, <4>1, <4>2 DEF Attended, Followed, driveVars, Resting
      <4> QED BY <4>3, <4>4 DEF Attended
    <3> QED BY <2>9, <3>1, <3>2
            DEF Restart, IdentityFailure, FinalizeFailure, Open, Terminal, runVars
  <2> QED BY <2>1, <2>2, <2>3, <2>4, <2>5, <2>6, <2>7, <2>8, <2>9 DEF Next, Fault
<1> QED BY <1>1, <1>2

\* A run that holds an admission slot is driven by somebody, or by a retry timer,
\* while the process is up, however its continuations fault, crash and race.
THEOREM SlotsAreDriven ==
    ASSUME FaultSites \subseteq {"drive"}
    PROVE  Spec => []SlotHasDriver
<1>1. Init => Attended
  BY NodesAreTasks, DriversAssumption
     DEF Init, Attended, SlotHasDriver, Created, Followed, Drivers, NoThread, Idle, Away, Resting
<1>2. TypeOK /\ Strong /\ Attended /\ [Next]_vars => Attended'
  BY AttendedStep
<1>3. Attended => SlotHasDriver
  BY DEF Attended
<1> QED BY <1>1, <1>2, <1>3, Typing, StrongHolds, PTL DEF Spec
=============================================================================
