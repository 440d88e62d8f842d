-------------------------- MODULE ProviderLedgerProofs --------------------------
(***************************************************************************)
(* Safety of the provider loop and its ledger, for any number of runs,     *)
(* slots, modules and crashes, any limits and any usages.                  *)
(***************************************************************************)
EXTENDS ProviderLedger, FiniteSetTheorems, TLAPS

-----------------------------------------------------------------------------
(* Slots.                                                                  *)

Holders == {r \in Runs : Holding(r)}

\* TypeOK without the upper bound on free, which needs SlotsReturned.
Types ==
    /\ used \in [Runs -> [Dimensions -> Nat]]
    /\ inflight \in [Runs -> BOOLEAN]
    /\ left \in [Runs -> Nat] /\ failed \in [Runs -> BOOLEAN]
    /\ loop \in [Runs -> LoopState]
    /\ free \in Nat
    /\ calls \in [Runs -> Nat]
    /\ billed \in [Runs -> [Tokens -> Nat]] /\ settled \in [Runs -> [Tokens -> Nat]]
    /\ crashes \in Nat

\* What a step of run r may do to the slots: nothing, take one, return one.
SlotStep(r) ==
    /\ \A s \in Runs \ {r} : loop'[s] = loop[s]
    /\ \/ Holding(r)' = Holding(r) /\ free' = free
       \/ ~Holding(r) /\ Holding(r)' /\ free' = free - 1
       \/ Holding(r) /\ ~Holding(r)' /\ free' = free + 1

\* A step that moves one run keeps slots and holders in balance.
LEMMA SlotStepBalances ==
    ASSUME NEW r \in Runs, SlotStep(r), SlotsReturned, free \in Nat, free' \in Nat
    PROVE  SlotsReturned'
<1> DEFINE H == {s \in Runs : Holding(s)}
           K == {s \in Runs : Holding(s)'}
<1>1. IsFiniteSet(H)
  BY RunsAssumption, FS_Subset DEF Holding
<1>2. Cardinality(H) \in Nat /\ free + Cardinality(H) = Slots
  BY <1>1, FS_CardinalityType DEF SlotsReturned, Holding
<1>3. \A s \in Runs \ {r} : Holding(s)' = Holding(s)
  BY DEF SlotStep, Holding
<1>4. CASE Holding(r)' = Holding(r) /\ free' = free
  <2>1. K = H
    BY <1>3, <1>4
  <2> QED BY <2>1, <1>2, <1>4 DEF SlotsReturned, Holding
<1>5. CASE ~Holding(r) /\ Holding(r)' /\ free' = free - 1
  <2>1. K = H \cup {r} /\ r \notin H
    BY <1>3, <1>5
  <2>2. Cardinality(K) = Cardinality(H) + 1
    BY <2>1, <1>1, FS_AddElement
  <2> HIDE DEF H, K
  <2>3. free' + Cardinality(K) = Slots
    BY <2>2, <1>2, <1>5
  <2> QED BY <2>3 DEF SlotsReturned, Holding, K
<1>6. CASE Holding(r) /\ ~Holding(r)' /\ free' = free + 1
  <2>1. K = H \ {r} /\ r \in H
    BY <1>3, <1>6
  <2>2. Cardinality(K) = Cardinality(H) - 1
    BY <2>1, <1>1, FS_RemoveElement
  <2> HIDE DEF H, K
  <2>3. free' + Cardinality(K) = Slots
    BY <2>2, <1>2, <1>6
  <2> QED BY <2>3 DEF SlotsReturned, Holding, K
<1> QED BY <1>4, <1>5, <1>6 DEF SlotStep

-----------------------------------------------------------------------------
(* The ledger.                                                             *)

\* A request is open from its reservation to its reconciliation.
Working(r) == loop[r].at \in {"create", "creating", "retrying", "answered"}

\* A create call has been booked and has not gone out yet.
Booked(r) == loop[r].at = "create" \/ (loop[r].at = "retrying" /\ loop[r].then = "create")

\* While a loop works on a request the ledger holds exactly its reservation on
\* top of the settled usage, and nothing on top of it when no request is open.
LedgerHolds(r) ==
    /\ Working(r) => inflight[r] /\ \A d \in Tokens : used[r][d] = settled[r][d] + loop[r].ask[d]
    /\ ~inflight[r] => \A d \in Tokens : used[r][d] = settled[r][d]
    /\ \A d \in Tokens : used[r][d] >= settled[r][d]
    /\ loop[r].at = "segment" => loop[r].then # "create"

CallsCovered(r) ==
    calls[r] + (IF Booked(r) THEN 1 ELSE 0) <= used[r]["turns"] + used[r]["provider_retries"]

\* A module is underway until it has committed its artifact or failed.
Underway(l) ==
    \/ l.at \notin {"idle", "segment", "raised"}
    \/ l.at = "segment" /\ l.then \in {"enter", "count", "done"}

LeftToDo(r) == Underway(loop[r]) => left[r] > 0

Inv == Types /\ \A r \in Runs : LedgerHolds(r) /\ CallsCovered(r) /\ LeftToDo(r)

\* A step of one run.
RunStep(r) == StartModule(r) \/ Step(r) \/ EndedElsewhere(r) \/ Cancelled(r)

\* What the assumptions say, in the form the steps below use it.
LEMMA Constants ==
    /\ Limit \in [Dimensions -> Nat]
    /\ Asks \subseteq [Tokens -> Nat] /\ Bills \subseteq [Tokens -> Nat] /\ Segments \subseteq Nat
    /\ Tokens \subseteq Dimensions /\ Meters \subseteq Dimensions
    /\ \A d \in Tokens : d \notin Meters
    /\ Slots \in Nat /\ ModuleCount \in Nat /\ MaxCrashes \in Nat
BY LimitAssumption, UsageAssumption, CountsAssumption DEF Dimensions

\* The invariant holds when the runs are created.
LEMMA InitInv == Init => Inv /\ SlotsReturned
<1> SUFFICES ASSUME Init PROVE Inv /\ SlotsReturned
  OBVIOUS
<1>1. Types
  BY Constants DEF Init, Types, Rest, NoTokens, LoopState
<1>2. \A r \in Runs : LedgerHolds(r) /\ CallsCovered(r) /\ LeftToDo(r)
  BY Constants DEF Init, LeftToDo, Underway, LedgerHolds, CallsCovered, Working, Booked, Rest, NoTokens, Meters
<1>3. SlotsReturned
  <2>1. {r \in Runs : Holding(r)} = {}
    BY DEF Init, Holding, Rest
  <2>2. Cardinality({r \in Runs : Holding(r)}) = 0
    BY <2>1, FS_EmptySet
  <2> QED BY <2>2, Constants DEF SlotsReturned, Init
<1> QED BY <1>1, <1>2, <1>3 DEF Inv

-----------------------------------------------------------------------------
(* Steps of one run.                                                       *)

\* What a step of r leaves alone.
Frame(r) ==
    \A s \in Runs \ {r} :
        /\ used'[s] = used[s] /\ inflight'[s] = inflight[s] /\ loop'[s] = loop[s]
        /\ calls'[s] = calls[s] /\ settled'[s] = settled[s] /\ left'[s] = left[s]

\* What a metered segment of r does to the ledger: its time, at most.
OnlyTime(r) ==
    /\ used' \in [Runs -> [Dimensions -> Nat]]
    /\ \A s \in Runs \ {r} : used'[s] = used[s]
    /\ \A k \in Dimensions \ {"active_minutes"} : used'[r][k] = used[r][k]

\* What charging one tool read or repair does to it.
OnlyCharge(r) ==
    /\ used' \in [Runs -> [Dimensions -> Nat]]
    /\ \A s \in Runs \ {r} : used'[s] = used[s]
    /\ \A k \in Dimensions \ {"evidence_reads", "repairs"} : used'[r][k] = used[r][k]

\* The loop at another place.
At(r, pc) == [loop[r] EXCEPT !.at = pc]

\* charge_budget changes one meter of one run.
LEMMA BookEffect ==
    ASSUME Types, NEW r \in Runs, NEW k \in Dimensions, NEW n \in Nat, Book(r, k, n)
    PROVE  /\ used' \in [Runs -> [Dimensions -> Nat]]
           /\ \A s \in Runs \ {r} : used'[s] = used[s]
           /\ \A j \in Dimensions \ {k} : used'[r][j] = used[r][j]
           /\ used'[r][k] = used[r][k] + n
<1> DEFINE meter == [used[r] EXCEPT ![k] = @ + n]
<1>1. used \in [Runs -> [Dimensions -> Nat]] /\ used' = [used EXCEPT ![r] = meter]
  BY DEF Types, Book
<1>2. meter \in [Dimensions -> Nat]
  BY <1>1
<1>3. meter[k] = used[r][k] + n /\ \A j \in Dimensions \ {k} : meter[j] = used[r][j]
  BY <1>1
<1> HIDE DEF meter
<1> QED BY <1>1, <1>2, <1>3

\* The end of a segment charges its time, and goes on or raises.
LEMMA EndSegmentEffect ==
    ASSUME Types, NEW r \in Runs, NEW next, EndSegment(r, next)
    PROVE  OnlyTime(r) /\ \E l \in {next, At(r, "raised")} : loop' = [loop EXCEPT ![r] = l]
<1>1. PICK t \in Segments :
        IF Fits(r, "active_minutes", t)
        THEN Book(r, "active_minutes", t) /\ loop' = [loop EXCEPT ![r] = next]
        ELSE UNCHANGED used /\ Goto(r, "raised")
  BY DEF EndSegment
<1>2. t \in Nat /\ "active_minutes" \in Dimensions
  BY Constants DEF Meters
<1>3. CASE Fits(r, "active_minutes", t)
  <2>1. Book(r, "active_minutes", t) /\ loop' = [loop EXCEPT ![r] = next]
    BY <1>1, <1>3
  <2>2. OnlyTime(r)
    BY <2>1, <1>2, BookEffect DEF OnlyTime
  <2> QED BY <2>1, <2>2
<1>4. CASE ~Fits(r, "active_minutes", t)
  BY <1>1, <1>4 DEF OnlyTime, Goto, At, Types
<1> QED BY <1>3, <1>4

\* A charge inside a segment books its unit, or leads to the failure.
LEMMA ChargeEffect ==
    ASSUME Types, NEW r \in Runs, NEW next, NEW k \in {"evidence_reads", "repairs"},
           ChargeInSegment(r, k, next)
    PROVE  OnlyCharge(r) /\ \E l \in {next, Then(r, "raised")} : loop' = [loop EXCEPT ![r] = l]
<1>1. k \in Dimensions
  BY Constants DEF Meters
<1>2. CASE Fits(r, k, 1)
  <2>1. Book(r, k, 1) /\ loop' = [loop EXCEPT ![r] = next]
    BY <1>2 DEF ChargeInSegment
  <2>2. OnlyCharge(r)
    BY <2>1, <1>1, BookEffect DEF OnlyCharge
  <2> QED BY <2>1, <2>2
<1>3. CASE ~Fits(r, k, 1)
  BY <1>3 DEF ChargeInSegment, OnlyCharge, Types
<1> QED BY <1>2, <1>3

\* A step that moves r to a place outside of any request, changes no meter of
\* the request in the ledger, and takes or returns a slot as r needs it.
Quiet(r, l) ==
    /\ l \in LoopState
    /\ loop' = [loop EXCEPT ![r] = l]
    /\ OnlyTime(r) \/ OnlyCharge(r) \/ used' = used
    /\ UNCHANGED <<inflight, providerVars, crashes>>
    /\ left' \in [Runs -> Nat] /\ \A s \in Runs \ {r} : left'[s] = left[s]
    /\ failed' \in [Runs -> BOOLEAN]
    /\ Underway(l) => left'[r] > 0
    /\ l.at \notin {"create", "creating", "retrying", "answered"}
    /\ l.at = "segment" => l.then # "create"
    /\ \/ (l.at = "counting") = Holding(r) /\ free' = free
       \/ l.at = "counting" /\ ~Holding(r) /\ free > 0 /\ free' = free - 1
       \/ l.at # "counting" /\ Holding(r) /\ free' = free + 1

\* What a step of r may do to its request: nothing, announce one that fits, or
\* settle the open one.
LedgerStep(r) ==
    \/ /\ inflight'[r] = inflight[r] /\ settled'[r] = settled[r]
       /\ \A d \in Tokens : used'[r][d] = used[r][d]
    \/ /\ ~inflight[r] /\ inflight'[r] /\ settled'[r] = settled[r]
       /\ \A d \in Tokens : used'[r][d] <= Limit[d]
    \/ /\ inflight[r] /\ ~inflight'[r]
       /\ \A d \in Tokens : settled'[r][d] >= settled[r][d]

\* What has to be shown of a step of r.
Preserved(r) ==
    /\ Types' /\ SlotStep(r) /\ Frame(r)
    /\ LedgerHolds(r)' /\ CallsCovered(r)' /\ LeftToDo(r)'
    /\ LedgerStep(r)
    /\ Unresolved(r) => Unresolved(r)' /\ calls'[r] = calls[r]

\* A quiet step preserves everything.
LEMMA QuietStep ==
    ASSUME Inv, NEW r \in Runs, NEW l, Quiet(r, l)
    PROVE  Preserved(r)
<1>1. loop'[r] = l /\ \A s \in Runs \ {r} : loop'[s] = loop[s]
  BY DEF Inv, Types, Quiet
<1>2. /\ \A s \in Runs \ {r} : used'[s] = used[s]
      /\ \A d \in Tokens : used'[r][d] = used[r][d]
      /\ used'[r]["turns"] = used[r]["turns"]
      /\ used'[r]["provider_retries"] = used[r]["provider_retries"]
  BY Constants DEF OnlyTime, OnlyCharge, Meters, Quiet
<1>3. Frame(r)
  BY <1>1, <1>2 DEF Frame, Quiet, providerVars
<1>4. LedgerHolds(r)'
  BY <1>1, <1>2 DEF LedgerHolds, Working, Inv, Quiet, providerVars
<1>5. CallsCovered(r)'
  <2>1. calls[r] + (IF Booked(r) THEN 1 ELSE 0) <= used[r]["turns"] + used[r]["provider_retries"]
    BY DEF Inv, CallsCovered
  <2>2. ~Booked(r)'
    BY <1>1 DEF Booked, Quiet
  <2>3. calls[r] \in Nat /\ used[r]["turns"] \in Nat /\ used[r]["provider_retries"] \in Nat
    BY Constants DEF Inv, Types, Meters
  <2> QED BY <2>1, <2>2, <2>3, <1>2 DEF CallsCovered, Quiet, providerVars
<1>6. SlotStep(r)
  BY <1>1 DEF SlotStep, Holding, Quiet
<1>7. Types'
  <2>1. used' \in [Runs -> [Dimensions -> Nat]]
    BY DEF Quiet, OnlyTime, OnlyCharge, Inv, Types
  <2>2. free' \in Nat
    BY DEF Quiet, Inv, Types
  <2>3. loop' \in [Runs -> LoopState]
    BY DEF Quiet, Inv, Types
  <2> QED BY <2>1, <2>2, <2>3 DEF Quiet, Inv, Types, providerVars
<1>8. LeftToDo(r)'
  BY <1>1 DEF LeftToDo, Underway, Quiet
<1>9. LedgerStep(r)
  BY <1>2 DEF LedgerStep, Quiet, providerVars
<1>10. Unresolved(r) => Unresolved(r)' /\ calls'[r] = calls[r]
  BY <1>1 DEF Unresolved, Quiet, providerVars
<1> QED BY <1>3, <1>4, <1>5, <1>6, <1>7, <1>8, <1>9, <1>10 DEF Preserved

\* A loop at rest is a loop.
LEMMA RestTyped == Rest \in LoopState
BY DEF Rest, LoopState, NoTokens

Places == {"idle", "segment", "enter", "count", "counting", "reserve", "create",
           "creating", "retrying", "answered", "judge", "done", "raised"}
Exits == {"idle", "enter", "count", "done", "raised", "create"}

\* A loop that moves to another place, or into a segment, is a loop.
LEMMA LoopTyped ==
    ASSUME Types, NEW r \in Runs
    PROVE  /\ loop[r] \in LoopState
           /\ loop[r].at \in Places /\ loop[r].then \in Exits
           /\ \A pc \in Places :
                 /\ At(r, pc) \in LoopState
                 /\ At(r, pc).at = pc /\ At(r, pc).then = loop[r].then
                 /\ At(r, pc).ask = loop[r].ask
           /\ \A pc \in Exits :
                 /\ Then(r, pc) \in LoopState
                 /\ Then(r, pc).at = "segment" /\ Then(r, pc).then = pc
<1>1. loop[r] \in LoopState
  BY DEF Types
<1>2. loop[r].at \in Places /\ loop[r].then \in Exits
  BY <1>1 DEF LoopState, Places, Exits
<1>3. ASSUME NEW pc \in Places
      PROVE  /\ At(r, pc) \in LoopState
             /\ At(r, pc).at = pc /\ At(r, pc).then = loop[r].then
             /\ At(r, pc).ask = loop[r].ask
  BY <1>1 DEF At, LoopState, Places
<1>4. ASSUME NEW pc \in Exits
      PROVE  /\ Then(r, pc) \in LoopState
             /\ Then(r, pc).at = "segment" /\ Then(r, pc).then = pc
  BY <1>1 DEF Then, LoopState, Exits
<1> QED BY <1>1, <1>2, <1>3, <1>4

\* A request is counted or answered: its amounts are written down.
Counted(r, ask) == [loop[r] EXCEPT !.at = "reserve", !.ask = ask]
Answered(r, bill) == [loop[r] EXCEPT !.at = "answered", !.bill = bill]

\* So is a loop that writes down the amounts of a request.
LEMMA RequestTyped ==
    ASSUME Types, NEW r \in Runs, NEW amounts \in [Tokens -> Nat]
    PROVE  /\ Counted(r, amounts) \in LoopState /\ Counted(r, amounts).at = "reserve"
           /\ Answered(r, amounts) \in LoopState /\ Answered(r, amounts).at = "answered"
           /\ Answered(r, amounts).ask = loop[r].ask
<1>1. loop[r] \in LoopState
  BY DEF Types
<1> QED BY <1>1 DEF LoopState, Counted, Answered

\* Goto, as an update of the loop's record.
LEMMA GotoAt == ASSUME NEW r \in Runs, NEW pc, Types, Goto(r, pc)
                PROVE  loop' = [loop EXCEPT ![r] = At(r, pc)]
BY DEF Goto, At, Types

\* Starting, entering, completing and failing a module, and the segments between.
LEMMA ModuleSteps ==
    ASSUME Inv, NEW r \in Runs,
           \/ SegmentEnds(r) \/ StartModule(r) \/ EnterAgent(r) \/ CompleteModule(r) \/ FailRun(r)
    PROVE  Preserved(r)
<1> USE DEF Quiet, Holding, Underway, LeftToDo, runVars, ledgerVars
<1>0. Types /\ LeftToDo(r) /\ left \in [Runs -> Nat] /\ failed \in [Runs -> BOOLEAN]
  BY DEF Inv, Types
<1>1. CASE SegmentEnds(r)
  <2>1. PICK l \in {At(r, loop[r].then), At(r, "raised")} :
            OnlyTime(r) /\ loop' = [loop EXCEPT ![r] = l]
    BY <1>0, <1>1, EndSegmentEffect DEF SegmentEnds, At
  <2>2. loop[r].then \in Exits \ {"create"}
    BY <1>0, <1>1, LoopTyped DEF SegmentEnds, Inv, LedgerHolds
  <2>3. l \in LoopState /\ l.at \in {loop[r].then, "raised"}
    BY <2>2, <1>0, LoopTyped DEF Places, Exits
  <2>4. Quiet(r, l)
    BY <2>1, <2>2, <2>3, <1>0, <1>1 DEF SegmentEnds, Exits
  <2> QED BY <2>4, QuietStep
<1>2. CASE StartModule(r)
  <2> DEFINE l == [Rest EXCEPT !.at = "segment", !.then = "enter"]
  <2>1. l \in LoopState /\ l.at = "segment" /\ l.then = "enter"
    BY RestTyped DEF LoopState, Rest
  <2> HIDE DEF l
  <2>2. loop' = [loop EXCEPT ![r] = l]
    BY <1>2 DEF StartModule, l
  <2>3. Quiet(r, l)
    BY <2>1, <2>2, <1>0, <1>2 DEF StartModule
  <2> QED BY <2>3, QuietStep
<1>3. CASE EnterAgent(r)
  <2>1. PICK pc \in {"raised", "count"} : loop' = [loop EXCEPT ![r] = At(r, pc)]
    BY <1>0, <1>3, GotoAt DEF EnterAgent
  <2>2. At(r, pc) \in LoopState /\ At(r, pc).at = pc
    BY <1>0, LoopTyped DEF Places
  <2>3. Quiet(r, At(r, pc))
    BY <2>1, <2>2, <1>0, <1>3 DEF EnterAgent
  <2> QED BY <2>3, QuietStep
<1>4. CASE CompleteModule(r)
  <2>1. /\ Then(r, "idle") \in LoopState
        /\ Then(r, "idle").at = "segment" /\ Then(r, "idle").then = "idle"
    BY <1>0, LoopTyped DEF Exits
  <2>2. left[r] > 0
    BY <1>0, <1>4 DEF CompleteModule
  <2>3. left' \in [Runs -> Nat] /\ \A s \in Runs \ {r} : left'[s] = left[s]
    BY <1>0, <1>4, <2>2 DEF CompleteModule
  <2>4. Quiet(r, Then(r, "idle"))
    BY <2>1, <2>3, <1>0, <1>4 DEF CompleteModule
  <2> QED BY <2>4, QuietStep
<1>5. CASE FailRun(r)
  <2>1. Rest \in LoopState /\ Rest.at = "idle"
    BY RestTyped DEF Rest
  <2>2. Quiet(r, Rest)
    BY <1>0, <1>5, <2>1 DEF FailRun
  <2> QED BY <2>2, QuietStep
<1> QED BY <1>1, <1>2, <1>3, <1>4, <1>5

\* The calls whose end opens no request, and cancellation.
LEMMA CallSteps ==
    ASSUME Inv, NEW r \in Runs, Count(r) \/ CountEnds(r) \/ CreateFails(r) \/ Cancelled(r)
    PROVE  Preserved(r)
<1> USE DEF Quiet, Holding, Underway, LeftToDo, runVars, ledgerVars, providerVars
<1>0. Types /\ LeftToDo(r) /\ left \in [Runs -> Nat] /\ failed \in [Runs -> BOOLEAN] /\ free \in Nat
  BY DEF Inv, Types
<1>1. CASE Count(r)
  <2>1. At(r, "counting") \in LoopState /\ At(r, "counting").at = "counting"
        /\ At(r, "raised") \in LoopState /\ At(r, "raised").at = "raised"
    BY <1>0, LoopTyped DEF Places
  <2>2. CASE TimeLeft(r) /\ free > 0
    <3>1. loop' = [loop EXCEPT ![r] = At(r, "counting")]
      BY <1>0, <1>1, <2>2, GotoAt DEF Count
    <3>2. Quiet(r, At(r, "counting"))
      BY <3>1, <2>1, <2>2, <1>0, <1>1 DEF Count
    <3> QED BY <3>2, QuietStep
  <2>3. CASE ~(TimeLeft(r) /\ free > 0)
    <3>1. loop' = [loop EXCEPT ![r] = At(r, "raised")]
      BY <1>0, <1>1, <2>3, GotoAt DEF Count
    <3>2. Quiet(r, At(r, "raised"))
      BY <3>1, <2>1, <2>3, <1>0, <1>1 DEF Count
    <3> QED BY <3>2, QuietStep
  <2> QED BY <2>2, <2>3
<1>2. CASE CountEnds(r)
  <2>1. PICK l : /\ l \in LoopState /\ l.at \in {"reserve", "raised"}
                 /\ OnlyTime(r) /\ loop' = [loop EXCEPT ![r] = l]
    <3>1. At(r, "raised") \in LoopState /\ At(r, "raised").at = "raised"
      BY <1>0, LoopTyped DEF Places
    <3>3. CASE EndSegment(r, [loop[r] EXCEPT !.at = "raised"])
      <4>1. EndSegment(r, At(r, "raised"))
        BY <3>3 DEF At
      <4>2. OnlyTime(r) /\ loop' = [loop EXCEPT ![r] = At(r, "raised")]
        BY <4>1, <1>0, EndSegmentEffect
      <4> QED BY <3>1, <4>2
    <3>4. CASE \E ask \in Asks : EndSegment(r, [loop[r] EXCEPT !.at = "reserve", !.ask = ask])
      <4>1. PICK ask \in Asks : EndSegment(r, [loop[r] EXCEPT !.at = "reserve", !.ask = ask])
        BY <3>4
      <4>2. Counted(r, ask) \in LoopState /\ Counted(r, ask).at = "reserve"
        BY <1>0, RequestTyped, Constants
      <4>3. OnlyTime(r) /\ \E l \in {Counted(r, ask), At(r, "raised")} : loop' = [loop EXCEPT ![r] = l]
        BY <4>1, <1>0, EndSegmentEffect DEF Counted
      <4> QED BY <3>1, <4>2, <4>3
    <3> QED BY <1>2, <3>3, <3>4 DEF CountEnds
  <2>2. Quiet(r, l)
    BY <2>1, <1>0, <1>2 DEF CountEnds
  <2> QED BY <2>2, QuietStep
<1>3. CASE CreateFails(r)
  <2>1. At(r, "raised") \in LoopState /\ At(r, "raised").at = "raised"
    BY <1>0, LoopTyped DEF Places
  <2>2. OnlyTime(r) /\ loop' = [loop EXCEPT ![r] = At(r, "raised")]
    BY <1>0, <1>3, EndSegmentEffect DEF CreateFails, At
  <2>3. Quiet(r, At(r, "raised"))
    BY <2>1, <2>2, <1>0, <1>3 DEF CreateFails
  <2> QED BY <2>3, QuietStep
<1>4. CASE Cancelled(r)
  <2>1. Rest \in LoopState /\ Rest.at = "idle"
    BY RestTyped DEF Rest
  <2>2. OnlyTime(r)
    <3>1. PICK t \in Segments :
            IF Fits(r, "active_minutes", t) THEN Book(r, "active_minutes", t) ELSE UNCHANGED used
      BY <1>4 DEF Cancelled
    <3>2. t \in Nat /\ "active_minutes" \in Dimensions
      BY Constants DEF Meters
    <3>3. CASE Book(r, "active_minutes", t)
      BY <3>2, <3>3, <1>0, BookEffect DEF OnlyTime
    <3>4. CASE UNCHANGED used
      BY <3>4, <1>0 DEF OnlyTime, Types
    <3> QED BY <3>1, <3>3, <3>4
  <2>3. Quiet(r, Rest)
    BY <2>1, <2>2, <1>0, <1>4 DEF Cancelled, Waiting
  <2> QED BY <2>3, QuietStep
<1> QED BY <1>1, <1>2, <1>3, <1>4

\* A judged answer leads to a local segment, at once to a failure, or through
\* a charge to either.
LEMMA AnswerSteps ==
    ASSUME Inv, NEW r \in Runs,
           \/ AnswerRejected(r) \/ ReadEvidence(r) \/ Calculate(r) \/ Recalculate(r)
           \/ AnswerValid(r) \/ Repair(r)
    PROVE  Preserved(r)
<1> USE DEF Quiet, Holding, Underway, LeftToDo, runVars, ledgerVars, providerVars
<1>0. Types /\ LeftToDo(r) /\ left \in [Runs -> Nat] /\ failed \in [Runs -> BOOLEAN]
  BY DEF Inv, Types
<1>1. loop[r].at = "judge" /\ left[r] > 0
  BY <1>0 DEF AnswerRejected, ReadEvidence, Calculate, Recalculate, AnswerValid, Repair
<1>2. UNCHANGED <<inflight, runVars, free, providerVars, crashes>>
  BY DEF AnswerRejected, ReadEvidence, Calculate, Recalculate, AnswerValid, Repair
<1> DEFINE Next1 == {l \in LoopState : \/ l.at = "raised"
                                       \/ l.at = "segment" /\ l.then \in {"count", "raised", "done"}}
<1>3. At(r, "raised") \in Next1 /\ Then(r, "raised") \in Next1 /\ Then(r, "count") \in Next1
      /\ Then(r, "done") \in Next1
  BY <1>0, LoopTyped DEF Places, Exits
<1>4. ASSUME NEW pc \in {"count", "raised"}, NEW b \in BOOLEAN
      PROVE  /\ [Then(r, pc) EXCEPT !.repaired = TRUE, !.incomplete = b] \in Next1
             /\ [Then(r, pc) EXCEPT !.incomplete = b] \in Next1
             /\ [Then(r, pc) EXCEPT !.repaired = TRUE, !.tools = FALSE] \in Next1
  <2>1. Then(r, pc) \in LoopState /\ Then(r, pc).at = "segment" /\ Then(r, pc).then = pc
    BY <1>0, LoopTyped DEF Exits
  <2> QED BY <2>1 DEF LoopState
<1>5. \E l \in Next1 : loop' = [loop EXCEPT ![r] = l] /\ (OnlyCharge(r) \/ used' = used)
  <2>1. CASE AnswerRejected(r)
    BY <2>1, <1>0, <1>3, GotoAt DEF AnswerRejected
  <2>2. CASE ReadEvidence(r)
    BY <2>2, <1>0, <1>3, ChargeEffect DEF ReadEvidence
  <2>3. CASE Calculate(r)
    BY <2>3, <1>3, <1>4 DEF Calculate
  <2>4. CASE Recalculate(r)
    <3>1. PICK complete \in BOOLEAN, pc \in {"count", "raised"} :
            ChargeInSegment(r, "repairs", [Then(r, pc) EXCEPT !.repaired = TRUE, !.incomplete = ~complete])
      BY <2>4 DEF Recalculate
    <3>2. (~complete) \in BOOLEAN
      OBVIOUS
    <3>3. [Then(r, pc) EXCEPT !.repaired = TRUE, !.incomplete = ~complete] \in Next1
      BY <3>2, <1>4
    <3> DEFINE next == [Then(r, pc) EXCEPT !.repaired = TRUE, !.incomplete = ~complete]
    <3> HIDE DEF next
    <3>4. OnlyCharge(r) /\ \E l \in {next, Then(r, "raised")} : loop' = [loop EXCEPT ![r] = l]
      BY <3>1, <1>0, ChargeEffect DEF next
    <3> QED BY <3>3, <3>4, <1>3 DEF next
  <2>5. CASE AnswerValid(r)
    BY <2>5, <1>3 DEF AnswerValid
  <2>6. CASE Repair(r)
    <3> DEFINE next == [Then(r, "count") EXCEPT !.repaired = TRUE, !.tools = FALSE]
    <3>1. next \in Next1
      BY <1>4
    <3> HIDE DEF next
    <3>2. OnlyCharge(r) /\ \E l \in {next, Then(r, "raised")} : loop' = [loop EXCEPT ![r] = l]
      BY <2>6, <1>0, ChargeEffect DEF Repair, next
    <3> QED BY <3>1, <3>2, <1>3
  <2> QED BY <2>1, <2>2, <2>3, <2>4, <2>5, <2>6
<1>6. PICK l \in Next1 : loop' = [loop EXCEPT ![r] = l] /\ (OnlyCharge(r) \/ used' = used)
  BY <1>5
<1>7. Quiet(r, l)
  BY <1>0, <1>1, <1>2, <1>6
<1> QED BY <1>7, QuietStep

\* A step inside a request: what the ledger holds for it is shown directly.
LEMMA RequestStep ==
    ASSUME Inv, NEW r \in Runs, NEW l \in LoopState, Working(r),
           loop' = [loop EXCEPT ![r] = l], Working(r)', l.ask = loop[r].ask,
           used' \in [Runs -> [Dimensions -> Nat]], free' \in Nat,
           \A s \in Runs \ {r} : used'[s] = used[s],
           \A d \in Tokens : used'[r][d] = used[r][d],
           calls' \in [Runs -> Nat], \A s \in Runs \ {r} : calls'[s] = calls[s],
           billed' \in [Runs -> [Tokens -> Nat]],
           UNCHANGED <<inflight, runVars, settled, crashes>>,
           SlotStep(r), CallsCovered(r)'
    PROVE  Preserved(r)
<1>1. loop'[r] = l /\ \A s \in Runs \ {r} : loop'[s] = loop[s]
  BY DEF Inv, Types
<1>2. Types'
  BY DEF Inv, Types, runVars
<1>3. Frame(r)
  BY <1>1 DEF Frame, runVars
<1>4. LedgerHolds(r)'
  BY <1>1 DEF LedgerHolds, Working, Inv
<1>5. LeftToDo(r)'
  BY <1>1 DEF LeftToDo, Underway, Working, Inv, runVars
<1>6. LedgerStep(r) /\ ~Unresolved(r)
  BY DEF LedgerStep, Unresolved, Working
<1> QED BY <1>2, <1>3, <1>4, <1>5, <1>6 DEF Preserved

\* The meters of a run are numbers, and its calls are covered.
LEMMA RunMeters ==
    ASSUME Inv, NEW r \in Runs
    PROVE  /\ calls[r] \in Nat /\ used[r]["turns"] \in Nat /\ used[r]["provider_retries"] \in Nat
           /\ calls[r] + (IF Booked(r) THEN 1 ELSE 0) <= used[r]["turns"] + used[r]["provider_retries"]
           /\ \A d \in Tokens : used[r][d] \in Nat /\ settled[r][d] \in Nat
BY Constants DEF Inv, Types, Meters, CallsCovered

\* reserve_provider opens a request that fits, or refuses.
LEMMA ReserveStep ==
    ASSUME Inv, NEW r \in Runs, Reserve(r)
    PROVE  Preserved(r)
<1>0. Types /\ LeftToDo(r) /\ left \in [Runs -> Nat] /\ failed \in [Runs -> BOOLEAN] /\ free \in Nat
  BY DEF Inv, Types
<1>a. /\ At(r, "create") \in LoopState /\ At(r, "create").at = "create"
      /\ At(r, "create").ask = loop[r].ask
      /\ At(r, "raised") \in LoopState /\ At(r, "raised").at = "raised"
  BY <1>0, LoopTyped DEF Places
<1>1. CASE ~inflight[r] /\ Fits(r, "turns", 1) /\ \A k \in Tokens : Fits(r, k, loop[r].ask[k])
  <2> DEFINE meter == [k \in Dimensions |->
                          IF k = "turns" THEN used[r][k] + 1
                          ELSE IF k \in Tokens THEN used[r][k] + loop[r].ask[k] ELSE used[r][k]]
  <2>1. used[r] \in [Dimensions -> Nat] /\ loop[r].ask \in [Tokens -> Nat]
    BY <1>0 DEF Types, LoopState
  <2>2. /\ meter \in [Dimensions -> Nat] /\ meter["turns"] = used[r]["turns"] + 1
        /\ meter["provider_retries"] = used[r]["provider_retries"]
        /\ \A d \in Tokens : meter[d] = used[r][d] + loop[r].ask[d]
    BY <2>1, Constants DEF Meters
  <2>3. used' = [used EXCEPT ![r] = meter]
    BY <1>0, <1>1 DEF Reserve, Types
  <2> HIDE DEF meter
  <2>4. used' \in [Runs -> [Dimensions -> Nat]] /\ used'[r] = meter
        /\ \A s \in Runs \ {r} : used'[s] = used[s]
    BY <2>2, <2>3, <1>0 DEF Types
  <2>5. loop' = [loop EXCEPT ![r] = At(r, "create")]
    BY <1>0, <1>1, GotoAt DEF Reserve
  <2>6. loop'[r] = At(r, "create") /\ \A s \in Runs \ {r} : loop'[s] = loop[s]
    BY <2>5, <1>0 DEF Types
  <2>7. inflight' = [inflight EXCEPT ![r] = TRUE] /\ UNCHANGED <<runVars, free, providerVars, crashes>>
    BY <1>1 DEF Reserve
  <2>8. Types'
    BY <2>4, <2>5, <2>7, <1>0, <1>a DEF Types, runVars, providerVars
  <2>9. SlotStep(r)
    BY <2>6, <2>7, <1>a DEF SlotStep, Holding, Reserve
  <2>10. Frame(r)
    BY <2>4, <2>6, <2>7, <1>0 DEF Frame, runVars, providerVars, Types
  <2>11. LedgerHolds(r)'
    <3>1. \A d \in Tokens : used[r][d] = settled[r][d]
      BY <1>1 DEF Inv, LedgerHolds
    <3>2. inflight'[r] /\ settled' = settled
      BY <2>7, <1>0 DEF Types, providerVars
    <3>3. \A d \in Tokens : loop[r].ask[d] \in Nat /\ settled[r][d] \in Nat
      BY <2>1, RunMeters
    <3> QED BY <3>1, <3>2, <3>3, <2>2, <2>4, <2>6, <1>a DEF LedgerHolds, Working
  <2>12. CallsCovered(r)'
    <3>1. ~Booked(r)
      BY DEF Booked, Reserve
    <3>2. calls' = calls
      BY <2>7 DEF providerVars
    <3> QED BY <3>1, <3>2, <2>2, <2>4, RunMeters DEF CallsCovered
  <2>13. LeftToDo(r)'
    BY <2>6, <2>7, <1>0 DEF LeftToDo, Underway, runVars, Reserve
  <2>14. LedgerStep(r) /\ ~Unresolved(r)
    <3>1. \A d \in Tokens : used'[r][d] <= Limit[d]
      BY <2>2, <2>4, <1>1 DEF Fits
    <3>2. ~inflight[r] /\ inflight'[r] /\ settled'[r] = settled[r]
      BY <1>1, <2>7, <1>0 DEF Types, providerVars
    <3> QED BY <3>1, <3>2 DEF LedgerStep, Unresolved
  <2> QED BY <2>8, <2>9, <2>10, <2>11, <2>12, <2>13, <2>14 DEF Preserved
<1>2. CASE ~(~inflight[r] /\ Fits(r, "turns", 1) /\ \A k \in Tokens : Fits(r, k, loop[r].ask[k]))
  <2>1. loop' = [loop EXCEPT ![r] = At(r, "raised")] /\ UNCHANGED ledgerVars
    BY <1>0, <1>2, GotoAt DEF Reserve
  <2>2. Quiet(r, At(r, "raised"))
    BY <2>1, <1>0, <1>a DEF Reserve, Quiet, Holding, Underway, runVars, ledgerVars
  <2> QED BY <2>2, QuietStep
<1> QED BY <1>1, <1>2

\* A create call goes out on a booking, or is refused time or a slot.
LEMMA CreateStep ==
    ASSUME Inv, NEW r \in Runs, Create(r)
    PROVE  Preserved(r)
<1>0. Types /\ LeftToDo(r) /\ left \in [Runs -> Nat] /\ failed \in [Runs -> BOOLEAN] /\ free \in Nat
  BY DEF Inv, Types
<1>a. /\ At(r, "creating") \in LoopState /\ At(r, "creating").at = "creating"
      /\ At(r, "creating").ask = loop[r].ask
      /\ At(r, "raised") \in LoopState /\ At(r, "raised").at = "raised"
  BY <1>0, LoopTyped DEF Places
<1>1. CASE TimeLeft(r) /\ free > 0
  <2>1. loop' = [loop EXCEPT ![r] = At(r, "creating")]
    BY <1>0, <1>1, GotoAt DEF Create
  <2>2. loop'[r] = At(r, "creating") /\ \A s \in Runs \ {r} : loop'[s] = loop[s]
    BY <2>1, <1>0 DEF Types
  <2>3. calls' = [calls EXCEPT ![r] = calls[r] + 1] /\ free' = free - 1
    BY <1>0, <1>1 DEF Create, Types
  <2>4. calls' \in [Runs -> Nat] /\ calls'[r] = calls[r] + 1 /\ \A s \in Runs \ {r} : calls'[s] = calls[s]
    BY <2>3, <1>0 DEF Types
  <2>5. UNCHANGED <<ledgerVars, runVars, billed, settled, crashes>> /\ loop[r].at = "create"
    BY DEF Create
  <2>6. SlotStep(r)
    BY <2>2, <2>3, <2>5, <1>a, <1>0 DEF SlotStep, Holding
  <2>7. CallsCovered(r)'
    <3>1. Booked(r) /\ ~Booked(r)'
      BY <2>2, <2>5, <1>a DEF Booked
    <3> QED BY <3>1, <2>4, <2>5, RunMeters DEF CallsCovered, ledgerVars
  <2>8. Working(r) /\ Working(r)'
    BY <2>2, <2>5, <1>a DEF Working
  <2>9. free' \in Nat /\ used' \in [Runs -> [Dimensions -> Nat]] /\ billed' \in [Runs -> [Tokens -> Nat]]
    BY <2>3, <2>5, <1>0, <1>1 DEF Types, ledgerVars
  <2> QED BY <2>1, <2>4, <2>5, <2>6, <2>7, <2>8, <2>9, <1>a, RequestStep DEF ledgerVars
<1>2. CASE ~(TimeLeft(r) /\ free > 0)
  <2>1. loop' = [loop EXCEPT ![r] = At(r, "raised")]
    BY <1>0, <1>2, GotoAt DEF Create
  <2>2. Quiet(r, At(r, "raised"))
    BY <2>1, <1>0, <1>a, <1>2 DEF Create, Quiet, Holding, Underway, runVars, ledgerVars, providerVars
  <2> QED BY <2>2, QuietStep
<1> QED BY <1>1, <1>2

\* An answer leaves the request open, for reconcile or for good.
LEMMA CreateAnswersStep ==
    ASSUME Inv, NEW r \in Runs, CreateAnswers(r)
    PROVE  Preserved(r)
<1>0. Types /\ LeftToDo(r) /\ left \in [Runs -> Nat] /\ failed \in [Runs -> BOOLEAN] /\ free \in Nat
  BY DEF Inv, Types
<1>1. PICK bill \in Bills :
        /\ billed' = [billed EXCEPT ![r] = [d \in Tokens |-> @[d] + bill[d]]]
        /\ EndSegment(r, Answered(r, bill))
  BY DEF CreateAnswers, Answered
<1>2. /\ loop[r].at = "creating" /\ free' = free + 1
      /\ UNCHANGED <<inflight, runVars, calls, settled, crashes>>
  BY DEF CreateAnswers
<1>3. bill \in [Tokens -> Nat]
  BY Constants
<1>4. billed' \in [Runs -> [Tokens -> Nat]]
  BY <1>0, <1>1, <1>3 DEF Types
<1>5. PICK l \in {Answered(r, bill), At(r, "raised")} : OnlyTime(r) /\ loop' = [loop EXCEPT ![r] = l]
  BY <1>0, <1>1, EndSegmentEffect
<1>6. l \in LoopState /\ l.ask = loop[r].ask /\ l.at \in {"answered", "raised"}
  BY <1>0, <1>3, <1>5, LoopTyped, RequestTyped DEF Places
<1>7. loop'[r] = l /\ \A s \in Runs \ {r} : loop'[s] = loop[s]
  BY <1>5, <1>6, <1>0 DEF Types
<1>8. /\ used' \in [Runs -> [Dimensions -> Nat]] /\ \A s \in Runs \ {r} : used'[s] = used[s]
      /\ \A d \in Tokens : used'[r][d] = used[r][d]
      /\ used'[r]["turns"] = used[r]["turns"]
      /\ used'[r]["provider_retries"] = used[r]["provider_retries"]
  BY <1>5, Constants DEF OnlyTime, Meters
<1>9. SlotStep(r)
  BY <1>2, <1>6, <1>7 DEF SlotStep, Holding
<1>10. CallsCovered(r)'
  <2>1. ~Booked(r) /\ ~Booked(r)'
    BY <1>2, <1>6, <1>7 DEF Booked
  <2> QED BY <2>1, <1>2, <1>8, RunMeters DEF CallsCovered
<1>11. Frame(r)
  BY <1>2, <1>7, <1>8 DEF Frame, runVars
<1>12. LedgerHolds(r)'
  <2>1. Working(r)
    BY <1>2 DEF Working
  <2> QED BY <2>1, <1>2, <1>6, <1>7, <1>8 DEF Inv, LedgerHolds, Working
<1>13. LeftToDo(r)'
  BY <1>0, <1>2, <1>6, <1>7 DEF LeftToDo, Underway, runVars
<1>14. Types'
  <2>1. loop' \in [Runs -> LoopState] /\ free' \in Nat
    BY <1>0, <1>2, <1>5, <1>6 DEF Types
  <2> QED BY <2>1, <1>0, <1>2, <1>4, <1>8 DEF Types, runVars
<1>15. LedgerStep(r) /\ ~Unresolved(r)
  BY <1>2, <1>8 DEF LedgerStep, Unresolved
<1> QED BY <1>9, <1>10, <1>11, <1>12, <1>13, <1>14, <1>15 DEF Preserved

\* The loop while a timeout is handled.
Retry(r, to) == [loop[r] EXCEPT !.at = "retrying", !.retried = TRUE, !.then = to]
GiveUp(r) == [loop[r] EXCEPT !.at = "retrying", !.then = "raised"]

\* A loop that handles a timeout is a loop.
LEMMA RetryTyped ==
    ASSUME Types, NEW r \in Runs
    PROVE  /\ Retry(r, "create") \in LoopState /\ GiveUp(r) \in LoopState
           /\ Retry(r, "create").at = "retrying" /\ GiveUp(r).at = "retrying"
           /\ Retry(r, "create").then = "create" /\ GiveUp(r).then = "raised"
           /\ Retry(r, "create").ask = loop[r].ask /\ GiveUp(r).ask = loop[r].ask
<1>1. loop[r] \in LoopState
  BY DEF Types
<1> QED BY <1>1 DEF LoopState, Retry, GiveUp

\* A timeout books the retry before it is sent.
LEMMA CreateTimesOutStep ==
    ASSUME Inv, NEW r \in Runs, CreateTimesOut(r)
    PROVE  Preserved(r)
<1>0. Types /\ free \in Nat
  BY DEF Inv, Types
<1>1. /\ loop[r].at = "creating" /\ UNCHANGED <<inflight, runVars, free, providerVars, crashes>>
  BY DEF CreateTimesOut
<1>2. ~Booked(r)
  BY <1>1 DEF Booked
<1>3. calls' \in [Runs -> Nat] /\ billed' \in [Runs -> [Tokens -> Nat]] /\ free' \in Nat
  BY <1>0, <1>1 DEF Types, providerVars
<1>4. CASE ~loop[r].retried /\ Fits(r, "provider_retries", 1)
  <2>1. Book(r, "provider_retries", 1) /\ loop' = [loop EXCEPT ![r] = Retry(r, "create")]
    BY <1>0, <1>4 DEF CreateTimesOut, Retry, Types
  <2>2. /\ used' \in [Runs -> [Dimensions -> Nat]] /\ \A s \in Runs \ {r} : used'[s] = used[s]
        /\ \A d \in Tokens : used'[r][d] = used[r][d]
        /\ used'[r]["turns"] = used[r]["turns"]
        /\ used'[r]["provider_retries"] = used[r]["provider_retries"] + 1
    BY <2>1, <1>0, BookEffect, Constants DEF Meters
  <2>3. loop'[r] = Retry(r, "create") /\ \A s \in Runs \ {r} : loop'[s] = loop[s]
    BY <2>1, <1>0 DEF Types
  <2>4. SlotStep(r)
    BY <2>3, <1>0, <1>1, RetryTyped DEF SlotStep, Holding
  <2>5. CallsCovered(r)'
    BY <2>2, <1>1, <1>2, RunMeters DEF CallsCovered, providerVars
  <2>6. Working(r) /\ Working(r)'
    BY <2>3, <1>0, <1>1, RetryTyped DEF Working
  <2> QED BY <2>1, <2>2, <2>4, <2>5, <2>6, <1>0, <1>1, <1>3, RetryTyped, RequestStep DEF providerVars
<1>5. CASE ~(~loop[r].retried /\ Fits(r, "provider_retries", 1))
  <2>1. used' = used /\ loop' = [loop EXCEPT ![r] = GiveUp(r)]
    BY <1>0, <1>5 DEF CreateTimesOut, GiveUp, Types
  <2>2. used' \in [Runs -> [Dimensions -> Nat]]
    BY <2>1, <1>0 DEF Types
  <2>3. loop'[r] = GiveUp(r) /\ \A s \in Runs \ {r} : loop'[s] = loop[s]
    BY <2>1, <1>0 DEF Types
  <2>4. SlotStep(r)
    BY <2>3, <1>0, <1>1, RetryTyped DEF SlotStep, Holding
  <2>5. CallsCovered(r)'
    <3>1. ~Booked(r)'
      BY <2>3, <1>0, RetryTyped DEF Booked
    <3> QED BY <3>1, <2>1, <1>1, <1>2, RunMeters DEF CallsCovered, providerVars
  <2>6. Working(r) /\ Working(r)'
    BY <2>3, <1>0, <1>1, RetryTyped DEF Working
  <2> QED BY <2>1, <2>2, <2>4, <2>5, <2>6, <1>0, <1>1, <1>3, RetryTyped, RequestStep DEF providerVars
<1> QED BY <1>4, <1>5

\* The slot of a timed-out call is returned, and the booked retry goes ahead.
LEMMA RetryOrRaiseStep ==
    ASSUME Inv, NEW r \in Runs, RetryOrRaise(r)
    PROVE  Preserved(r)
<1>0. Types /\ LeftToDo(r) /\ left \in [Runs -> Nat] /\ failed \in [Runs -> BOOLEAN] /\ free \in Nat
  BY DEF Inv, Types
<1>1. /\ loop[r].at = "retrying" /\ free' = free + 1
      /\ UNCHANGED <<inflight, runVars, providerVars, crashes>>
  BY DEF RetryOrRaise
<1>2. PICK pc \in {loop[r].then, "raised"} : OnlyTime(r) /\ loop' = [loop EXCEPT ![r] = At(r, pc)]
  <2>1. PICK pc \in {loop[r].then, "raised"} : EndSegment(r, At(r, pc))
    BY DEF RetryOrRaise, At
  <2> QED BY <2>1, <1>0, EndSegmentEffect
<1>3. /\ At(r, pc) \in LoopState /\ At(r, pc).at = pc /\ At(r, pc).ask = loop[r].ask
      /\ pc \in Exits
  BY <1>0, <1>2, LoopTyped DEF Places, Exits
<1>4. loop'[r] = At(r, pc) /\ \A s \in Runs \ {r} : loop'[s] = loop[s]
  BY <1>2, <1>3, <1>0 DEF Types
<1>5. CASE pc = "create"
  <2>1. /\ used' \in [Runs -> [Dimensions -> Nat]] /\ \A s \in Runs \ {r} : used'[s] = used[s]
        /\ \A d \in Tokens : used'[r][d] = used[r][d]
        /\ used'[r]["turns"] = used[r]["turns"]
        /\ used'[r]["provider_retries"] = used[r]["provider_retries"]
    BY <1>2, Constants DEF OnlyTime, Meters
  <2>2. SlotStep(r)
    BY <1>1, <1>3, <1>4, <1>5 DEF SlotStep, Holding
  <2>3. CallsCovered(r)'
    <3>1. Booked(r)
      BY <1>1, <1>2, <1>5 DEF Booked
    <3> QED BY <3>1, <2>1, <1>1, RunMeters DEF CallsCovered, providerVars
  <2>4. Working(r) /\ Working(r)'
    BY <1>1, <1>3, <1>4, <1>5 DEF Working
  <2>5. calls' \in [Runs -> Nat] /\ billed' \in [Runs -> [Tokens -> Nat]] /\ free' \in Nat
    BY <1>0, <1>1 DEF Types, providerVars
  <2> QED BY <2>1, <2>2, <2>3, <2>4, <2>5, <1>1, <1>2, <1>3, RequestStep DEF providerVars
<1>6. CASE pc # "create"
  <2>1. Quiet(r, At(r, pc))
    BY <1>0, <1>1, <1>2, <1>3, <1>6 DEF Quiet, Holding, Underway, LeftToDo, Exits, runVars
  <2> QED BY <2>1, QuietStep
<1> QED BY <1>5, <1>6

\* reconcile_provider closes the request on what was billed.
LEMMA ReconcileStep ==
    ASSUME Inv, NEW r \in Runs, Reconcile(r)
    PROVE  Preserved(r)
<1>0. Types /\ LeftToDo(r) /\ left \in [Runs -> Nat] /\ free \in Nat
  BY DEF Inv, Types
<1>1. /\ loop[r].at = "answered" /\ inflight[r]
      /\ \A d \in Tokens : used[r][d] = settled[r][d] + loop[r].ask[d]
  BY DEF Reconcile, Inv, LedgerHolds, Working
<1>2. /\ inflight' = [inflight EXCEPT ![r] = FALSE]
      /\ UNCHANGED <<runVars, free, calls, billed, crashes>>
  BY <1>1 DEF Reconcile
<1>3. used[r] \in [Dimensions -> Nat] /\ settled[r] \in [Tokens -> Nat]
      /\ loop[r].ask \in [Tokens -> Nat] /\ loop[r].bill \in [Tokens -> Nat]
  BY <1>0 DEF Types, LoopState
<1> DEFINE meter == [k \in Dimensions |->
                        IF k \in Tokens THEN used[r][k] + loop[r].bill[k] - loop[r].ask[k] ELSE used[r][k]]
           total == [d \in Tokens |-> settled[r][d] + loop[r].bill[d]]
<1>4. used' = [used EXCEPT ![r] = meter] /\ settled' = [settled EXCEPT ![r] = total]
  BY <1>0, <1>1 DEF Reconcile, Types
<1>5. \A d \in Tokens : meter[d] = settled[r][d] + loop[r].bill[d]
  BY <1>1, <1>3, Constants
<1>6. /\ meter \in [Dimensions -> Nat] /\ total \in [Tokens -> Nat]
      /\ \A d \in Tokens : total[d] = meter[d] /\ total[d] >= settled[r][d]
      /\ meter["turns"] = used[r]["turns"] /\ meter["provider_retries"] = used[r]["provider_retries"]
  <2>1. meter \in [Dimensions -> Nat]
    <3>1. ASSUME NEW k \in Dimensions PROVE meter[k] \in Nat
      <4>1. CASE k \in Tokens
        <5>1. meter[k] = settled[r][k] + loop[r].bill[k]
          BY <4>1, <1>5
        <5>2. settled[r][k] \in Nat /\ loop[r].bill[k] \in Nat
          BY <4>1, <1>3
        <5> HIDE DEF meter
        <5> QED BY <5>1, <5>2
      <4>2. CASE k \notin Tokens
        BY <4>2, <1>3
      <4> QED BY <4>1, <4>2
    <3> QED BY <3>1
  <2>2. total \in [Tokens -> Nat] /\ \A d \in Tokens : total[d] = meter[d] /\ total[d] >= settled[r][d]
    <3>1. \A d \in Tokens : settled[r][d] \in Nat /\ loop[r].bill[d] \in Nat
      BY <1>3
    <3>2. \A d \in Tokens : total[d] = settled[r][d] + loop[r].bill[d]
      OBVIOUS
    <3>3. total \in [Tokens -> Nat]
      BY <3>1
    <3> HIDE DEF meter, total
    <3> QED BY <3>1, <3>2, <3>3, <1>5
  <2>3. meter["turns"] = used[r]["turns"] /\ meter["provider_retries"] = used[r]["provider_retries"]
    BY Constants DEF Meters
  <2> QED BY <2>1, <2>2, <2>3
<1> HIDE DEF meter, total
<1>7. PICK pc \in {"raised", "judge"} : loop' = [loop EXCEPT ![r] = At(r, pc)]
  BY <1>0, <1>1, GotoAt DEF Reconcile
<1>8. At(r, pc) \in LoopState /\ At(r, pc).at = pc
  BY <1>0, LoopTyped DEF Places
<1>9. /\ loop'[r] = At(r, pc) /\ used'[r] = meter /\ settled'[r] = total /\ ~inflight'[r]
      /\ \A s \in Runs \ {r} : /\ loop'[s] = loop[s] /\ used'[s] = used[s]
                               /\ settled'[s] = settled[s] /\ inflight'[s] = inflight[s]
  BY <1>0, <1>2, <1>4, <1>7 DEF Types
<1>10. Types'
  <2>1. used' \in [Runs -> [Dimensions -> Nat]] /\ settled' \in [Runs -> [Tokens -> Nat]]
    BY <1>0, <1>4, <1>6 DEF Types
  <2>2. loop' \in [Runs -> LoopState] /\ inflight' \in [Runs -> BOOLEAN]
    BY <1>0, <1>2, <1>7, <1>8 DEF Types
  <2> QED BY <2>1, <2>2, <1>0, <1>2 DEF Types, runVars
<1>11. SlotStep(r)
  BY <1>1, <1>2, <1>8, <1>9 DEF SlotStep, Holding
<1>12. Frame(r)
  BY <1>2, <1>9 DEF Frame, runVars
<1>13. LedgerHolds(r)'
  <2>1. \A d \in Tokens : used'[r][d] = settled'[r][d] /\ used'[r][d] \in Nat
    BY <1>6, <1>9, Constants
  <2>2. ~Working(r)' /\ loop'[r].at # "segment"
    BY <1>8, <1>9 DEF Working
  <2> QED BY <2>1, <2>2, <1>9 DEF LedgerHolds
<1>14. CallsCovered(r)'
  <2>1. ~Booked(r) /\ ~Booked(r)'
    BY <1>1, <1>8, <1>9 DEF Booked
  <2> QED BY <2>1, <1>2, <1>6, <1>9, RunMeters DEF CallsCovered
<1>15. LeftToDo(r)'
  BY <1>0, <1>1, <1>2, <1>8, <1>9 DEF LeftToDo, Underway, runVars
<1>16. LedgerStep(r) /\ ~Unresolved(r)
  BY <1>1, <1>6, <1>9 DEF LedgerStep, Unresolved
<1> QED BY <1>10, <1>11, <1>12, <1>13, <1>14, <1>15, <1>16 DEF Preserved

\* A run that is failed from outside keeps its ledger.
LEMMA EndedElsewhereStep ==
    ASSUME Inv, NEW r \in Runs, EndedElsewhere(r)
    PROVE  Preserved(r)
<1>1. UNCHANGED <<ledgerVars, left, loop, free, providerVars, crashes>>
  BY DEF EndedElsewhere
<1>2. Types'
  BY <1>1 DEF EndedElsewhere, Inv, Types, ledgerVars, providerVars
<1>3. SlotStep(r) /\ Frame(r) /\ LedgerStep(r)
  BY <1>1 DEF SlotStep, Holding, Frame, LedgerStep, ledgerVars, providerVars
<1>4. LedgerHolds(r)' /\ CallsCovered(r)' /\ LeftToDo(r)'
  BY <1>1 DEF Inv, LedgerHolds, CallsCovered, LeftToDo, Working, Booked, ledgerVars, providerVars
<1>5. Unresolved(r) => Unresolved(r)' /\ calls'[r] = calls[r]
  BY <1>1 DEF Unresolved, ledgerVars, providerVars
<1> QED BY <1>2, <1>3, <1>4, <1>5 DEF Preserved

\* Every step of a run is one of the above.
LEMMA RunStepPreserves ==
    ASSUME Inv, NEW r \in Runs, RunStep(r)
    PROVE  Preserved(r)
BY ModuleSteps, CallSteps, AnswerSteps, ReserveStep, CreateStep, CreateAnswersStep,
   CreateTimesOutStep, RetryOrRaiseStep, ReconcileStep, EndedElsewhereStep DEF RunStep, Step

\* Preserved is enough for the runs that did not move.
LEMMA PreservedInv ==
    ASSUME Inv, SlotsReturned, NEW r \in Runs, Preserved(r)
    PROVE  Inv' /\ SlotsReturned'
<1>1. Types' /\ free \in Nat /\ free' \in Nat
  BY DEF Preserved, Inv, Types
<1>2. ASSUME NEW s \in Runs PROVE LedgerHolds(s)' /\ CallsCovered(s)' /\ LeftToDo(s)'
  <2>1. CASE s = r
    BY <2>1 DEF Preserved
  <2>2. CASE s # r
    BY <2>2 DEF Preserved, Frame, Inv, LedgerHolds, CallsCovered, LeftToDo, Working, Booked
  <2> QED BY <2>1, <2>2
<1>3. SlotsReturned'
  BY <1>1, SlotStepBalances DEF Preserved
<1> QED BY <1>1, <1>2, <1>3 DEF Inv

\* A crash empties the loops and the slots, and leaves the ledgers.
LEMMA CrashInv == ASSUME Inv, Crash PROVE Inv' /\ SlotsReturned'
<1>1. /\ loop' = [r \in Runs |-> Rest] /\ free' = Slots /\ crashes' = crashes + 1
      /\ UNCHANGED <<ledgerVars, runVars, providerVars>>
  BY DEF Crash
<1>2. Rest \in LoopState /\ Rest.at = "idle"
  BY RestTyped DEF Rest
<1>3. Types'
  BY <1>1, <1>2, Constants DEF Inv, Types, ledgerVars, runVars, providerVars
<1>4. ASSUME NEW r \in Runs PROVE LedgerHolds(r)' /\ CallsCovered(r)' /\ LeftToDo(r)'
  <2>1. loop'[r] = Rest
    BY <1>1
  <2>2. LedgerHolds(r)' /\ LeftToDo(r)'
    BY <2>1, <1>1, <1>2 DEF Inv, LedgerHolds, LeftToDo, Underway, Working, ledgerVars, providerVars
  <2>3. ~Booked(r)'
    BY <2>1, <1>2 DEF Booked
  <2>4. CallsCovered(r)'
    BY <2>3, <1>1, RunMeters DEF CallsCovered, ledgerVars, providerVars
  <2> QED BY <2>2, <2>4
<1>5. SlotsReturned'
  <2>1. {r \in Runs : Holding(r)'} = {}
    BY <1>1, <1>2 DEF Holding
  <2>2. Cardinality({r \in Runs : Holding(r)'}) = 0
    BY <2>1, FS_EmptySet
  <2> QED BY <2>2, <1>1, Constants DEF SlotsReturned
<1> QED BY <1>3, <1>4, <1>5 DEF Inv

\* A stuttering step changes nothing.
LEMMA StutterInv == ASSUME Inv, SlotsReturned, UNCHANGED vars PROVE Inv' /\ SlotsReturned'
BY DEF Inv, Types, LedgerHolds, CallsCovered, LeftToDo, Working, Booked, SlotsReturned, Holding,
       vars, ledgerVars, runVars, providerVars

\* A step of the system is a step of one run, or a crash.
LEMMA NextSteps == ASSUME Next PROVE Crash \/ \E r \in Runs : RunStep(r)
BY DEF Next, RunStep

\* The invariant the theorems rest on: what the ledger holds, per run, and the
\* balance of the slots.
THEOREM Invariance == Spec => [](Inv /\ SlotsReturned)
<1>1. Init => Inv /\ SlotsReturned
  BY InitInv
<1>2. Inv /\ SlotsReturned /\ [Next]_vars => Inv' /\ SlotsReturned'
  BY NextSteps, RunStepPreserves, PreservedInv, CrashInv, StutterInv
<1> QED BY <1>1, <1>2, PTL DEF Spec

-----------------------------------------------------------------------------
(* The theorems.                                                           *)

\* A slot is held exactly while a call is out, whatever ends it.
THEOREM SlotBalance == Spec => []SlotsReturned
BY Invariance, PTL

\* Every variable stays in the range the code can store in it: a true-up takes
\* back no more than the ledger holds, and no slot is returned twice.
THEOREM Typing == Spec => []TypeOK
<1>1. Inv /\ SlotsReturned => TypeOK
  <2> SUFFICES ASSUME Inv, SlotsReturned PROVE TypeOK
    OBVIOUS
  <2> DEFINE H == {r \in Runs : Holding(r)}
  <2>1. IsFiniteSet(H)
    BY RunsAssumption, FS_Subset DEF Holding
  <2>2. Cardinality(H) \in Nat /\ free + Cardinality(H) = Slots
    BY <2>1, FS_CardinalityType DEF SlotsReturned, Holding
  <2> HIDE DEF H
  <2>3. free \in 0 .. Slots
    BY <2>2, Constants DEF Inv, Types
  <2> QED BY <2>3 DEF Inv, Types, TypeOK
<1> QED BY <1>1, Invariance, PTL

\* No create call goes out that the ledger has not counted before.
THEOREM Booking == Spec => []CallsAreBooked
<1>1. Inv => CallsAreBooked
  <2> SUFFICES ASSUME Inv, NEW r \in Runs
               PROVE  calls[r] <= used[r]["turns"] + used[r]["provider_retries"]
    BY DEF CallsAreBooked
  <2> QED BY RunMeters
<1> QED BY <1>1, Invariance, PTL

\* A run with an unresolved request never calls the provider again.
THEOREM UnknownSpendStays == Spec => NoRespend
<1> DEFINE Stays == \A r \in Runs : Unresolved(r) => Unresolved(r)' /\ calls'[r] = calls[r]
<1>1. Inv /\ [Next]_vars => [Stays]_vars
  <2> SUFFICES ASSUME Inv, Next PROVE Stays
    OBVIOUS
  <2>1. CASE Crash
    <3>1. \A r \in Runs : loop'[r].at = "idle"
      BY <2>1 DEF Crash, Rest
    <3> QED BY <3>1, <2>1 DEF Crash, Unresolved, ledgerVars, providerVars
  <2>2. ASSUME NEW r \in Runs, RunStep(r) PROVE Stays
    <3>1. Preserved(r)
      BY <2>2, RunStepPreserves
    <3>2. ASSUME NEW s \in Runs, Unresolved(s) PROVE Unresolved(s)' /\ calls'[s] = calls[s]
      <4>1. CASE s = r
        BY <4>1, <3>1, <3>2 DEF Preserved
      <4>2. CASE s # r
        BY <4>2, <3>1, <3>2 DEF Preserved, Frame, Unresolved
      <4> QED BY <4>1, <4>2
    <3> QED BY <3>2
  <2> QED BY <2>1, <2>2, NextSteps
<1> QED BY <1>1, Invariance, PTL DEF Spec, NoRespend

-----------------------------------------------------------------------------
(* The ledger implements Metering.                                         *)

\* What the ledger holds for the open request of each run.
Held == [r \in Runs |-> [d \in Tokens |-> used[r][d] - settled[r][d]]]

\* The initial ledgers are initial meters.
LEMMA MeterInit == Init => Meter!Init
<1> SUFFICES ASSUME Init PROVE Meter!Init
  OBVIOUS
<1>1. \A r \in Runs, d \in Tokens : used[r][d] = 0 /\ settled[r][d] = 0
  BY Constants DEF Init, NoTokens
<1>2. Held = [r \in Runs |-> [d \in Tokens |-> 0]]
  BY <1>1 DEF Held
<1> QED BY <1>2 DEF Init, NoTokens, Meter!Init, Held

\* A step that preserves the invariant holds, settles, or leaves the meter be.
LEMMA MeterStep ==
    ASSUME Inv, NEW r \in Runs, Preserved(r)
    PROVE  [Meter!Next]_Meter!vars
<1>1. Inv /\ Types /\ Types'
  BY DEF Preserved, Inv
<1>2. \A s \in Runs \ {r} : /\ used'[s] = used[s] /\ inflight'[s] = inflight[s]
                            /\ settled'[s] = settled[s]
  BY DEF Preserved, Frame
<1>3. Held' = [Held EXCEPT ![r] = Held'[r]]
  BY <1>2 DEF Held
<1>4. inflight' = [inflight EXCEPT ![r] = inflight'[r]]
  BY <1>1, <1>2 DEF Types
<1>5. settled' = [settled EXCEPT ![r] = settled'[r]]
  BY <1>1, <1>2 DEF Types
<1>6. \A d \in Tokens : /\ used[r][d] \in Nat /\ used'[r][d] \in Nat
                        /\ settled[r][d] \in Nat /\ settled'[r][d] \in Nat
  BY <1>1, Constants DEF Types
<1>7. inflight[r] \in BOOLEAN /\ inflight'[r] \in BOOLEAN
  BY <1>1 DEF Types
<1>8. CASE /\ inflight'[r] = inflight[r] /\ settled'[r] = settled[r]
           /\ \A d \in Tokens : used'[r][d] = used[r][d]
  <2>1. inflight' = inflight /\ settled' = settled
    BY <1>1, <1>2, <1>8 DEF Types
  <2>2. Held' = Held
    BY <1>2, <1>8 DEF Held
  <2> QED BY <2>1, <2>2 DEF Meter!vars, Held
<1>9. CASE /\ ~inflight[r] /\ inflight'[r] /\ settled'[r] = settled[r]
           /\ \A d \in Tokens : used'[r][d] <= Limit[d]
  <2>1. settled' = settled
    BY <1>1, <1>2, <1>9 DEF Types
  <2>2. inflight' = [inflight EXCEPT ![r] = TRUE]
    BY <1>4, <1>7, <1>9
  <2>3. \A d \in Tokens : Held'[r][d] = used'[r][d] - settled[r][d]
    BY <2>1 DEF Held
  <2>4. \A d \in Tokens : used'[r][d] >= settled'[r][d]
    BY DEF Preserved, LedgerHolds
  <2>5. \A d \in Tokens : Held'[r][d] >= 0 /\ settled[r][d] + Held'[r][d] <= Limit[d]
    BY <2>1, <2>3, <2>4, <1>6, <1>9, Constants
  <2>6. Meter!Hold(r)
    BY <2>1, <2>2, <2>5, <1>3, <1>9 DEF Meter!Hold, Held
  <2> QED BY <2>6 DEF Meter!Next
<1>10. CASE /\ inflight[r] /\ ~inflight'[r]
            /\ \A d \in Tokens : settled'[r][d] >= settled[r][d]
  <2>1. inflight' = [inflight EXCEPT ![r] = FALSE]
    BY <1>4, <1>7, <1>10
  <2>2. \A d \in Tokens : used'[r][d] = settled'[r][d]
    BY <1>10 DEF Preserved, LedgerHolds
  <2>3. Held'[r] = [d \in Tokens |-> 0]
    BY <2>2, <1>6 DEF Held
  <2>4. Held' = [Held EXCEPT ![r] = [d \in Tokens |-> 0]]
    BY <2>3, <1>3
  <2>5. Meter!Settle(r)
    BY <2>1, <2>4, <1>5, <1>10 DEF Meter!Settle, Held
  <2> QED BY <2>5 DEF Meter!Next
<1> QED BY <1>8, <1>9, <1>10 DEF Preserved, LedgerStep

\* Every behaviour of the loop and its ledger is one that Metering allows.
THEOREM LedgerImplementsMetering == Spec => LedgerMeters
<1>1. Init => Meter!Init
  BY MeterInit
<1>2. Inv /\ [Next]_vars => [Meter!Next]_Meter!vars
  <2> SUFFICES ASSUME Inv, [Next]_vars PROVE [Meter!Next]_Meter!vars
    OBVIOUS
  <2>1. CASE Crash
    BY <2>1 DEF Crash, Meter!vars, ledgerVars, providerVars
  <2>2. ASSUME NEW r \in Runs, RunStep(r) PROVE [Meter!Next]_Meter!vars
    BY <2>2, RunStepPreserves, MeterStep
  <2>3. CASE UNCHANGED vars
    BY <2>3 DEF vars, Meter!vars, ledgerVars, providerVars
  <2> QED BY <2>1, <2>2, <2>3, NextSteps
<1> QED BY <1>1, <1>2, Invariance, PTL DEF Spec, LedgerMeters, Meter!Spec

\* Ledger, slots and calls stay in balance: the parts above, together.
THEOREM LedgerStaysSound == Spec => []LedgerSound
<1>1. TypeOK /\ CallsAreBooked /\ SlotsReturned => LedgerSound
  BY DEF LedgerSound
<1> QED BY <1>1, Typing, Booking, SlotBalance, PTL
=============================================================================
