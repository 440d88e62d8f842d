----------------------------- MODULE ProviderLedger -----------------------------
(***************************************************************************)
(* The provider loop of the agent modules and the ledger that meters it.   *)
(*                                                                         *)
(* Every run has one ledger row.  Its modules execute one at a time (the   *)
(* per-run agent lock, RunLifecycle!OneCallAtATime), so a run is in one    *)
(* loop at most.  The runs of a process share the provider slots, which    *)
(* live in memory; the ledger survives the process.  Every action is one   *)
(* ledger transaction or one provider await: the process may stop between  *)
(* any two of them.                                                        *)
(***************************************************************************)
EXTENDS Naturals, FiniteSets

CONSTANTS
    Runs,        \* the runs of the process
    Tokens,      \* the token dimensions: input_tokens, output_tokens
    Limit,       \* Limit[k]: the run's ceiling in dimension k (route_envelope)
    Asks,        \* the reservations a request may need: [Tokens -> Nat]
    Bills,       \* the usages the provider may report: [Tokens -> Nat]
    Segments,    \* the active time a metered segment may take
    Slots,       \* PROVIDER_CONCURRENCY_SLOTS
    ModuleCount, \* how many agent modules the route of a run has
    MaxCrashes   \* bound: process deaths in a behaviour

Meters == {"turns", "evidence_reads", "active_minutes", "provider_retries", "repairs"}
Dimensions == Tokens \cup Meters

ASSUME RunsAssumption == IsFiniteSet(Runs)
ASSUME LimitAssumption ==
    /\ Tokens \cap Meters = {}
    /\ Limit \in [Dimensions -> Nat]
ASSUME UsageAssumption ==
    /\ Asks \subseteq [Tokens -> Nat] /\ Bills \subseteq [Tokens -> Nat]
    /\ Segments \subseteq Nat
ASSUME CountsAssumption == Slots \in Nat /\ ModuleCount \in Nat /\ MaxCrashes \in Nat

VARIABLES
    \* --- run_budgets, run_artifacts and runs: committed
    used,       \* used[r][k]: what the ledger has booked
    inflight,   \* inflight_request_digest is set
    left,       \* modules of the route without an artifact
    failed,     \* the run is terminal
    \* --- the serving process
    loop,       \* where the module's loop stands, and its locals
    free,       \* ProviderSlots._free
    \* --- what really happened at the provider
    calls,      \* create calls that went out
    billed,     \* usage of the answers that came back with a valid usage
    settled,    \* the part of it that the ledger has been trued up with
    \* --- bound
    crashes

ledgerVars == <<used, inflight>>
runVars == <<left, failed>>
providerVars == <<calls, billed, settled>>
vars == <<ledgerVars, runVars, loop, free, providerVars, crashes>>

NoTokens == [d \in Tokens |-> 0]

\* A loop that is not running.  `then` is where a metered segment leads once
\* its time is charged; `ask` and `bill` are the request's reservation and
\* usage; `retried` is retry_used, `repaired` the shared repair_state.
Rest == [at |-> "idle", then |-> "idle", ask |-> NoTokens, bill |-> NoTokens,
         retried |-> FALSE, repaired |-> FALSE, tools |-> TRUE, incomplete |-> FALSE]

Goto(r, pc) == loop' = [loop EXCEPT ![r].at = pc]
Fits(r, k, n) == used[r][k] + n <= Limit[k]
Book(r, k, n) == used' = [used EXCEPT ![r][k] = @ + n]

\* remaining_seconds() is positive.
TimeLeft(r) == used[r]["active_minutes"] < Limit["active_minutes"]

-----------------------------------------------------------------------------
(* Metered segments.                                                       *)

\* timed(): charge what the segment took, then go on; the charge refuses what
\* would cross the ceiling, without booking it.
EndSegment(r, next) ==
    \E t \in Segments :
        IF Fits(r, "active_minutes", t)
        THEN /\ Book(r, "active_minutes", t)
             /\ loop' = [loop EXCEPT ![r] = next]
        ELSE /\ UNCHANGED used
             /\ Goto(r, "raised")

\* A local segment is over: its time is charged, then the loop goes on at pc.
Then(r, pc) == [loop[r] EXCEPT !.at = "segment", !.then = pc]

\* charge_budget inside a segment: book one unit of k, or raise behind the
\* charge of the segment's time.
ChargeInSegment(r, k, next) ==
    IF Fits(r, k, 1)
    THEN Book(r, k, 1) /\ loop' = [loop EXCEPT ![r] = next]
    ELSE UNCHANGED used /\ loop' = [loop EXCEPT ![r] = Then(r, "raised")]

\* The end of a local segment: reuse check, tool call, validation, completion.
SegmentEnds(r) ==
    /\ loop[r].at = "segment"
    /\ EndSegment(r, [loop[r] EXCEPT !.at = loop[r].then])
    /\ UNCHANGED <<inflight, runVars, free, providerVars, crashes>>

-----------------------------------------------------------------------------
(* A module: reuse check, entry, completion.                               *)

\* _run_module up to find_valid_artifact, a metered segment.
StartModule(r) ==
    /\ loop[r].at = "idle" /\ ~failed[r] /\ left[r] > 0
    /\ loop' = [loop EXCEPT ![r] = [Rest EXCEPT !.at = "segment", !.then = "enter"]]
    /\ UNCHANGED <<ledgerVars, runVars, free, providerVars, crashes>>

\* Mutant: a new execution drops the request an earlier one left unresolved.
EnterAgentAfresh(r) ==
    /\ loop[r].at = "enter"
    /\ inflight' = [inflight EXCEPT ![r] = FALSE]
    /\ Goto(r, "count")
    /\ UNCHANGED <<used, runVars, free, providerVars, crashes>>

\* _execute_agent: an unresolved request of an earlier execution is refused.
EnterAgent(r) ==
    /\ loop[r].at = "enter"
    /\ Goto(r, IF failed[r] \/ inflight[r] THEN "raised" ELSE "count")
    /\ UNCHANGED <<ledgerVars, runVars, free, providerVars, crashes>>

\* complete_node, and the metered segment around it.
CompleteModule(r) ==
    /\ loop[r].at = "done"
    /\ left' = [left EXCEPT ![r] = @ - 1]
    /\ loop' = [loop EXCEPT ![r] = Then(r, "idle")]
    /\ UNCHANGED <<ledgerVars, failed, free, providerVars, crashes>>

\* The exception reaches _run_module: finalize_failure.
FailRun(r) ==
    /\ loop[r].at = "raised"
    /\ failed' = [failed EXCEPT ![r] = TRUE]
    /\ loop' = [loop EXCEPT ![r] = Rest]
    /\ UNCHANGED <<ledgerVars, left, free, providerVars, crashes>>

-----------------------------------------------------------------------------
(* Provider calls.                                                         *)

\* Mutant: the slot is taken before the remaining time is checked.
CountSlotFirst(r) ==
    /\ loop[r].at = "count"
    /\ IF free > 0
       THEN /\ free' = free - 1
            /\ Goto(r, IF TimeLeft(r) THEN "counting" ELSE "raised")
       ELSE /\ UNCHANGED free
            /\ Goto(r, "raised")
    /\ UNCHANGED <<ledgerVars, runVars, providerVars, crashes>>

\* Mutant: a loop out of time waits for more instead of raising.
CountWaits(r) ==
    /\ loop[r].at = "count" /\ TimeLeft(r)
    /\ IF free > 0
       THEN free' = free - 1 /\ Goto(r, "counting")
       ELSE UNCHANGED free /\ Goto(r, "raised")
    /\ UNCHANGED <<ledgerVars, runVars, providerVars, crashes>>

\* Time is checked, then a slot is taken or denied; count_tokens goes out.
Count(r) ==
    /\ loop[r].at = "count"
    /\ IF TimeLeft(r) /\ free > 0
       THEN free' = free - 1 /\ Goto(r, "counting")
       ELSE UNCHANGED free /\ Goto(r, "raised")
    /\ UNCHANGED <<ledgerVars, runVars, providerVars, crashes>>

\* The count comes back, or fails: the slot is returned and the time charged
\* either way.
CountEnds(r) ==
    /\ loop[r].at = "counting"
    /\ free' = free + 1
    /\ \/ \E ask \in Asks : EndSegment(r, [loop[r] EXCEPT !.at = "reserve", !.ask = ask])
       \/ EndSegment(r, [loop[r] EXCEPT !.at = "raised"])
    /\ UNCHANGED <<inflight, runVars, providerVars, crashes>>

\* Mutant: refuse only once a ceiling has been reached.
ReserveUntilReached(r) ==
    /\ loop[r].at = "reserve"
    /\ IF ~inflight[r] /\ \A k \in Tokens \cup {"turns"} : used[r][k] < Limit[k]
       THEN /\ used' = [used EXCEPT ![r] =
                          [k \in Dimensions |->
                              IF k = "turns" THEN @[k] + 1
                              ELSE IF k \in Tokens THEN @[k] + loop[r].ask[k] ELSE @[k]]]
            /\ inflight' = [inflight EXCEPT ![r] = TRUE]
            /\ Goto(r, "create")
       ELSE /\ UNCHANGED ledgerVars
            /\ Goto(r, "raised")
    /\ UNCHANGED <<runVars, free, providerVars, crashes>>

\* reserve_provider: a turn and the request's tokens must fit; they are booked
\* and the digest is persisted before the call goes out.
Reserve(r) ==
    /\ loop[r].at = "reserve"
    /\ IF ~inflight[r] /\ Fits(r, "turns", 1) /\ \A k \in Tokens : Fits(r, k, loop[r].ask[k])
       THEN /\ used' = [used EXCEPT ![r] =
                          [k \in Dimensions |->
                              IF k = "turns" THEN @[k] + 1
                              ELSE IF k \in Tokens THEN @[k] + loop[r].ask[k] ELSE @[k]]]
            /\ inflight' = [inflight EXCEPT ![r] = TRUE]
            /\ Goto(r, "create")
       ELSE /\ UNCHANGED ledgerVars
            /\ Goto(r, "raised")
    /\ UNCHANGED <<runVars, free, providerVars, crashes>>

\* Time and slot again, then create_message goes out.
Create(r) ==
    /\ loop[r].at = "create"
    /\ IF TimeLeft(r) /\ free > 0
       THEN /\ free' = free - 1
            /\ calls' = [calls EXCEPT ![r] = @ + 1]
            /\ Goto(r, "creating")
       ELSE /\ UNCHANGED <<free, calls>>
            /\ Goto(r, "raised")
    /\ UNCHANGED <<ledgerVars, runVars, billed, settled, crashes>>

\* An answer with a valid usage: the slot is returned and the time charged
\* before the usage is reconciled.
CreateAnswers(r) ==
    /\ loop[r].at = "creating"
    /\ free' = free + 1
    /\ \E bill \in Bills :
          /\ billed' = [billed EXCEPT ![r] = [d \in Tokens |-> @[d] + bill[d]]]
          /\ EndSegment(r, [loop[r] EXCEPT !.at = "answered", !.bill = bill])
    /\ UNCHANGED <<inflight, runVars, calls, settled, crashes>>

\* Any other end than a timeout: refused, malformed usage, connection lost.
CreateFails(r) ==
    /\ loop[r].at = "creating"
    /\ free' = free + 1
    /\ EndSegment(r, [loop[r] EXCEPT !.at = "raised"])
    /\ UNCHANGED <<inflight, runVars, providerVars, crashes>>

\* Mutant: the retry is not charged to the run's allowance.
CreateTimesOutFree(r) ==
    /\ loop[r].at = "creating"
    /\ loop' = [loop EXCEPT ![r].at = "retrying",
                            ![r].retried = TRUE,
                            ![r].then = IF loop[r].retried THEN "raised" ELSE "create"]
    /\ UNCHANGED <<ledgerVars, runVars, free, providerVars, crashes>>

\* Mutant: the slot is returned when the timeout is seen and again in finally.
CreateTimesOutReleases(r) ==
    /\ loop[r].at = "creating"
    /\ free' = free + 1
    /\ IF ~loop[r].retried /\ Fits(r, "provider_retries", 1)
       THEN /\ Book(r, "provider_retries", 1)
            /\ loop' = [loop EXCEPT ![r].at = "retrying", ![r].retried = TRUE, ![r].then = "create"]
       ELSE /\ UNCHANGED used
            /\ loop' = [loop EXCEPT ![r].at = "retrying", ![r].then = "raised"]
    /\ UNCHANGED <<inflight, runVars, providerVars, crashes>>

\* A timeout: the module's second one raises, the first is charged to the
\* run's provider_retries; the slot is still held.
CreateTimesOut(r) ==
    /\ loop[r].at = "creating"
    /\ IF ~loop[r].retried /\ Fits(r, "provider_retries", 1)
       THEN /\ Book(r, "provider_retries", 1)
            /\ loop' = [loop EXCEPT ![r].at = "retrying", ![r].retried = TRUE, ![r].then = "create"]
       ELSE /\ UNCHANGED used
            /\ loop' = [loop EXCEPT ![r].at = "retrying", ![r].then = "raised"]
    /\ UNCHANGED <<inflight, runVars, free, providerVars, crashes>>

\* The timed-out call's finally: slot returned, time charged; the retry, byte
\* for byte the same request, needs its own digest still in flight.
RetryOrRaise(r) ==
    /\ loop[r].at = "retrying"
    /\ free' = free + 1
    /\ EndSegment(r, [loop[r] EXCEPT !.at = IF inflight[r] THEN loop[r].then ELSE "raised"])
    /\ UNCHANGED <<inflight, runVars, providerVars, crashes>>

\* reconcile_provider: true up and close the request, then refuse an overrun.
Reconcile(r) ==
    /\ loop[r].at = "answered"
    /\ IF inflight[r]
       THEN /\ used' = [used EXCEPT ![r] =
                          [k \in Dimensions |->
                              IF k \in Tokens THEN @[k] + loop[r].bill[k] - loop[r].ask[k] ELSE @[k]]]
            /\ inflight' = [inflight EXCEPT ![r] = FALSE]
            /\ settled' = [settled EXCEPT ![r] = [d \in Tokens |-> @[d] + loop[r].bill[d]]]
            /\ Goto(r, IF \E k \in Tokens : used'[r][k] > Limit[k] THEN "raised" ELSE "judge")
       ELSE /\ UNCHANGED <<ledgerVars, settled>>
            /\ Goto(r, "raised")
    /\ UNCHANGED <<runVars, free, calls, billed, crashes>>

-----------------------------------------------------------------------------
(* What the answer asks for.                                               *)

\* A refusal, a truncated, malformed or unacceptable answer, a tool call that
\* is not allowed: the module fails, at once or when its segment is charged.
AnswerRejected(r) ==
    /\ loop[r].at = "judge"
    /\ Goto(r, "raised") \/ loop' = [loop EXCEPT ![r] = Then(r, "raised")]
    /\ UNCHANGED <<ledgerVars, runVars, free, providerVars, crashes>>

\* The evidence tool: a read is charged before it is delivered.
ReadEvidence(r) ==
    /\ loop[r].at = "judge" /\ loop[r].tools
    /\ ChargeInSegment(r, "evidence_reads", Then(r, "count"))
    /\ UNCHANGED <<inflight, runVars, free, providerVars, crashes>>

\* The calculation tool gives a complete result, or an incomplete one, which
\* raises for a core calculator once the module's repair is spent.
Calculate(r) ==
    /\ loop[r].at = "judge" /\ loop[r].tools /\ ~loop[r].incomplete
    /\ \/ loop' = [loop EXCEPT ![r] = Then(r, "count")]
       \/ loop' = [loop EXCEPT ![r] = [Then(r, "count") EXCEPT !.incomplete = TRUE]]
    /\ UNCHANGED <<ledgerVars, runVars, free, providerVars, crashes>>

\* A calculator that was incomplete runs again, on the module's one repair.
Recalculate(r) ==
    /\ loop[r].at = "judge" /\ loop[r].tools /\ loop[r].incomplete /\ ~loop[r].repaired
    /\ \E complete \in BOOLEAN, pc \in {"count", "raised"} :
          /\ complete => pc = "count"
          /\ ChargeInSegment(r, "repairs",
                [Then(r, pc) EXCEPT !.repaired = TRUE, !.incomplete = ~complete])
    /\ UNCHANGED <<inflight, runVars, free, providerVars, crashes>>

\* The final answer validates.
AnswerValid(r) ==
    /\ loop[r].at = "judge"
    /\ loop' = [loop EXCEPT ![r] = Then(r, "done")]
    /\ UNCHANGED <<ledgerVars, runVars, free, providerVars, crashes>>

\* It does not: one tool-less repair, shared with the calculator.
Repair(r) ==
    /\ loop[r].at = "judge" /\ ~loop[r].repaired
    /\ ChargeInSegment(r, "repairs", [Then(r, "count") EXCEPT !.repaired = TRUE, !.tools = FALSE])
    /\ UNCHANGED <<inflight, runVars, free, providerVars, crashes>>

-----------------------------------------------------------------------------
(* The process.                                                            *)

\* The run is finalized by somebody else: a sibling module, a resume.
EndedElsewhere(r) ==
    /\ ~failed[r]
    /\ failed' = [failed EXCEPT ![r] = TRUE]
    /\ UNCHANGED <<ledgerVars, left, loop, free, providerVars, crashes>>

Waiting(r) == loop[r].at \in {"counting", "creating"}

\* LangGraph cancels the module of a failed run in one of its awaits: only the
\* finally blocks run.
Cancelled(r) ==
    /\ failed[r]
    /\ Waiting(r) \/ (loop[r].at = "segment" /\ loop[r].then = "count")
    /\ free' = IF Waiting(r) THEN free + 1 ELSE free
    /\ \E t \in Segments : IF Fits(r, "active_minutes", t) THEN Book(r, "active_minutes", t)
                           ELSE UNCHANGED used
    /\ loop' = [loop EXCEPT ![r] = Rest]
    /\ UNCHANGED <<inflight, runVars, providerVars, crashes>>

\* The process stops and starts again: loops and slots are new, ledgers stay.
Crash ==
    /\ crashes < MaxCrashes
    /\ crashes' = crashes + 1
    /\ loop' = [r \in Runs |-> Rest]
    /\ free' = Slots
    /\ UNCHANGED <<ledgerVars, runVars, providerVars>>

Init ==
    /\ used = [r \in Runs |-> [k \in Dimensions |-> 0]]
    /\ inflight = [r \in Runs |-> FALSE]
    /\ left = [r \in Runs |-> ModuleCount]
    /\ failed = [r \in Runs |-> FALSE]
    /\ loop = [r \in Runs |-> Rest]
    /\ free = Slots
    /\ calls = [r \in Runs |-> 0]
    /\ billed = [r \in Runs |-> NoTokens]
    /\ settled = [r \in Runs |-> NoTokens]
    /\ crashes = 0

Step(r) ==
    \/ SegmentEnds(r) \/ EnterAgent(r) \/ CompleteModule(r) \/ FailRun(r)
    \/ Count(r) \/ CountEnds(r) \/ Reserve(r) \/ Create(r)
    \/ CreateAnswers(r) \/ CreateFails(r) \/ CreateTimesOut(r) \/ RetryOrRaise(r) \/ Reconcile(r)
    \/ AnswerRejected(r) \/ ReadEvidence(r) \/ Calculate(r) \/ Recalculate(r)
    \/ AnswerValid(r) \/ Repair(r)

Next ==
    \/ \E r \in Runs : StartModule(r) \/ Step(r) \/ EndedElsewhere(r) \/ Cancelled(r)
    \/ Crash

Spec == Init /\ [][Next]_vars

\* A coroutine runs on, and a provider call ends by its timeout.
FairSpec == Spec /\ \A r \in Runs : WF_vars(Step(r))

-----------------------------------------------------------------------------
LoopState == [at : {"idle", "segment", "enter", "count", "counting", "reserve", "create", "creating",
                    "retrying", "answered", "judge", "done", "raised"},
              then : {"idle", "enter", "count", "done", "raised", "create"},
              ask : [Tokens -> Nat], bill : [Tokens -> Nat],
              retried : BOOLEAN, repaired : BOOLEAN, tools : BOOLEAN, incomplete : BOOLEAN]

\* Every variable ranges over what the code can store in it: no meter goes
\* below zero, whatever a true-up takes back, and no slot is returned twice.
TypeOK ==
    /\ used \in [Runs -> [Dimensions -> Nat]]
    /\ inflight \in [Runs -> BOOLEAN]
    /\ left \in [Runs -> Nat] /\ failed \in [Runs -> BOOLEAN]
    /\ loop \in [Runs -> LoopState]
    /\ free \in 0 .. Slots
    /\ calls \in [Runs -> Nat]
    /\ billed \in [Runs -> [Tokens -> Nat]] /\ settled \in [Runs -> [Tokens -> Nat]]
    /\ crashes \in Nat

\* A slot is held exactly while a call is out (or its timeout is being
\* recorded), whatever ends the call: answer, failure, timeout, a refused
\* charge, cancellation.
Holding(r) == loop[r].at \in {"counting", "creating", "retrying"}
SlotsReturned == free + Cardinality({r \in Runs : Holding(r)}) = Slots

\* No create call goes out that the ledger has not counted first, as a turn or
\* as a retry, in whatever execution of the module (budget.py: "every ceiling
\* is host-enforced and fails BEFORE overspend").
CallsAreBooked ==
    \A r \in Runs : calls[r] <= used[r]["turns"] + used[r]["provider_retries"]

\* A request is unresolved when no loop is working on it any more.
Unresolved(r) == inflight[r] /\ loop[r].at \notin {"create", "creating", "retrying", "answered"}

\* A run with an unresolved request keeps it and never calls the provider
\* again: after a crash with unknown spend nothing is re-spent.
NoRespend == [][\A r \in Runs : Unresolved(r) => Unresolved(r)' /\ calls'[r] = calls[r]]_vars

\* The ledger announces, settles and stays under its ceilings as Metering says;
\* what it has booked beyond the settled usage is what the open request holds.
Meter == INSTANCE Metering WITH
    open <- inflight,
    held <- [r \in Runs |-> [d \in Tokens |-> used[r][d] - settled[r][d]]]

LedgerMeters == Meter!Spec

\* A module that has started ends: turns, retries and repairs run out.
ModulesEnd == \A r \in Runs : loop[r].at # "idle" ~> loop[r].at = "idle"

\* The ledger and the pool of slots stay in balance with the calls, whatever
\* ends a call: no meter below zero, no call uncounted, no slot leaked or
\* returned twice.
LedgerSound == TypeOK /\ CallsAreBooked /\ SlotsReturned
=============================================================================
