------------------------------- MODULE ModelJobs -------------------------------
(***************************************************************************)
(* The model jobs of one case: builds, signed revisions and their exports. *)
(*                                                                         *)
(* Two processes share the tables.  The API process accepts snapshots,     *)
(* queues builds, signs revisions and requests exports; its authority lock *)
(* orders what it does itself.  The worker process polls for queued work,  *)
(* computes and publishes; it never holds that lock, so every write of its *)
(* is a compare-and-swap on the row.  An action is one transaction, or one *)
(* read on which a later write relies.                                     *)
(*                                                                         *)
(* A build's input fingerprint binds the accepted snapshot and the lineage *)
(* of its sources, which an intake may change; the bundle and the runtime  *)
(* it also binds do not change while the processes run.  Fingerprints are  *)
(* numbered as the case comes to them: a snapshot below is what it         *)
(* resolves to, one number for each lineage it is given.                   *)
(***************************************************************************)
EXTENDS Naturals, Sequences, FiniteSets

CONSTANTS
    Sources,      \* the sources of the case
    Analysts,     \* the analysts who sign
    Nobody,       \* no analyst
    Outcomes,     \* how a calculation may end: "result", "invalid", "raise"
    MaxSnapshots, \* bound: snapshots accepted, or classified anew, in a behaviour
    MaxRevisions, \* bound: revisions signed
    MaxCrashes    \* bound: deaths of either process

ASSUME AnalystsAssumption == Nobody \notin Analysts
ASSUME OutcomesAssumption == Outcomes \subseteq {"result", "invalid", "raise"}
ASSUME BoundsAssumption ==
    MaxSnapshots \in Nat /\ MaxRevisions \in Nat /\ MaxCrashes \in Nat

VARIABLES
    \* --- the database
    accepted,   \* cases.accepted_snapshot_id, as it resolves: numbered from 1
    pins,       \* pins[s]: the sources that snapshot s pins
    withdrawn,  \* sources.withdrawn
    builds,     \* model_builds in creation order
    revisions,  \* model_revisions in revision order; the head is the last one
    \* --- the API process and its clients
    op,         \* the operation that holds the authority lock
    request,    \* an export request that has passed its checks
    draft,      \* what each analyst previewed: the build and the head of then
    \* --- the worker process
    worker,
    \* --- bound
    crashes

caseVars == <<accepted, pins, withdrawn>>
jobVars == <<builds, revisions>>
apiVars == <<op, request, draft>>
vars == <<caseVars, jobVars, apiVars, worker, crashes>>

Active == {"QUEUED", "BUILDING"}
Rows == 1 .. Len(builds)
Targets == [kind : {"build"}, n : Rows] \cup [kind : {"revision"}, n : 1 .. Len(revisions)]
NoTarget == [kind |-> "none", n |-> 0]
NoOp == [kind |-> "none", at |-> "none", active |-> 0, by |-> Nobody]
NoDraft == [build |-> 0, head |-> 0]

\* sources_for_live_set, and the condition _live_sources_condition puts into
\* the publishing UPDATE.
Live(s) == pins[s] \cap withdrawn = {}

\* current_build: the latest READY row.
Current(b) == builds[b].status = "READY" /\ \A c \in Rows : builds[c].status = "READY" => c <= b

\* _require_current: the build speaks for the accepted snapshot, now.
Valid(b) == b \in Rows /\ Current(b) /\ builds[b].snapshot = accepted /\ Live(accepted)

BuildOf(t) == IF t.kind = "build" THEN t.n ELSE revisions[t.n].build
ExportOf(t) == IF t.kind = "build" THEN builds[t.n].export ELSE revisions[t.n].export

\* update_build(export=...) and update_revision_export.
SetExport(t, status) ==
    IF t.kind = "build"
    THEN builds' = [builds EXCEPT ![t.n].export = status] /\ UNCHANGED revisions
    ELSE revisions' = [revisions EXCEPT ![t.n].export = status] /\ UNCHANGED builds

-----------------------------------------------------------------------------
(* The authority lock: accept and queue, sign, withdraw.                   *)

Unlocked == op.kind = "none"
Release == op' = NoOp

\* Engine.accept: publish the snapshot, then auto-queue under the same lock.
Accept(S) ==
    /\ Unlocked /\ accepted < MaxSnapshots
    /\ S # {} /\ S \cap withdrawn = {}
    /\ accepted' = accepted + 1
    /\ pins' = [pins EXCEPT ![accepted + 1] = S]
    /\ op' = [NoOp EXCEPT !.kind = "queue", !.at = "read"]
    /\ UNCHANGED <<withdrawn, jobVars, request, draft, worker, crashes>>

\* DomainStore.admit_intake, of a pack that drops a pinned source once more:
\* the accepted snapshot resolves to another lineage, and nothing is queued.
Reclassify ==
    /\ Unlocked /\ accepted \in 1 .. MaxSnapshots - 1
    /\ accepted' = accepted + 1
    /\ pins' = [pins EXCEPT ![accepted + 1] = pins[accepted]]
    /\ UNCHANGED <<withdrawn, jobVars, apiVars, worker, crashes>>

\* Mutant: an analyst may queue before anything is accepted.
QueueRequestUnchecked ==
    /\ Unlocked
    /\ op' = [NoOp EXCEPT !.kind = "queue", !.at = "read"]
    /\ UNCHANGED <<caseVars, jobVars, request, draft, worker, crashes>>

\* An analyst queues: the snapshot must resolve, with live sources.
QueueRequest ==
    /\ Unlocked /\ accepted > 0 /\ Live(accepted)
    /\ op' = [NoOp EXCEPT !.kind = "queue", !.at = "read"]
    /\ UNCHANGED <<caseVars, jobVars, request, draft, worker, crashes>>

\* Mutant: a claimed row no longer counts as the standing job.
QueueReadsQueuedOnly ==
    /\ op.kind = "queue" /\ op.at = "read"
    /\ LET standing == {b \in Rows : builds[b].status = "QUEUED"}
       IN \E b \in standing \cup {0} :
              /\ b = 0 => standing = {}
              /\ op' = [op EXCEPT !.at = "write", !.active = b]
    /\ UNCHANGED <<caseVars, jobVars, request, draft, worker, crashes>>

\* queue_build lists the rows of the case and takes the first active one.
QueueRead ==
    /\ op.kind = "queue" /\ op.at = "read"
    /\ LET standing == {b \in Rows : builds[b].status \in Active}
       IN \E b \in standing \cup {0} :
              /\ b = 0 => standing = {}
              /\ \A c \in standing : b <= c
              /\ op' = [op EXCEPT !.at = "write", !.active = b]
    /\ UNCHANGED <<caseVars, jobVars, request, draft, worker, crashes>>

\* The inputs do not resolve, or there is no room for a new job.
QueueRefused ==
    /\ op.kind = "queue" /\ (op.at = "read" \/ op.active = 0)
    /\ Release
    /\ UNCHANGED <<caseVars, jobVars, request, draft, worker, crashes>>

\* Mutant: the re-point does not look at the status of the row it read.
RepointBlindly ==
    /\ op.kind = "queue" /\ op.at = "write" /\ op.active # 0
    /\ builds' = IF builds[op.active].snapshot # accepted
                 THEN [builds EXCEPT ![op.active].status = "QUEUED", ![op.active].snapshot = accepted]
                 ELSE builds
    /\ Release
    /\ UNCHANGED <<caseVars, revisions, request, draft, worker, crashes>>

\* The standing job is re-pointed when it is for another snapshot and is still
\* active; either way its row is the answer.
Repoint ==
    /\ op.kind = "queue" /\ op.at = "write" /\ op.active # 0
    /\ builds' = IF builds[op.active].snapshot # accepted /\ builds[op.active].status \in Active
                 THEN [builds EXCEPT ![op.active].status = "QUEUED", ![op.active].snapshot = accepted]
                 ELSE builds
    /\ Release
    /\ UNCHANGED <<caseVars, revisions, request, draft, worker, crashes>>

\* Mutant: no unique key holds a second row of one identity back.
QueueInsertAnother ==
    /\ op.kind = "queue" /\ op.at = "write" /\ op.active = 0
    /\ Len(builds) < MaxSnapshots
    /\ builds' = Append(builds, [status |-> "QUEUED", snapshot |-> accepted,
                                payload |-> 0, export |-> "NONE"])
    /\ Release
    /\ UNCHANGED <<caseVars, revisions, request, draft, worker, crashes>>

\* ModelStore.queue_build: insert, or on the unique key requeue a FAILED row
\* and answer with whatever row there is.
QueueInsert ==
    /\ op.kind = "queue" /\ op.at = "write" /\ op.active = 0
    /\ LET same == {b \in Rows : builds[b].snapshot = accepted}
       IN IF same = {}
          THEN builds' = Append(builds, [status |-> "QUEUED", snapshot |-> accepted,
                                         payload |-> 0, export |-> "NONE"])
          ELSE builds' = [b \in Rows |-> IF b \in same /\ builds[b].status = "FAILED"
                                          THEN [builds[b] EXCEPT !.status = "QUEUED"] ELSE builds[b]]
    /\ Release
    /\ UNCHANGED <<caseVars, revisions, request, draft, worker, crashes>>

\* preview: a read without the lock; the client keeps the digest and the head.
\* It does not preview again while its sign-off is out.
Preview(a) ==
    /\ op.by # a
    /\ \E b \in Rows :
          /\ Valid(b)
          /\ draft' = [draft EXCEPT ![a] = [build |-> b, head |-> Len(revisions)]]
    /\ UNCHANGED <<caseVars, jobVars, op, request, worker, crashes>>

\* sign_off takes the lock and checks the build, then recomputes it.
SignRequest(a) ==
    /\ Unlocked /\ Valid(draft[a].build) /\ Len(revisions) < MaxRevisions
    /\ op' = [NoOp EXCEPT !.kind = "sign", !.at = "checked", !.by = a]
    /\ UNCHANGED <<caseVars, jobVars, request, draft, worker, crashes>>

\* The recomputed preview matches and the build is still the current one.
SignRecheck ==
    /\ op.kind = "sign" /\ op.at = "checked" /\ Current(draft[op.by].build)
    /\ op' = [op EXCEPT !.at = "append"]
    /\ UNCHANGED <<caseVars, jobVars, request, draft, worker, crashes>>

\* The recomputation, the second look or the head refuses.
SignRefused ==
    /\ op.kind = "sign" /\ (op.at = "append" => draft[op.by].head # Len(revisions))
    /\ Release
    /\ UNCHANGED <<caseVars, jobVars, request, draft, worker, crashes>>

\* Mutant: the head is not compared with the one the analyst saw.
SignAppendBlindly ==
    /\ op.kind = "sign" /\ op.at = "append"
    /\ revisions' = Append(revisions, [build |-> draft[op.by].build, after |-> draft[op.by].head,
                                       export |-> "QUEUED"])
    /\ Release
    /\ UNCHANGED <<caseVars, builds, request, draft, worker, crashes>>

\* sign_off_revision: append if the head is the one the analyst saw; the export
\* of a signed revision is queued with it.
SignAppend ==
    /\ op.kind = "sign" /\ op.at = "append"
    /\ draft[op.by].head = Len(revisions)
    /\ revisions' = Append(revisions, [build |-> draft[op.by].build, after |-> draft[op.by].head,
                                       export |-> "QUEUED"])
    /\ Release
    /\ UNCHANGED <<caseVars, builds, request, draft, worker, crashes>>

\* Mutant: a withdrawal does not wait for the authority lock.
WithdrawUnlocked(s) ==
    /\ s \notin withdrawn
    /\ withdrawn' = withdrawn \cup {s}
    /\ UNCHANGED <<accepted, pins, jobVars, apiVars, worker, crashes>>

Withdraw(s) ==
    /\ Unlocked /\ s \notin withdrawn
    /\ withdrawn' = withdrawn \cup {s}
    /\ UNCHANGED <<accepted, pins, jobVars, apiVars, worker, crashes>>

\* queue_export takes no lock: it checks the target, later it writes QUEUED.
ExportRequest(t) ==
    /\ request = NoTarget
    /\ ExportOf(t) # "READY" /\ Valid(BuildOf(t))
    /\ request' = t
    /\ UNCHANGED <<caseVars, jobVars, op, draft, worker, crashes>>

ExportQueued ==
    /\ request # NoTarget
    /\ SetExport(request, "QUEUED")
    /\ request' = NoTarget
    /\ UNCHANGED <<caseVars, op, draft, worker, crashes>>

\* The API process dies with the calls it is in and starts again.
ApiStops ==
    /\ crashes < MaxCrashes /\ (op # NoOp \/ request # NoTarget)
    /\ Release /\ request' = NoTarget
    /\ crashes' = crashes + 1
    /\ UNCHANGED <<caseVars, jobVars, draft, worker>>

-----------------------------------------------------------------------------
(* The worker: one pass over the queued work after another.                *)

Idle == [at |-> "idle", builds |-> {}, exports |-> {}, job |-> NoTarget,
         dispatched |-> 0, identity |-> 0]
Stopped == [Idle EXCEPT !.at = "stopped"]

Goto(pc) == worker' = [worker EXCEPT !.at = pc]

\* The pass goes on behind its present job.
NextJob == worker' = [Idle EXCEPT !.at = "pass", !.builds = worker.builds, !.exports = worker.exports]

\* The row still carries the identity n and is still active.
Owned(b, n) == builds[b].status \in Active /\ builds[b].snapshot = n

SetStatus(b, status) == builds' = [builds EXCEPT ![b].status = status]

\* Mutant: a start does not requeue what the predecessor had claimed.
WorkerStartsAfresh ==
    /\ worker.at = "stopped"
    /\ worker' = Idle
    /\ UNCHANGED <<caseVars, jobVars, apiVars, crashes>>

\* main: recover_builds, then the poll loop.
WorkerStarts ==
    /\ worker.at = "stopped"
    /\ builds' = [b \in Rows |-> IF builds[b].status = "BUILDING"
                                  THEN [builds[b] EXCEPT !.status = "QUEUED"] ELSE builds[b]]
    /\ worker' = Idle
    /\ UNCHANGED <<caseVars, revisions, apiVars, crashes>>

WorkerStops ==
    /\ worker.at # "stopped" /\ crashes < MaxCrashes
    /\ worker' = Stopped
    /\ crashes' = crashes + 1
    /\ UNCHANGED <<caseVars, jobVars, apiVars>>

\* queued_work: what a pass works off is what is queued now.
Poll ==
    /\ worker.at = "idle"
    /\ LET queued == {b \in Rows : builds[b].status = "QUEUED"}
           exports == {t \in Targets : ExportOf(t) = "QUEUED"}
       IN /\ queued # {} \/ exports # {}
          /\ worker' = [Idle EXCEPT !.at = "pass", !.builds = queued, !.exports = exports]
    /\ UNCHANGED <<caseVars, jobVars, apiVars, crashes>>

PassEnds ==
    /\ worker.at = "pass" /\ worker.builds = {} /\ worker.exports = {}
    /\ worker' = Idle
    /\ UNCHANGED <<caseVars, jobVars, apiVars, crashes>>

\* run_pending reads the identity it is about to dispatch.
Dispatch ==
    /\ worker.at = "pass"
    /\ \E b \in worker.builds :
          /\ \A c \in worker.builds : b <= c
          /\ worker' = [worker EXCEPT !.at = "claim", !.builds = @ \ {b},
                            !.job = [kind |-> "build", n |-> b], !.dispatched = builds[b].snapshot]
    /\ UNCHANGED <<caseVars, jobVars, apiVars, crashes>>

\* run_build claims the row, unless it is READY.
Claim ==
    /\ worker.at = "claim"
    /\ IF builds[worker.job.n].status \in {"QUEUED", "FAILED"}
       THEN SetStatus(worker.job.n, "BUILDING") /\ Goto("read")
       ELSE UNCHANGED builds /\ NextJob
    /\ UNCHANGED <<caseVars, revisions, apiVars, crashes>>

\* The claimed row is the authority for the calculation, which ends somehow: a
\* row left behind by a new lineage may still be computed from cached inputs.
Calculate ==
    /\ worker.at = "read"
    /\ \E outcome \in Outcomes :
          worker' = [worker EXCEPT !.at = outcome, !.identity = builds[worker.job.n].snapshot]
    /\ UNCHANGED <<caseVars, jobVars, apiVars, crashes>>

\* Mutant: the result is published whatever the row is for by now.
CompleteUnbound ==
    /\ worker.at = "result"
    /\ LET b == worker.job.n IN
       IF builds[b].status \in Active /\ Live(builds[b].snapshot)
       THEN /\ builds' = [builds EXCEPT ![b].status = "READY", ![b].payload = worker.identity]
            /\ NextJob
       ELSE UNCHANGED builds /\ Goto("withdrawn")
    /\ UNCHANGED <<caseVars, revisions, apiVars, crashes>>

\* Mutant: the liveness of the sources is not part of the publishing update.
CompleteUnconditionally ==
    /\ worker.at = "result"
    /\ LET b == worker.job.n IN
       IF Owned(b, worker.identity)
       THEN /\ builds' = [builds EXCEPT ![b].status = "READY", ![b].payload = worker.identity]
            /\ NextJob
       ELSE UNCHANGED builds /\ Goto("withdrawn")
    /\ UNCHANGED <<caseVars, revisions, apiVars, crashes>>

\* _complete publishes under the identity the result was computed from, and
\* only while every pinned source is live.
Complete ==
    /\ worker.at = "result"
    /\ LET b == worker.job.n IN
       IF Owned(b, worker.identity) /\ Live(worker.identity)
       THEN /\ builds' = [builds EXCEPT ![b].status = "READY", ![b].payload = worker.identity]
            /\ NextJob
       ELSE UNCHANGED builds /\ Goto("withdrawn")
    /\ UNCHANGED <<caseVars, revisions, apiVars, crashes>>

\* Fail the row if it is still the one meant.
FailRow(n) ==
    /\ IF Owned(worker.job.n, n) THEN SetStatus(worker.job.n, "FAILED") ELSE UNCHANGED builds
    /\ NextJob
    /\ UNCHANGED <<caseVars, revisions, apiVars, crashes>>

\* Not published: MODEL_AUTHORITY_CHANGED, unless the row was re-pointed.  The
\* inputs are invalid, or the calculation breaks: _fail.
FailBuild == worker.at \in {"withdrawn", "invalid"} /\ FailRow(worker.identity)

\* A timeout or an invalid result leaves run_build as an exception: run_pending
\* fails the identity it dispatched.
FailDispatched == worker.at = "raise" /\ FailRow(worker.dispatched)

\* run_export, behind the builds: a signed export that is READY stays as it is;
\* anything else needs a valid build, and the rendering may break.
ExportStarts ==
    /\ worker.at = "pass" /\ worker.builds = {}
    /\ \E t \in worker.exports :
          LET dropped == [worker EXCEPT !.exports = @ \ {t}, !.job = t] IN
          /\ t.kind = "revision" => \A u \in worker.exports : u.kind = "revision" /\ t.n <= u.n
          /\ t.kind = "build" => \A u \in worker.exports : u.kind = "build" => t.n <= u.n
          /\ IF t.kind = "revision" /\ ExportOf(t) = "READY"
             THEN worker' = [dropped EXCEPT !.job = NoTarget]
             ELSE \/ Valid(BuildOf(t)) /\ worker' = [dropped EXCEPT !.at = "rendered"]
                  \/ worker' = [dropped EXCEPT !.at = "broken"]
    /\ UNCHANGED <<caseVars, jobVars, apiVars, crashes>>

\* The file is in the vault; the row says so if every pinned source is live.
ExportPublishes ==
    /\ worker.at = "rendered"
    /\ IF Live(builds[BuildOf(worker.job)].snapshot)
       THEN SetExport(worker.job, "READY") /\ NextJob
       ELSE UNCHANGED jobVars /\ Goto("revoked")
    /\ UNCHANGED <<caseVars, apiVars, crashes>>

\* MODEL_EXPORT_AUTHORITY_CHANGED, written whatever the row says.
ExportRevoked ==
    /\ worker.at = "revoked"
    /\ SetExport(worker.job, "FAILED") /\ NextJob
    /\ UNCHANGED <<caseVars, apiVars, crashes>>

\* Mutant: a pass that breaks leaves its export to the next pass, forgotten.
ExportBreaksSilently ==
    /\ worker.at = "broken"
    /\ NextJob
    /\ UNCHANGED <<caseVars, jobVars, apiVars, crashes>>

\* run_pending fails an export that is still queued.
ExportBreaks ==
    /\ worker.at = "broken"
    /\ IF ExportOf(worker.job) = "QUEUED" THEN SetExport(worker.job, "FAILED") ELSE UNCHANGED jobVars
    /\ NextJob
    /\ UNCHANGED <<caseVars, apiVars, crashes>>

-----------------------------------------------------------------------------
Init ==
    /\ accepted = 0 /\ pins = [s \in 1 .. MaxSnapshots |-> {}] /\ withdrawn = {}
    /\ builds = <<>> /\ revisions = <<>>
    /\ op = NoOp /\ request = NoTarget
    /\ draft = [a \in Analysts |-> NoDraft]
    /\ worker = Idle /\ crashes = 0

Clients ==
    \/ \E S \in SUBSET Sources : Accept(S)
    \/ \E s \in Sources : Withdraw(s)
    \/ \E a \in Analysts : Preview(a) \/ SignRequest(a)
    \/ \E t \in Targets : ExportRequest(t)
    \/ QueueRequest \/ Reclassify

\* An accepted call runs to its end.
Api ==
    \/ QueueRead \/ QueueRefused \/ Repoint \/ QueueInsert
    \/ SignRecheck \/ SignRefused \/ SignAppend \/ ExportQueued

Work ==
    \/ WorkerStarts \/ Poll \/ PassEnds
    \/ Dispatch \/ Claim \/ Calculate \/ Complete \/ FailBuild \/ FailDispatched
    \/ ExportStarts \/ ExportPublishes \/ ExportRevoked \/ ExportBreaks

Next == Clients \/ Api \/ Work \/ ApiStops \/ WorkerStops

Spec == Init /\ [][Next]_vars

\* The worker keeps polling, and a supervisor starts it again.
FairSpec == Spec /\ WF_vars(Work)

-----------------------------------------------------------------------------
(* Types.                                                                  *)

BuildStatus == {"QUEUED", "BUILDING", "READY", "FAILED"}
ExportStatus == {"NONE", "QUEUED", "READY", "FAILED"}
BuildRow == [status : BuildStatus, snapshot : 1 .. MaxSnapshots,
             payload : 0 .. MaxSnapshots, export : ExportStatus]
RevisionRow == [build : Nat \ {0}, after : Nat, export : ExportStatus]
OpState == [kind : {"none", "queue", "sign"}, at : {"none", "read", "write", "checked", "append"},
            active : Nat, by : Analysts \cup {Nobody}]
WorkerAt == {"stopped", "idle", "pass", "claim", "read", "result", "invalid", "raise",
             "withdrawn", "rendered", "revoked", "broken"}

CaseTypeOK ==
    /\ accepted \in 0 .. MaxSnapshots
    /\ pins \in [1 .. MaxSnapshots -> SUBSET Sources] /\ withdrawn \subseteq Sources
JobsTypeOK ==
    /\ builds \in Seq(BuildRow) /\ revisions \in Seq(RevisionRow)
    /\ \A r \in 1 .. Len(revisions) : revisions[r].build \in Rows
ApiTypeOK ==
    /\ op \in OpState /\ op.active \in {0} \cup Rows
    /\ request \in Targets \cup {NoTarget}
    /\ draft \in [Analysts -> [build : {0} \cup Rows, head : Nat]]
WorkerTypeOK ==
    worker \in [at : WorkerAt, builds : SUBSET Rows, exports : SUBSET Targets,
                job : Targets \cup {NoTarget},
                dispatched : 0 .. MaxSnapshots, identity : 0 .. MaxSnapshots]

\* Every variable ranges over what the code can store in it, and every row that
\* an operation or a pass refers to exists.
TypeOK == CaseTypeOK /\ JobsTypeOK /\ ApiTypeOK /\ WorkerTypeOK /\ crashes \in 0 .. MaxCrashes

-----------------------------------------------------------------------------
(* Safety.                                                                 *)

\* At most one job of a case is queued or building (service.py, queue_build),
\* though the API reads the standing job and writes in separate transactions
\* and the worker claims, completes and requeues in between.
OneActiveJob == \A b, c \in Rows : builds[b].status \in Active /\ builds[c].status \in Active => b = c

\* A READY row carries the result of the very snapshot it is for, however often
\* it was re-pointed while some result was being computed.
PublishedForIdentity == \A b \in Rows : builds[b].status = "READY" => builds[b].payload = builds[b].snapshot

\* Creation order is authority order: a re-pointed old row never comes to stand
\* for a newer snapshot than a younger row, so the latest READY row is the
\* newest model, and no two rows have one identity.
RowsFollowAuthority == \A b, c \in Rows : b < c => builds[b].snapshot < builds[c].snapshot

\* What is published is final: no re-point, requeue or late failure touches a
\* READY row, except for its export.
ReadyIsFinal ==
    [][\A b \in Rows : builds[b].status = "READY" =>
          builds'[b] = [builds[b] EXCEPT !.export = builds'[b].export]]_vars

\* DECISIONS 14.15: nothing becomes READY, model or export, at an instant when
\* a source it rests on is withdrawn, in whichever process the withdrawal ran.
PublishedOnLiveEvidence ==
    [][/\ \A b \in Rows : builds[b].status # "READY" /\ builds'[b].status = "READY" =>
             Live(builds[b].snapshot)
       /\ \A t \in Targets : ExportOf(t) # "READY" /\ ExportOf(t)' = "READY" =>
             Live(builds[BuildOf(t)].snapshot)]_vars

\* A revision is appended only on the model that speaks for the case at that
\* instant: the latest READY build, of the accepted snapshot, with live sources.
SignedOnAuthority ==
    [][Len(revisions') > Len(revisions) => Valid(revisions'[Len(revisions')].build)]_vars

\* No lost update: whoever signs a revision has seen the one before it.
RevisionsExtendHead == \A r \in 1 .. Len(revisions) : revisions[r].after = r - 1

\* The builds and revisions of a case are one history: one job at a time, each
\* result under its own identity, rows in the order of acceptance, revisions
\* each on the head it was signed against.
JobsSound == TypeOK /\ OneActiveJob /\ PublishedForIdentity /\ RowsFollowAuthority /\ RevisionsExtendHead

-----------------------------------------------------------------------------
(* Liveness.                                                               *)

Unsettled(b) == b \in Rows /\ builds[b].status \in Active

\* Every queued build comes to READY or FAILED, however often it is re-pointed
\* or the worker dies (SIM-008: no row stuck BUILDING with no executor).
BuildsSettle == \A b \in 1 .. MaxSnapshots : Unsettled(b) ~> ~Unsettled(b)

ExportDue(t) == t \in Targets /\ ExportOf(t) = "QUEUED"

\* Every queued export comes to READY or FAILED.
ExportsSettle ==
    \A t \in [kind : {"build"}, n : 1 .. MaxSnapshots] \cup [kind : {"revision"}, n : 1 .. MaxRevisions] :
        ExportDue(t) ~> ~ExportDue(t)

\* Whatever the queue accepted comes to an end, however it is re-pointed.
JobsSettle == BuildsSettle /\ ExportsSettle

=============================================================================
