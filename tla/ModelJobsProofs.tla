---------------------------- MODULE ModelJobsProofs ----------------------------
(***************************************************************************)
(* Safety of a case's model jobs, for any sources and analysts, any number *)
(* of snapshots, revisions and crashes.                                    *)
(***************************************************************************)
EXTENDS ModelJobs, SequenceTheorems, TLAPS

-----------------------------------------------------------------------------
(* The invariant.                                                          *)

AtBuild == {"claim", "read", "result", "invalid", "raise", "withdrawn"}
AtExport == {"rendered", "revoked", "broken"}

Standing == {b \in Rows : builds[b].status \in Active}

\* A pass that has a job in hand has it in hand as a build or as an export.
HasJob ==
    /\ worker.at \in AtBuild => worker.job \in Targets /\ worker.job.kind = "build"
    /\ worker.at \in AtExport => worker.job \in Targets

\* What a pass has polled and not dispatched, and what it is about to claim, is
\* still queued: nobody else takes a row out of QUEUED.
Polled ==
    /\ \A b \in worker.builds : builds[b].status = "QUEUED"
    /\ worker.at = "claim" => builds[worker.job.n].status = "QUEUED"
    /\ worker.at \in AtBuild => worker.job.n \notin worker.builds

\* Rows stand in the order of acceptance, none for a snapshot that is not yet
\* accepted, and only the last one can be active.
Ordered == RowsFollowAuthority /\ \A b \in Rows : builds[b].snapshot <= accepted
LastActive == \A b \in Standing : b = Len(builds)

\* A queue call that found no standing job: there is none until it writes.
QueueLocked ==
    op.kind = "queue" =>
        /\ accepted # 0 /\ op.at \in {"read", "write"}
        /\ op.at = "write" /\ op.active = 0 => Standing = {}

\* The model that a sign-off found to stand stands until it is signed.
SignLocked == op.kind = "sign" => op.by \in Analysts /\ Valid(draft[op.by].build)

Inv ==
    /\ TypeOK /\ HasJob /\ Polled /\ Ordered /\ LastActive
    /\ QueueLocked /\ SignLocked /\ PublishedForIdentity

-----------------------------------------------------------------------------
(* What a step does to the build rows, their exports aside.                *)

Same(c) ==
    /\ builds'[c].status = builds[c].status /\ builds'[c].snapshot = builds[c].snapshot
    /\ builds'[c].payload = builds[c].payload
\* Row b takes a status, everything else stays.
Takes(b, status) ==
    /\ Len(builds') = Len(builds) /\ \A c \in Rows \ {b} : Same(c)
    /\ builds'[b].status = status

Kept == Len(builds') = Len(builds) /\ \A c \in Rows : Same(c)
Inserted ==
    /\ op.kind = "queue" /\ op.at = "write" /\ op.active = 0 /\ Release
    /\ \A c \in Rows : builds[c].snapshot # accepted
    /\ Len(builds') = Len(builds) + 1 /\ \A c \in Rows : Same(c)
    /\ builds'[Len(builds) + 1].status = "QUEUED" /\ builds'[Len(builds) + 1].snapshot = accepted
Requeued ==
    /\ op.kind = "queue" /\ op.at = "write" /\ op.active = 0 /\ Release
    /\ \E b \in Rows :
          /\ builds[b].snapshot = accepted /\ builds[b].status = "FAILED"
          /\ Takes(b, "QUEUED") /\ builds'[b].snapshot = accepted
Repointed ==
    \E b \in Standing : Takes(b, "QUEUED") /\ builds'[b].snapshot = accepted
\* The worker takes over, claims, publishes and fails under the identity the row has.
Worked ==
    /\ worker'.at # "claim"
    /\ \E b \in Standing \ worker.builds, status \in BuildStatus :
          /\ Takes(b, status) /\ builds'[b].snapshot = builds[b].snapshot
          /\ status = "READY" => builds'[b].payload = builds[b].snapshot /\ Live(builds[b].snapshot)

RowStep == Kept \/ Inserted \/ Requeued \/ Repointed \/ Worked

\* A row that is replaced by a row is replaced, and the others stay.
LEMMA RowSet ==
    ASSUME builds \in Seq(BuildRow), NEW b \in Rows, NEW r \in BuildRow,
           builds' = [builds EXCEPT ![b] = r]
    PROVE  /\ builds' \in Seq(BuildRow) /\ Len(builds') = Len(builds)
           /\ builds'[b] = r /\ \A c \in Rows \ {b} : builds'[c] = builds[c]
BY ExceptSeq DEF Rows

\* A row is a row.
LEMMA RowIsRow ==
    ASSUME builds \in Seq(BuildRow), NEW b \in Rows
    PROVE  builds[b] \in BuildRow
BY ElementOfSeq DEF Rows

\* A status that is set is set, and nothing else is.
LEMMA StatusSet ==
    ASSUME builds \in Seq(BuildRow), NEW b \in Rows, NEW status \in BuildStatus, SetStatus(b, status)
    PROVE  /\ builds' \in Seq(BuildRow) /\ Takes(b, status)
           /\ builds'[b].snapshot = builds[b].snapshot /\ builds'[b].payload = builds[b].payload
           /\ \A c \in Rows : builds'[c].export = builds[c].export
<1> DEFINE r == [builds[b] EXCEPT !.status = status]
<1>1. r \in BuildRow /\ r.status = status /\ r.snapshot = builds[b].snapshot /\ r.payload = builds[b].payload
      /\ r.export = builds[b].export
  BY RowIsRow DEF BuildRow
<1>2. builds' = [builds EXCEPT ![b] = r]
  BY DEF SetStatus
<1> HIDE DEF r
<1> QED BY <1>1, <1>2, RowSet DEF Takes, Same

\* No export changes.
ExportsStay == \A t \in Targets : ExportOf(t)' = ExportOf(t)

\* Exports stay when those of the rows do and no revision changes.
LEMMA RowExportsStay ==
    ASSUME UNCHANGED revisions, \A c \in Rows : builds'[c].export = builds[c].export
    PROVE  ExportsStay
BY DEF ExportsStay, ExportOf, Targets

\* What has been signed stays signed.
RevisionsStay ==
    /\ Len(revisions') >= Len(revisions)
    /\ \A r \in 1 .. Len(revisions) :
          revisions'[r].build = revisions[r].build /\ revisions'[r].after = revisions[r].after

\* An export that is set is set, and nothing else is.
LEMMA ExportSet ==
    ASSUME JobsTypeOK, NEW t \in Targets, NEW status \in ExportStatus, SetExport(t, status)
    PROVE  /\ JobsTypeOK' /\ Kept /\ RevisionsStay /\ Targets' = Targets
           /\ Len(revisions') = Len(revisions) /\ ExportOf(t)' = status
           /\ \A u \in Targets : u # t => ExportOf(u)' = ExportOf(u)
<1>1. CASE t.kind = "build"
  <2> DEFINE r == [builds[t.n] EXCEPT !.export = status]
  <2>1. t.n \in Rows /\ builds' = [builds EXCEPT ![t.n] = r] /\ UNCHANGED revisions
    BY <1>1 DEF SetExport, Targets
  <2>2. r \in BuildRow /\ r.status = builds[t.n].status /\ r.snapshot = builds[t.n].snapshot
        /\ r.payload = builds[t.n].payload /\ r.export = status
    BY <2>1, RowIsRow DEF BuildRow, JobsTypeOK
  <2> HIDE DEF r
  <2>3. /\ builds' \in Seq(BuildRow) /\ Len(builds') = Len(builds)
        /\ builds'[t.n] = r /\ \A c \in Rows \ {t.n} : builds'[c] = builds[c]
    BY <2>1, <2>2, RowSet DEF JobsTypeOK
  <2>4. JobsTypeOK' /\ Targets' = Targets
    BY <2>1, <2>3 DEF JobsTypeOK, Targets, Rows
  <2>5. Kept
    BY <2>1, <2>2, <2>3 DEF Kept, Same
  <2>6. ASSUME NEW u \in Targets, u # t
        PROVE  ExportOf(u)' = ExportOf(u)
    BY <1>1, <2>1, <2>3, <2>6 DEF ExportOf, Targets
  <2>7. ExportOf(t)' = status
    BY <1>1, <2>2, <2>3 DEF ExportOf
  <2> QED BY <2>1, <2>4, <2>5, <2>6, <2>7 DEF RevisionsStay, JobsTypeOK
<1>2. CASE t.kind # "build"
  <2> DEFINE r == [revisions[t.n] EXCEPT !.export = status]
  <2>1. t.n \in 1 .. Len(revisions) /\ revisions' = [revisions EXCEPT ![t.n] = r] /\ UNCHANGED builds
    BY <1>2 DEF SetExport, Targets
  <2>2. revisions[t.n] \in RevisionRow
    BY <2>1, ElementOfSeq DEF JobsTypeOK
  <2>3. r \in RevisionRow /\ r.build = revisions[t.n].build /\ r.after = revisions[t.n].after /\ r.export = status
    BY <2>2 DEF RevisionRow
  <2> HIDE DEF r
  <2>4. /\ revisions' \in Seq(RevisionRow) /\ Len(revisions') = Len(revisions)
        /\ revisions'[t.n] = r /\ \A c \in (1 .. Len(revisions)) \ {t.n} : revisions'[c] = revisions[c]
    BY <2>1, <2>3, ExceptSeq DEF JobsTypeOK
  <2>5. JobsTypeOK' /\ Targets' = Targets
    BY <2>1, <2>3, <2>4 DEF JobsTypeOK, Targets, Rows
  <2>6. ASSUME NEW u \in Targets, u # t
        PROVE  ExportOf(u)' = ExportOf(u)
    BY <1>2, <2>1, <2>4, <2>6 DEF ExportOf, Targets
  <2>7. Len(revisions) \in Nat
    BY LenProperties DEF JobsTypeOK
  <2>8. ExportOf(t)' = status
    BY <1>2, <2>3, <2>4 DEF ExportOf
  <2> QED BY <2>1, <2>3, <2>4, <2>5, <2>6, <2>7, <2>8 DEF RevisionsStay, Kept, Same
<1> QED BY <1>1, <1>2

\* The steps that touch neither table.
Untouched == UNCHANGED jobVars

\* They keep every row.
LEMMA UntouchedKeeps ==
    ASSUME JobsTypeOK, Untouched
    PROVE  JobsTypeOK' /\ RowStep /\ RevisionsStay /\ ExportsStay
<1>1. Len(revisions) \in Nat
  BY LenProperties DEF JobsTypeOK
<1>2. ExportsStay
  BY RowExportsStay DEF Untouched, jobVars
<1> QED BY <1>1, <1>2 DEF Untouched, jobVars, JobsTypeOK, Rows, RowStep, Kept, Same, RevisionsStay

\* A status set on a standing row is the work of the worker.
LEMMA StatusSetWorks ==
    ASSUME JobsTypeOK, NEW b \in Standing \ worker.builds, NEW status \in BuildStatus \ {"READY"},
           SetStatus(b, status), UNCHANGED revisions, worker'.at # "claim"
    PROVE  JobsTypeOK' /\ RowStep /\ RevisionsStay /\ ExportsStay
<1>1. b \in Rows /\ Len(revisions) \in Nat
  BY LenProperties DEF Standing, JobsTypeOK
<1>2. /\ builds' \in Seq(BuildRow) /\ Takes(b, status)
      /\ builds'[b].snapshot = builds[b].snapshot /\ ExportsStay
  BY <1>1, StatusSet, RowExportsStay DEF JobsTypeOK
<1>3. Len(builds') = Len(builds)
  BY <1>2 DEF Takes
<1>4. JobsTypeOK'
  BY <1>2, <1>3 DEF JobsTypeOK, Rows
<1>5. Worked
  BY <1>2 DEF Worked
<1> QED BY <1>1, <1>2, <1>4, <1>5 DEF RowStep, RevisionsStay

\* A queue call re-points the standing job, inserts a row or requeues one.
LEMMA QueueSteps ==
    ASSUME Inv, Repoint \/ QueueInsert
    PROVE  JobsTypeOK' /\ RowStep /\ RevisionsStay /\ ExportsStay
<1>1. builds \in Seq(BuildRow) /\ Len(builds) \in Nat /\ JobsTypeOK /\ UNCHANGED revisions
  BY LenProperties DEF Inv, TypeOK, JobsTypeOK, Repoint, QueueInsert
<1>2. accepted \in 1 .. MaxSnapshots
  BY BoundsAssumption DEF Inv, TypeOK, CaseTypeOK, QueueLocked, Repoint, QueueInsert
<1>3. RevisionsStay
  BY <1>1, LenProperties DEF JobsTypeOK, RevisionsStay
<1>4. CASE Repoint
  <2> DEFINE b == op.active
             r == [builds[b] EXCEPT !.status = "QUEUED", !.snapshot = accepted]
  <2>1. b \in Rows
    BY <1>4 DEF Repoint, Inv, TypeOK, ApiTypeOK
  <2>2. CASE builds[b].snapshot # accepted /\ builds[b].status \in Active
    <3>1. builds' = [builds EXCEPT ![b] = r]
      BY <1>4, <1>1, <2>1, <2>2 DEF Repoint
    <3>2. r \in BuildRow /\ r.status = "QUEUED" /\ r.snapshot = accepted /\ r.export = builds[b].export
      BY <1>1, <1>2, <2>1, RowIsRow DEF BuildRow, BuildStatus
    <3> HIDE DEF r
    <3>3. /\ builds' \in Seq(BuildRow) /\ Len(builds') = Len(builds)
          /\ builds'[b] = r /\ \A c \in Rows \ {b} : builds'[c] = builds[c]
      BY <1>1, <2>1, <3>1, <3>2, RowSet
    <3>4. JobsTypeOK'
      BY <1>1, <3>3 DEF JobsTypeOK, Rows
    <3>5. Repointed
      BY <2>1, <2>2, <3>2, <3>3 DEF Repointed, Takes, Same, Standing
    <3>6. ExportsStay
      BY <1>1, <3>2, <3>3, RowExportsStay
    <3> QED BY <1>3, <3>4, <3>5, <3>6 DEF RowStep
  <2>3. CASE ~(builds[b].snapshot # accepted /\ builds[b].status \in Active)
    <3>1. Untouched
      BY <1>1, <1>4, <2>3 DEF Repoint, Untouched, jobVars
    <3> QED BY <1>1, <3>1, UntouchedKeeps
  <2> QED BY <2>2, <2>3
<1>5. CASE QueueInsert
  <2> DEFINE same == {b \in Rows : builds[b].snapshot = accepted}
             r == [status |-> "QUEUED", snapshot |-> accepted, payload |-> 0, export |-> "NONE"]
  <2>1. op.kind = "queue" /\ op.at = "write" /\ op.active = 0 /\ Release
    BY <1>5 DEF QueueInsert
  <2>2. CASE same = {}
    <3>1. builds' = Append(builds, r)
      BY <1>5, <2>2 DEF QueueInsert
    <3>2. r \in BuildRow
      BY <1>2, BoundsAssumption DEF BuildRow, BuildStatus, ExportStatus
    <3>3. /\ builds' \in Seq(BuildRow) /\ Len(builds') = Len(builds) + 1
          /\ builds'[Len(builds) + 1] = r /\ \A c \in Rows : builds'[c] = builds[c]
      BY <1>1, <3>1, <3>2, AppendProperties DEF Rows
    <3>4. JobsTypeOK'
      BY <1>1, <3>3 DEF JobsTypeOK, Rows
    <3>5. Inserted
      BY <2>1, <2>2, <3>3 DEF Inserted, Same
    <3>6. ExportsStay
      BY <1>1, <3>3, RowExportsStay
    <3> QED BY <1>3, <3>4, <3>5, <3>6 DEF RowStep
  <2>3. CASE same # {}
    <3>1. builds' = [b \in Rows |-> IF b \in same /\ builds[b].status = "FAILED"
                                   THEN [builds[b] EXCEPT !.status = "QUEUED"] ELSE builds[b]]
      BY <1>5, <2>3 DEF QueueInsert
    <3>2. CASE \E b \in same : builds[b].status = "FAILED"
      <4>1. PICK b \in same : builds[b].status = "FAILED"
        BY <3>2
      <4>2. \A c \in same : c = b
        BY <1>1 DEF Inv, Ordered, RowsFollowAuthority, Rows, TypeOK, CaseTypeOK
      <4>3. SetStatus(b, "QUEUED")
        BY <1>1, <3>1, <4>1, <4>2, LenProperties DEF SetStatus, Rows
      <4>4. /\ builds' \in Seq(BuildRow) /\ Takes(b, "QUEUED") /\ builds'[b].snapshot = accepted
            /\ ExportsStay
        BY <1>1, <4>1, <4>3, StatusSet, RowExportsStay DEF BuildStatus
      <4>5. Requeued
        BY <2>1, <4>1, <4>4 DEF Requeued
      <4>6. JobsTypeOK'
        BY <1>1, <4>4 DEF JobsTypeOK, Rows, Takes
      <4> QED BY <1>3, <4>4, <4>5, <4>6 DEF RowStep
    <3>3. CASE ~\E b \in same : builds[b].status = "FAILED"
      <4>1. builds' = [b \in Rows |-> builds[b]]
        BY <3>1, <3>3
      <4>2. builds' = builds
        BY <1>1, <4>1, LenProperties DEF Rows
      <4> QED BY <1>1, <4>2, UntouchedKeeps DEF Untouched, jobVars
    <3> QED BY <3>2, <3>3
  <2> QED BY <2>2, <2>3
<1> QED BY <1>4, <1>5

\* The worker's writes to the build rows.
LEMMA WorkerSteps ==
    ASSUME Inv, WorkerStarts \/ Claim \/ Complete \/ FailBuild \/ FailDispatched
    PROVE  JobsTypeOK' /\ RowStep /\ RevisionsStay /\ ExportsStay
<1>1. /\ JobsTypeOK /\ builds \in Seq(BuildRow) /\ Len(builds) \in Nat /\ Len(revisions) \in Nat
      /\ UNCHANGED revisions
  BY LenProperties DEF Inv, TypeOK, JobsTypeOK, WorkerStarts, Claim, Complete, FailBuild, FailDispatched, FailRow
<1>2. worker.at \in AtBuild => worker.job.n \in Rows \ worker.builds
  BY DEF Inv, HasJob, Targets, Polled
<1>3. CASE WorkerStarts
  <2>1. builds' = [b \in Rows |-> IF builds[b].status = "BUILDING"
                                  THEN [builds[b] EXCEPT !.status = "QUEUED"] ELSE builds[b]]
    BY <1>3 DEF WorkerStarts
  <2>2. CASE \E b \in Rows : builds[b].status = "BUILDING"
    <3>1. PICK b \in Rows : builds[b].status = "BUILDING"
      BY <2>2
    <3>2. b \in Standing \ worker.builds /\ \A c \in Rows : builds[c].status = "BUILDING" => c = b
      BY <3>1 DEF Inv, Polled, LastActive, Standing, Active
    <3>3. SetStatus(b, "QUEUED")
      BY <1>1, <2>1, <3>1, <3>2, LenProperties DEF SetStatus, Rows
    <3> QED BY <1>1, <1>3, <3>2, <3>3, StatusSetWorks DEF BuildStatus, WorkerStarts, Idle
  <2>3. CASE ~\E b \in Rows : builds[b].status = "BUILDING"
    <3>1. builds' = [b \in Rows |-> builds[b]]
      BY <2>1, <2>3
    <3>2. builds' = builds
      BY <1>1, <3>1, LenProperties DEF Rows
    <3> QED BY <1>1, <3>2, UntouchedKeeps DEF Untouched, jobVars
  <2> QED BY <2>2, <2>3
<1>4. CASE Claim
  <2>1. worker.job.n \in Standing \ worker.builds
    BY <1>2, <1>4 DEF Claim, AtBuild, Standing, Active, Inv, Polled
  <2>2. builds[worker.job.n].status \in {"QUEUED", "FAILED"}
    BY <1>4 DEF Claim, Inv, Polled
  <2>3. SetStatus(worker.job.n, "BUILDING") /\ worker'.at # "claim"
    BY <1>4, <2>2 DEF Claim, Goto, Inv, TypeOK, WorkerTypeOK
  <2> QED BY <1>1, <2>1, <2>3, StatusSetWorks DEF BuildStatus
<1>5. CASE Complete
  <2> DEFINE b == worker.job.n
             r == [builds[b] EXCEPT !.status = "READY", !.payload = worker.identity]
  <2>1. b \in Rows
    BY <1>2, <1>5 DEF Complete, AtBuild
  <2>2. CASE Owned(b, worker.identity) /\ Live(worker.identity)
    <3>1. builds' = [builds EXCEPT ![b] = r]
      BY <1>1, <1>5, <2>1, <2>2 DEF Complete
    <3>2. /\ r \in BuildRow /\ r.status = "READY" /\ r.payload = worker.identity
          /\ r.snapshot = builds[b].snapshot /\ r.export = builds[b].export
      BY <1>1, <2>1, RowIsRow DEF BuildRow, BuildStatus, Inv, TypeOK, WorkerTypeOK
    <3>3. b \in Standing \ worker.builds /\ builds[b].snapshot = worker.identity /\ worker'.at # "claim"
      BY <1>2, <1>5, <2>1, <2>2 DEF Owned, Standing, Complete, AtBuild, NextJob, Idle
    <3> HIDE DEF r
    <3>4. /\ builds' \in Seq(BuildRow) /\ Len(builds') = Len(builds)
          /\ builds'[b] = r /\ \A c \in Rows \ {b} : builds'[c] = builds[c]
      BY <1>1, <2>1, <3>1, <3>2, RowSet
    <3>5. JobsTypeOK'
      BY <1>1, <3>4 DEF JobsTypeOK, Rows
    <3>6. Worked
      BY <2>2, <3>2, <3>3, <3>4 DEF Worked, Takes, Same, BuildStatus
    <3>7. ExportsStay
      BY <1>1, <3>2, <3>4, RowExportsStay
    <3> QED BY <1>1, <3>5, <3>6, <3>7 DEF RowStep, RevisionsStay
  <2>3. CASE ~(Owned(b, worker.identity) /\ Live(worker.identity))
    BY <1>1, <1>5, <2>3, UntouchedKeeps DEF Complete, Untouched, jobVars
  <2> QED BY <2>2, <2>3
<1>6. ASSUME NEW n, FailRow(n), worker.at \in AtBuild
      PROVE  JobsTypeOK' /\ RowStep /\ RevisionsStay /\ ExportsStay
  <2>1. CASE Owned(worker.job.n, n)
    <3>1. /\ worker.job.n \in Standing \ worker.builds /\ SetStatus(worker.job.n, "FAILED")
          /\ worker'.at # "claim"
      BY <1>2, <1>6, <2>1 DEF FailRow, Owned, Standing, NextJob, Idle
    <3> QED BY <1>1, <3>1, StatusSetWorks DEF BuildStatus
  <2>2. CASE ~Owned(worker.job.n, n)
    BY <1>1, <1>6, <2>2, UntouchedKeeps DEF FailRow, Untouched, jobVars
  <2> QED BY <2>1, <2>2
<1>7. CASE FailBuild
  BY <1>6, <1>7 DEF FailBuild, AtBuild
<1>8. CASE FailDispatched
  BY <1>6, <1>8 DEF FailDispatched, AtBuild
<1> QED BY <1>3, <1>4, <1>5, <1>7, <1>8

\* The writes to exports.
LEMMA ExportSteps ==
    ASSUME Inv, ExportQueued \/ ExportPublishes \/ ExportRevoked \/ ExportBreaks
    PROVE  JobsTypeOK' /\ RowStep /\ RevisionsStay
<1>1. JobsTypeOK
  BY DEF Inv, TypeOK
<1>2. CASE UNCHANGED jobVars
  BY <1>1, <1>2, UntouchedKeeps DEF Untouched
<1>3. CASE ~UNCHANGED jobVars
  <2>1. \E t \in Targets, status \in ExportStatus : SetExport(t, status)
    BY <1>3 DEF Inv, TypeOK, ApiTypeOK, HasJob, AtExport, ExportStatus,
                ExportQueued, ExportPublishes, ExportRevoked, ExportBreaks
  <2> QED BY <1>1, <2>1, ExportSet DEF RowStep
<1> QED BY <1>2, <1>3

\* A signature appends a revision.
LEMMA SignSteps ==
    ASSUME Inv, SignAppend
    PROVE  /\ JobsTypeOK' /\ RowStep /\ RevisionsStay /\ ExportsStay
           /\ Len(revisions') = Len(revisions) + 1
           /\ revisions'[Len(revisions')].build = draft[op.by].build
           /\ revisions'[Len(revisions')].after = draft[op.by].head
<1> DEFINE r == [build |-> draft[op.by].build, after |-> draft[op.by].head, export |-> "QUEUED"]
<1>1. JobsTypeOK /\ revisions' = Append(revisions, r) /\ UNCHANGED builds
  BY DEF SignAppend, Inv, TypeOK
<1>2. op.by \in Analysts /\ draft[op.by].build \in Rows
  BY DEF SignAppend, Inv, SignLocked, Valid
<1>3. r \in RevisionRow
  BY <1>2 DEF RevisionRow, ExportStatus, Rows, Inv, TypeOK, ApiTypeOK
<1>4. /\ revisions' \in Seq(RevisionRow) /\ Len(revisions') = Len(revisions) + 1 /\ Len(revisions) \in Nat
      /\ revisions'[Len(revisions) + 1] = r
      /\ \A c \in 1 .. Len(revisions) : revisions'[c] = revisions[c]
  BY <1>1, <1>3, AppendProperties, LenProperties DEF JobsTypeOK
<1>5. JobsTypeOK'
  BY <1>1, <1>2, <1>4 DEF JobsTypeOK, Rows
<1>6. ExportsStay
  BY <1>1, <1>4 DEF ExportsStay, ExportOf, Targets
<1> QED BY <1>1, <1>4, <1>5, <1>6 DEF RowStep, Kept, Same, RevisionsStay

\* The steps that write neither table.
Quiet ==
    \/ UNCHANGED vars
    \/ \E S \in SUBSET Sources : Accept(S)
    \/ \E s \in Sources : Withdraw(s)
    \/ \E a \in Analysts : Preview(a) \/ SignRequest(a)
    \/ \E t \in Targets : ExportRequest(t)
    \/ Reclassify \/ QueueRequest \/ QueueRead \/ QueueRefused \/ SignRecheck \/ SignRefused
    \/ Poll \/ PassEnds \/ Dispatch \/ Calculate \/ ExportStarts \/ ApiStops \/ WorkerStops

LEMMA QuietIsUntouched == ASSUME Quiet PROVE Untouched
BY DEF Quiet, Untouched, vars, jobVars, Accept, Reclassify, Withdraw, Preview, SignRequest, ExportRequest, QueueRequest,
       QueueRead, QueueRefused, SignRecheck, SignRefused, Poll, PassEnds, Dispatch, Calculate,
       ExportStarts, ApiStops, WorkerStops

\* Every step keeps the tables typed, does one of five things to the build rows,
\* and leaves what is signed as it is.
LEMMA JobSteps ==
    ASSUME Inv, [Next]_vars
    PROVE  JobsTypeOK' /\ RowStep /\ RevisionsStay
<1>1. \/ Quiet \/ Repoint \/ QueueInsert \/ SignAppend
      \/ ExportQueued \/ ExportPublishes \/ ExportRevoked \/ ExportBreaks
      \/ WorkerStarts \/ Claim \/ Complete \/ FailBuild \/ FailDispatched
  BY DEF Next, Clients, Api, Work, Quiet
<1>2. CASE Quiet
  BY <1>2, QuietIsUntouched, UntouchedKeeps DEF Inv, TypeOK
<1> QED BY <1>1, <1>2, QueueSteps, WorkerSteps, ExportSteps, SignSteps

\* Rows, revisions and so targets are never lost.
LEMMA Growth ==
    ASSUME Inv, [Next]_vars
    PROVE  Rows \subseteq Rows' /\ Targets \subseteq Targets'
<1>1. /\ Len(builds) \in Nat /\ Len(builds') \in Nat /\ Len(builds') >= Len(builds)
      /\ Len(revisions) \in Nat /\ Len(revisions') \in Nat /\ Len(revisions') >= Len(revisions)
  BY JobSteps, LenProperties
     DEF JobsTypeOK, Inv, TypeOK, RowStep, Kept, Inserted, Requeued, Repointed, Worked, Takes, RevisionsStay
<1>2. Rows \subseteq Rows' /\ 1 .. Len(revisions) \subseteq 1 .. Len(revisions')
  BY <1>1 DEF Rows
<1> QED BY <1>2 DEF Targets

\* Acceptance, intake and withdrawal alone change the case; snapshots stay as
\* accepted.
LEMMA CaseSteps ==
    ASSUME Inv, [Next]_vars
    PROVE  /\ CaseTypeOK' /\ accepted' >= accepted
           /\ op.kind # "none" => UNCHANGED caseVars
<1>1. CASE UNCHANGED caseVars
  BY <1>1 DEF Inv, TypeOK, CaseTypeOK, caseVars
<1>2. ASSUME NEW S \in SUBSET Sources, Accept(S)
      PROVE  CaseTypeOK' /\ accepted' >= accepted /\ op.kind = "none"
  BY <1>2, BoundsAssumption DEF Accept, Unlocked, Inv, TypeOK, CaseTypeOK
<1>3. ASSUME NEW s \in Sources, Withdraw(s)
      PROVE  CaseTypeOK' /\ accepted' >= accepted /\ op.kind = "none"
  BY <1>3 DEF Withdraw, Unlocked, Inv, TypeOK, CaseTypeOK
<1>4. ASSUME Reclassify
      PROVE  CaseTypeOK' /\ accepted' >= accepted /\ op.kind = "none"
  BY <1>4, BoundsAssumption DEF Reclassify, Unlocked, Inv, TypeOK, CaseTypeOK
<1>5. \/ UNCHANGED caseVars \/ Reclassify
      \/ \E S \in SUBSET Sources : Accept(S)
      \/ \E s \in Sources : Withdraw(s)
  BY DEF Next, Clients, Api, Work, vars, caseVars, Preview, SignRequest, ExportRequest, QueueRequest,
         QueueRead, QueueRefused, Repoint, QueueInsert, SignRecheck, SignRefused, SignAppend,
         ExportQueued, WorkerStarts, Poll, PassEnds, Dispatch, Claim, Calculate, Complete,
         FailBuild, FailDispatched, FailRow, ExportStarts, ExportPublishes, ExportRevoked,
         ExportBreaks, ApiStops, WorkerStops
<1> QED BY <1>1, <1>2, <1>3, <1>4, <1>5

\* What a step does to the rows keeps them in the order of acceptance, the last
\* one alone active, and every READY row on its own result.
LEMMA RowsHold ==
    ASSUME Inv, [Next]_vars
    PROVE  Ordered' /\ LastActive' /\ PublishedForIdentity'
<1>1. /\ RowStep /\ accepted' >= accepted /\ accepted \in Nat /\ accepted' \in Nat
      /\ Len(builds) \in Nat
  BY JobSteps, CaseSteps, LenProperties, BoundsAssumption DEF Inv, TypeOK, JobsTypeOK, CaseTypeOK
<1>2. \A b \in Rows : builds[b].snapshot \in Nat /\ builds[b].snapshot <= accepted
  BY RowIsRow DEF Inv, TypeOK, JobsTypeOK, BuildRow, Ordered
<1>3. /\ \A b, c \in Rows : b < c => builds[b].snapshot < builds[c].snapshot
      /\ \A b \in Rows : builds[b].status \in Active => b = Len(builds)
      /\ \A b \in Rows : builds[b].status = "READY" => builds[b].payload = builds[b].snapshot
  BY DEF Inv, Ordered, RowsFollowAuthority, LastActive, Standing, PublishedForIdentity
<1>4. CASE Kept
  BY <1>1, <1>2, <1>3, <1>4
     DEF Kept, Same, Rows, Ordered, RowsFollowAuthority, LastActive, Standing, PublishedForIdentity
<1>5. CASE Inserted
  <2>1. \A b \in Rows : builds[b].snapshot < accepted /\ builds[b].status \notin Active
    BY <1>1, <1>2, <1>5 DEF Inserted, Inv, QueueLocked, Standing
  <2> DEFINE n == Len(builds) + 1
  <2>2. Rows' = Rows \cup {n} /\ Len(builds') = n
    BY <1>1, <1>5 DEF Inserted, Rows
  <2>3. /\ n \notin Rows /\ \A c \in Rows : c < n /\ Same(c)
        /\ builds'[n].status = "QUEUED" /\ builds'[n].snapshot = accepted
    BY <1>1, <1>5 DEF Inserted, Rows
  <2>4. Ordered'
    <3>1. \A b \in Rows : /\ builds'[b].snapshot = builds[b].snapshot
                          /\ builds'[b].snapshot < builds'[n].snapshot /\ builds'[b].snapshot <= accepted'
      BY <1>1, <1>2, <2>1, <2>3 DEF Same
    <3>2. \A b \in Rows : ~(n < b)
      BY <1>1 DEF Rows
    <3>3. ~(n < n) /\ builds'[n].snapshot <= accepted'
      BY <1>1, <2>3
    <3> HIDE DEF n
    <3> QED BY <1>3, <2>2, <3>1, <3>2, <3>3 DEF Ordered, RowsFollowAuthority
  <2>5. LastActive'
    BY <2>1, <2>2, <2>3 DEF Same, LastActive, Standing
  <2>6. PublishedForIdentity'
    BY <1>3, <2>2, <2>3 DEF Same, PublishedForIdentity
  <2> QED BY <2>4, <2>5, <2>6
<1>6. CASE Requeued
  <2>1. PICK b \in Rows : /\ builds[b].snapshot = accepted /\ Takes(b, "QUEUED")
                          /\ builds'[b].snapshot = accepted
    BY <1>6 DEF Requeued
  <2>2. b = Len(builds)
    BY <1>1, <1>2, <1>3, <2>1 DEF Rows
  <2>3. \A c \in Rows : builds[c].status \notin Active
    BY <1>6 DEF Requeued, Inv, QueueLocked, Standing
  <2> QED BY <1>1, <1>2, <1>3, <2>1, <2>2, <2>3
          DEF Takes, Same, Rows, Ordered, RowsFollowAuthority, LastActive, Standing, PublishedForIdentity
<1>7. CASE Repointed
  <2>1. PICK b \in Standing : Takes(b, "QUEUED") /\ builds'[b].snapshot = accepted
    BY <1>7 DEF Repointed
  <2>2. b \in Rows /\ b = Len(builds)
    BY <1>3, <2>1 DEF Standing
  <2>3. \A c \in Rows \ {b} : builds[c].snapshot < accepted
    BY <1>1, <1>2, <1>3, <2>2 DEF Rows
  <2> QED BY <1>1, <1>2, <1>3, <2>1, <2>2, <2>3
          DEF Takes, Same, Rows, Ordered, RowsFollowAuthority, LastActive, Standing, PublishedForIdentity
<1>8. CASE Worked
  <2>1. PICK b \in Standing, status \in BuildStatus :
            /\ Takes(b, status) /\ builds'[b].snapshot = builds[b].snapshot
            /\ status = "READY" => builds'[b].payload = builds[b].snapshot
    BY <1>8 DEF Worked
  <2>2. b \in Rows /\ b = Len(builds) /\ Rows' = Rows /\ Len(builds') = Len(builds)
    BY <1>3, <2>1 DEF Standing, Takes, Rows
  <2>3. \A c \in Rows : builds'[c].snapshot = builds[c].snapshot
    BY <2>1 DEF Takes, Same
  <2>4. Ordered'
    BY <1>1, <1>2, <1>3, <2>2, <2>3 DEF Ordered, RowsFollowAuthority
  <2>5. LastActive'
    BY <1>3, <2>1, <2>2 DEF Takes, Same, LastActive, Standing
  <2>6. PublishedForIdentity'
    BY <1>3, <2>1, <2>2 DEF Takes, Same, PublishedForIdentity
  <2> QED BY <2>4, <2>5, <2>6
<1> QED BY <1>1, <1>4, <1>5, <1>6, <1>7, <1>8 DEF RowStep

-----------------------------------------------------------------------------
(* The two processes.                                                      *)

\* What a pass has polled stays queued, and so does what it is about to claim.
LEMMA PolledStays ==
    ASSUME Inv, [Next]_vars
    PROVE  /\ \A c \in worker.builds : c \in Rows' /\ builds'[c].status = "QUEUED"
           /\ worker.at = "claim" /\ worker'.at = "claim" => builds'[worker.job.n].status = "QUEUED"
<1>1. RowStep /\ Rows \subseteq Rows' /\ worker.builds \subseteq Rows
  BY JobSteps, Growth DEF Inv, TypeOK, WorkerTypeOK
<1>2. ASSUME NEW c \in Rows, builds[c].status = "QUEUED", ~Worked
      PROVE  builds'[c].status = "QUEUED"
  BY <1>1, <1>2 DEF RowStep, Kept, Inserted, Requeued, Repointed, Takes, Same
<1>3. ASSUME NEW c \in worker.builds
      PROVE  c \in Rows' /\ builds'[c].status = "QUEUED"
  <2>1. CASE Worked
    BY <1>1, <1>3, <2>1 DEF Worked, Takes, Same, Inv, Polled
  <2> QED BY <1>1, <1>2, <2>1 DEF Inv, Polled
<1>4. worker.at = "claim" => worker.job.n \in Rows /\ builds[worker.job.n].status = "QUEUED"
  BY DEF Inv, HasJob, Polled, AtBuild, Targets
<1> QED BY <1>2, <1>3, <1>4 DEF Worked

\* The worker's steps.
WorkerStep ==
    \/ WorkerStarts \/ WorkerStops \/ Poll \/ PassEnds
    \/ Dispatch \/ Claim \/ Calculate \/ Complete \/ FailBuild \/ FailDispatched
    \/ ExportStarts \/ ExportPublishes \/ ExportRevoked \/ ExportBreaks

ApiStep ==
    \/ \E S \in SUBSET Sources : Accept(S)
    \/ \E a \in Analysts : Preview(a) \/ SignRequest(a)
    \/ \E t \in Targets : ExportRequest(t)
    \/ QueueRequest \/ QueueRead \/ QueueRefused \/ Repoint \/ QueueInsert
    \/ SignRecheck \/ SignRefused \/ SignAppend \/ ExportQueued \/ ApiStops

\* The worker leaves the API's variables alone, and the API the worker's.
LEMMA Split ==
    ASSUME [Next]_vars
    PROVE  (WorkerStep /\ UNCHANGED apiVars) \/ (ApiStep /\ UNCHANGED worker) \/ UNCHANGED <<apiVars, worker>>
<1>1. \/ WorkerStep \/ ApiStep \/ UNCHANGED vars \/ Reclassify \/ \E s \in Sources : Withdraw(s)
  BY DEF Next, Clients, Api, Work, WorkerStep, ApiStep
<1>2. WorkerStep => UNCHANGED apiVars
  BY DEF WorkerStep, WorkerStarts, WorkerStops, Poll, PassEnds, Dispatch, Claim, Calculate, Complete,
         FailBuild, FailDispatched, FailRow, ExportStarts, ExportPublishes, ExportRevoked, ExportBreaks
<1>3. ApiStep => UNCHANGED worker
  BY DEF ApiStep, Accept, Preview, SignRequest, ExportRequest, QueueRequest, QueueRead, QueueRefused,
         Repoint, QueueInsert, SignRecheck, SignRefused, SignAppend, ExportQueued, ApiStops
<1>4. UNCHANGED vars \/ Reclassify \/ (\E s \in Sources : Withdraw(s)) => UNCHANGED <<apiVars, worker>>
  BY DEF vars, Reclassify, Withdraw
<1> QED BY <1>1, <1>2, <1>3, <1>4

\* The worker's position stays meaningful: every row and export it refers to
\* exists, and what it is to claim is queued.
LEMMA WorkerHolds ==
    ASSUME Inv, [Next]_vars
    PROVE  WorkerTypeOK' /\ HasJob' /\ Polled'
<1>1. /\ Rows \subseteq Rows' /\ Targets \subseteq Targets' /\ WorkerTypeOK /\ HasJob /\ Polled /\ JobsTypeOK
      /\ worker.builds \subseteq Rows /\ worker.exports \subseteq Targets
  BY Growth DEF Inv, TypeOK, WorkerTypeOK
<1>2. /\ \A c \in worker.builds : c \in Rows' /\ builds'[c].status = "QUEUED"
      /\ worker.at = "claim" /\ worker'.at = "claim" => builds'[worker.job.n].status = "QUEUED"
  BY PolledStays
<1>3. CASE UNCHANGED worker
  BY <1>1, <1>2, <1>3 DEF WorkerTypeOK, HasJob, Polled
<1>4. ASSUME NEW pc \in {"idle", "stopped", "pass"}, NEW todo \in SUBSET worker.builds,
             NEW exports \in SUBSET worker.exports,
             worker' = [at |-> pc, builds |-> todo, exports |-> exports, job |-> NoTarget,
                        dispatched |-> 0, identity |-> 0]
      PROVE  WorkerTypeOK' /\ HasJob' /\ Polled'
  <2>1. worker'.at = pc /\ worker'.builds = todo /\ pc \in WorkerAt /\ pc \notin AtBuild \cup AtExport
    BY <1>4 DEF WorkerAt, AtBuild, AtExport
  <2>2. todo \subseteq Rows' /\ exports \subseteq Targets'
    BY <1>1, <1>4
  <2>3. WorkerTypeOK'
    BY <1>4, <2>1, <2>2, BoundsAssumption DEF WorkerTypeOK
  <2> QED BY <1>2, <2>1, <2>3 DEF HasJob, Polled, AtBuild
<1>5. ASSUME NextJob \/ worker' = Idle \/ worker' = Stopped
      PROVE  WorkerTypeOK' /\ HasJob' /\ Polled'
  <2>1. CASE NextJob
    <3>1. worker' = [at |-> "pass", builds |-> worker.builds, exports |-> worker.exports, job |-> NoTarget,
                     dispatched |-> 0, identity |-> 0]
      BY <2>1 DEF NextJob, Idle
    <3> QED BY <1>4, <3>1
  <2>2. CASE worker' = Idle
    BY <1>4, <2>2 DEF Idle
  <2>3. CASE worker' = Stopped
    <3>1. worker' = [at |-> "stopped", builds |-> {}, exports |-> {}, job |-> NoTarget,
                     dispatched |-> 0, identity |-> 0]
      BY <2>3 DEF Stopped, Idle
    <3> QED BY <1>4, <3>1
  <2> QED BY <1>5, <2>1, <2>2, <2>3
<1>6. ASSUME NEW pc \in WorkerAt, Goto(pc), pc # "claim", pc \in AtBuild => worker.at \in AtBuild,
             pc \in AtExport => worker.at \in AtExport
      PROVE  WorkerTypeOK' /\ HasJob' /\ Polled'
  <2>1. worker'.at = pc /\ worker'.job = worker.job /\ worker'.builds = worker.builds /\ WorkerTypeOK'
    BY <1>1, <1>6 DEF Goto, WorkerTypeOK
  <2> QED BY <1>1, <1>2, <1>6, <2>1 DEF HasJob, Polled
<1>7. CASE Claim
  BY <1>5, <1>6, <1>7 DEF Claim, WorkerAt, AtBuild, AtExport
<1>8. CASE Complete
  BY <1>5, <1>6, <1>8 DEF Complete, WorkerAt, AtBuild, AtExport
<1>9. CASE ExportPublishes
  BY <1>5, <1>6, <1>9 DEF ExportPublishes, WorkerAt, AtBuild, AtExport
<1>10. CASE Poll
  <2> DEFINE queued == {b \in Rows : builds[b].status = "QUEUED"}
  <2>1. PICK exports \in SUBSET Targets :
             worker' = [Idle EXCEPT !.at = "pass", !.builds = queued, !.exports = exports]
    BY <1>10 DEF Poll
  <2>2. worker'.at = "pass" /\ worker'.builds = queued /\ queued \subseteq Rows /\ Untouched
    BY <1>10, <2>1 DEF Idle, Poll, Untouched
  <2>3. worker' = [at |-> "pass", builds |-> queued, exports |-> exports, job |-> NoTarget,
                   dispatched |-> 0, identity |-> 0]
    BY <2>1 DEF Idle
  <2>4. queued \subseteq Rows' /\ exports \subseteq Targets'
    BY <1>1, <2>2
  <2> HIDE DEF queued
  <2>5. WorkerTypeOK'
    BY <2>3, <2>4, BoundsAssumption DEF WorkerTypeOK, WorkerAt
  <2> USE DEF queued
  <2> QED BY <2>2, <2>5 DEF HasJob, Polled, AtBuild, AtExport, Untouched, jobVars
<1>11. CASE Dispatch
  <2>1. PICK b \in worker.builds :
             worker' = [worker EXCEPT !.at = "claim", !.builds = @ \ {b},
                                      !.job = [kind |-> "build", n |-> b], !.dispatched = builds[b].snapshot]
    BY <1>11 DEF Dispatch
  <2>2. b \in Rows /\ builds[b].snapshot \in 0 .. MaxSnapshots
    BY <1>1, <2>1, RowIsRow, BoundsAssumption DEF BuildRow, JobsTypeOK
  <2>3. /\ worker'.at = "claim" /\ worker'.builds = worker.builds \ {b} /\ WorkerTypeOK'
        /\ worker'.job = [kind |-> "build", n |-> b] /\ worker'.job \in Targets
    BY <1>1, <2>1, <2>2 DEF WorkerTypeOK, WorkerAt, Targets
  <2>4. worker'.job \in Targets'
    BY <1>1, <2>3
  <2> QED BY <1>2, <2>3, <2>4 DEF HasJob, Polled, AtExport
<1>12. CASE Calculate
  <2>1. PICK outcome \in Outcomes :
             worker' = [worker EXCEPT !.at = outcome, !.identity = builds[worker.job.n].snapshot]
    BY <1>12 DEF Calculate
  <2>2. worker.job \in Targets /\ worker.job.kind = "build" /\ worker.job.n \in Rows /\ worker.job.n \notin worker.builds
    BY <1>1, <1>12 DEF Calculate, HasJob, Polled, AtBuild, Targets
  <2>3. builds[worker.job.n].snapshot \in 0 .. MaxSnapshots
    BY <1>1, <2>2, RowIsRow, BoundsAssumption DEF BuildRow, JobsTypeOK
  <2>4. outcome \in AtBuild /\ outcome \in WorkerAt /\ outcome # "claim"
    BY OutcomesAssumption DEF AtBuild, WorkerAt
  <2>5. worker'.at = outcome /\ worker'.builds = worker.builds /\ worker'.job = worker.job /\ WorkerTypeOK'
    BY <1>1, <2>1, <2>3, <2>4 DEF WorkerTypeOK
  <2> QED BY <1>1, <1>2, <2>2, <2>4, <2>5 DEF HasJob, Polled
<1>13. CASE ExportStarts
  <2>1. PICK t \in worker.exports :
             \/ worker' = [worker EXCEPT !.exports = @ \ {t}, !.job = NoTarget]
             \/ worker' = [worker EXCEPT !.exports = @ \ {t}, !.job = t, !.at = "rendered"]
             \/ worker' = [worker EXCEPT !.exports = @ \ {t}, !.job = t, !.at = "broken"]
    BY <1>1, <1>13 DEF ExportStarts, WorkerTypeOK
  <2>2. worker.at = "pass" /\ worker'.builds = worker.builds /\ worker'.at \in {"pass", "rendered", "broken"}
    BY <1>1, <1>13, <2>1 DEF ExportStarts, WorkerTypeOK
  <2>3. WorkerTypeOK' /\ (worker'.at \in AtExport => worker'.job \in Targets)
    BY <1>1, <2>1, <2>2 DEF WorkerTypeOK, WorkerAt, AtExport
  <2> QED BY <1>1, <1>2, <2>2, <2>3 DEF HasJob, Polled, AtBuild
<1>14. CASE WorkerStarts \/ WorkerStops \/ PassEnds \/ FailBuild \/ FailDispatched \/ ExportRevoked \/ ExportBreaks
  BY <1>5, <1>14 DEF WorkerStarts, WorkerStops, PassEnds, FailBuild, FailDispatched, FailRow, ExportRevoked,
                     ExportBreaks
<1> QED BY <1>3, <1>7, <1>8, <1>9, <1>10, <1>11, <1>12, <1>13, <1>14, Split DEF WorkerStep

\* The API's calls refer to rows, targets and analysts that exist.
LEMMA ApiHolds ==
    ASSUME Inv, [Next]_vars
    PROVE  ApiTypeOK'
<1>1. /\ Rows \subseteq Rows' /\ Targets \subseteq Targets' /\ ApiTypeOK
      /\ Len(revisions) \in Nat /\ Len(builds) \in Nat
  BY Growth, LenProperties DEF Inv, TypeOK, JobsTypeOK
<1>2. CASE UNCHANGED apiVars
  BY <1>1, <1>2 DEF ApiTypeOK, apiVars
<1>3. ASSUME op' \in OpState, op'.active \in {0} \cup Rows, UNCHANGED draft,
             request' \in {request, NoTarget} \cup Targets
      PROVE  ApiTypeOK'
  BY <1>1, <1>3 DEF ApiTypeOK
<1>4. Release => op' \in OpState /\ op'.active \in {0} \cup Rows
  BY DEF Release, NoOp, OpState
<1>5. CASE QueueRefused \/ Repoint \/ QueueInsert \/ SignRefused \/ SignAppend \/ ApiStops
  BY <1>3, <1>4, <1>5 DEF QueueRefused, Repoint, QueueInsert, SignRefused, SignAppend, ApiStops
<1>6. CASE QueueRequest \/ \E S \in SUBSET Sources : Accept(S)
  <2>1. op' = [kind |-> "queue", at |-> "read", active |-> 0, by |-> Nobody] /\ UNCHANGED <<request, draft>>
    BY <1>6 DEF QueueRequest, Accept, NoOp
  <2> QED BY <1>3, <2>1 DEF OpState
<1>7. CASE QueueRead
  <2>1. PICK b \in {0} \cup Rows : op' = [op EXCEPT !.at = "write", !.active = b] /\ UNCHANGED <<request, draft>>
    BY <1>7 DEF QueueRead
  <2>2. b \in Nat
    BY <2>1 DEF Rows
  <2>3. op' \in OpState /\ op'.active = b
    BY <1>1, <2>1, <2>2 DEF ApiTypeOK, OpState
  <2> QED BY <1>3, <2>1, <2>3
<1>8. CASE \E a \in Analysts : SignRequest(a)
  <2>1. PICK a \in Analysts : SignRequest(a)
    BY <1>8
  <2>2. op' = [kind |-> "sign", at |-> "checked", active |-> 0, by |-> a] /\ UNCHANGED <<request, draft>>
    BY <2>1 DEF SignRequest, NoOp
  <2> QED BY <1>3, <2>2 DEF OpState
<1>9. CASE SignRecheck
  <2>1. op' \in OpState /\ op'.active = op.active /\ UNCHANGED <<request, draft>>
    BY <1>1, <1>9 DEF SignRecheck, ApiTypeOK, OpState
  <2> QED BY <1>1, <1>3, <2>1 DEF ApiTypeOK
<1>10. CASE ExportQueued \/ \E t \in Targets : ExportRequest(t)
  <2>1. UNCHANGED <<op, draft>> /\ request' \in {NoTarget} \cup Targets
    BY <1>10 DEF ExportQueued, ExportRequest
  <2> QED BY <1>1, <1>3, <2>1 DEF ApiTypeOK
<1>11. CASE \E a \in Analysts : Preview(a)
  <2>1. PICK a \in Analysts : Preview(a)
    BY <1>11
  <2>2. PICK b \in Rows : draft' = [draft EXCEPT ![a] = [build |-> b, head |-> Len(revisions)]]
    BY <2>1 DEF Preview
  <2>3. draft' \in [Analysts -> [build : {0} \cup Rows, head : Nat]]
    BY <1>1, <2>1, <2>2 DEF ApiTypeOK
  <2>4. draft' \in [Analysts -> [build : {0} \cup Rows', head : Nat]]
    BY <1>1, <2>3
  <2> QED BY <1>1, <2>1, <2>4 DEF Preview, ApiTypeOK
<1> QED BY <1>2, <1>5, <1>6, <1>7, <1>8, <1>9, <1>10, <1>11, Split DEF ApiStep

\* Between a queue call's read and its write no job appears.
LEMMA QueueHolds ==
    ASSUME Inv, [Next]_vars
    PROVE  QueueLocked'
<1>1. ASSUME Standing = {}, op' # NoOp
      PROVE  Standing' = {}
  <2>1. Kept
    BY <1>1, JobSteps DEF RowStep, Inserted, Requeued, Repointed, Worked, Release
  <2> QED BY <1>1, <2>1 DEF Kept, Same, Standing, Rows
<1>2. op'.kind = "queue" => op' # NoOp
  BY DEF NoOp
<1>3. accepted \in Nat
  BY BoundsAssumption DEF Inv, TypeOK, CaseTypeOK
<1>4. CASE UNCHANGED op
  <2> SUFFICES ASSUME op.kind = "queue"
               PROVE  QueueLocked'
    BY <1>4 DEF QueueLocked
  <2>1. accepted' = accepted
    BY CaseSteps DEF caseVars
  <2> QED BY <1>1, <1>2, <1>4, <2>1 DEF QueueLocked, Inv
<1>5. CASE op' = NoOp
  BY <1>5 DEF NoOp, QueueLocked
<1>6. CASE QueueRequest \/ \E S \in SUBSET Sources : Accept(S)
  <2>1. op'.kind = "queue" /\ op'.at = "read" /\ accepted' # 0
    <3>1. CASE QueueRequest
      BY <1>3, <3>1 DEF QueueRequest, NoOp, caseVars
    <3>2. ASSUME NEW S, Accept(S)
          PROVE  op'.kind = "queue" /\ op'.at = "read" /\ accepted' # 0
      BY <1>3, <3>2 DEF Accept, NoOp
    <3> QED BY <1>6, <3>1, <3>2
  <2> QED BY <2>1 DEF QueueLocked
<1>7. CASE QueueRead
  <2>1. PICK b \in Standing \cup {0} :
             /\ b = 0 => Standing = {}
             /\ op' = [op EXCEPT !.at = "write", !.active = b]
    BY <1>7 DEF QueueRead, Standing
  <2>2. op.kind = "queue" /\ op \in OpState /\ accepted # 0
    BY <1>7 DEF QueueRead, Inv, QueueLocked, TypeOK, ApiTypeOK
  <2>3. op'.kind = "queue" /\ op'.at = "write" /\ op'.active = b
    BY <2>1, <2>2 DEF OpState
  <2>4. accepted' # 0
    BY <2>2, CaseSteps DEF caseVars
  <2> QED BY <1>1, <1>2, <2>1, <2>3, <2>4 DEF QueueLocked
<1>8. CASE op'.kind = "sign"
  BY <1>8 DEF QueueLocked
<1>9. ASSUME NEW a, SignRequest(a)
      PROVE  op'.kind = "sign"
  BY <1>9 DEF SignRequest, NoOp
<1>10. SignRecheck => op'.kind = "sign"
  BY DEF SignRecheck, Inv, TypeOK, ApiTypeOK, OpState
<1>11. QueueRefused \/ Repoint \/ QueueInsert \/ SignRefused \/ SignAppend \/ ApiStops => op' = NoOp
  BY DEF QueueRefused, Repoint, QueueInsert, SignRefused, SignAppend, ApiStops, Release
<1>12. (\E a \in Analysts : Preview(a)) \/ (\E t \in Targets : ExportRequest(t)) \/ ExportQueued => UNCHANGED op
  BY DEF Preview, ExportRequest, ExportQueued
<1>13. UNCHANGED apiVars => UNCHANGED op
  BY DEF apiVars
<1> QED BY <1>4, <1>5, <1>6, <1>7, <1>8, <1>9, <1>10, <1>11, <1>12, <1>13, Split DEF ApiStep

\* A model that speaks for the case is the last row and nothing is under way:
\* until the lock is free nothing can take its place.
LEMMA ValidStays ==
    ASSUME Inv, [Next]_vars, NEW b, Valid(b), op.kind # "queue", UNCHANGED caseVars
    PROVE  Valid(b)'
<1>1. /\ b \in Rows /\ builds[b].status = "READY" /\ builds[b].snapshot = accepted
      /\ \A c \in Rows : builds[c].status = "READY" => c <= b
  BY DEF Valid, Current
<1>2. accepted \in Nat /\ Len(builds) \in Nat /\ \A c \in Rows : builds[c].snapshot \in Nat
  BY LenProperties, RowIsRow, BoundsAssumption DEF Inv, TypeOK, CaseTypeOK, JobsTypeOK, BuildRow
<1>3. b = Len(builds)
  <2>1. Len(builds) \in Rows /\ ~(b < Len(builds)) /\ b <= Len(builds)
    BY <1>1, <1>2 DEF Inv, Ordered, RowsFollowAuthority, Rows
  <2> QED BY <1>1, <1>2, <2>1 DEF Rows
<1>4. Standing = {}
  BY <1>1, <1>3 DEF Inv, LastActive, Standing, Active
<1>5. Kept
  BY <1>4, JobSteps DEF RowStep, Inserted, Requeued, Repointed, Worked
<1>6. Rows' = Rows /\ \A c \in Rows : /\ builds'[c].status = builds[c].status
                                     /\ builds'[c].snapshot = builds[c].snapshot
  BY <1>5 DEF Kept, Same, Rows
<1>7. UNCHANGED <<accepted, pins, withdrawn>>
  BY DEF caseVars
<1> QED BY <1>1, <1>6, <1>7 DEF Valid, Current, Live

\* The model that a sign-off has checked still stands when it is signed.
LEMMA SignHolds ==
    ASSUME Inv, [Next]_vars
    PROVE  SignLocked'
<1>1. CASE op.kind = "sign" /\ UNCHANGED <<op.kind, op.by>>
  <2>1. op.by \in Analysts /\ Valid(draft[op.by].build) /\ op.kind # "queue" /\ UNCHANGED caseVars
    BY <1>1, CaseSteps DEF Inv, SignLocked
  <2>2. Valid(draft[op.by].build)'
    <3>1. draft'[op.by] = draft[op.by]
      <4>1. CASE \E a \in Analysts : Preview(a)
        BY <2>1, <4>1 DEF Preview, Inv, TypeOK, ApiTypeOK
      <4>2. CASE ~\E a \in Analysts : Preview(a)
        <5>1. UNCHANGED draft
          BY <4>2, Split DEF ApiStep, apiVars, Accept, SignRequest, ExportRequest, QueueRequest, QueueRead,
             QueueRefused, Repoint, QueueInsert, SignRecheck, SignRefused, SignAppend, ExportQueued, ApiStops
        <5> QED BY <5>1
      <4> QED BY <4>1, <4>2
    <3> DEFINE b == draft[op.by].build
    <3>2. Valid(b) /\ draft'[op'.by].build = b
      BY <1>1, <2>1, <3>1
    <3> HIDE DEF b
    <3> QED BY <2>1, <3>2, ValidStays
  <2> QED BY <1>1, <2>1, <2>2 DEF SignLocked
<1>2. CASE op'.kind # "sign"
  BY <1>2 DEF SignLocked
<1>3. CASE \E a \in Analysts : SignRequest(a)
  <2>1. PICK a \in Analysts : SignRequest(a)
    BY <1>3
  <2>2. /\ op' = [NoOp EXCEPT !.kind = "sign", !.at = "checked", !.by = a]
        /\ UNCHANGED <<caseVars, jobVars, draft>> /\ Valid(draft[a].build)
    BY <2>1 DEF SignRequest
  <2>3. op'.by = a /\ UNCHANGED <<accepted, pins, withdrawn, builds, draft>>
    BY <2>2 DEF NoOp, caseVars, jobVars
  <2>4. Valid(draft[op.by].build)'
    BY <2>2, <2>3 DEF Valid, Current, Live, Rows
  <2> QED BY <2>3, <2>4 DEF SignLocked
<1>4. SignRecheck => op.kind = "sign" /\ UNCHANGED <<op.kind, op.by>>
  BY DEF SignRecheck, Inv, TypeOK, ApiTypeOK, OpState
<1>5. QueueRefused \/ Repoint \/ QueueInsert \/ SignRefused \/ SignAppend \/ ApiStops => op'.kind # "sign"
  BY DEF QueueRefused, Repoint, QueueInsert, SignRefused, SignAppend, ApiStops, Release, NoOp
<1>6. QueueRequest \/ QueueRead \/ (\E S \in SUBSET Sources : Accept(S)) => op'.kind # "sign"
  BY DEF QueueRequest, QueueRead, Accept, NoOp, Inv, TypeOK, ApiTypeOK, OpState
<1>7. \/ (\E a \in Analysts : Preview(a)) \/ (\E t \in Targets : ExportRequest(t)) \/ ExportQueued
      \/ UNCHANGED apiVars
      => UNCHANGED op
  BY DEF Preview, ExportRequest, ExportQueued, apiVars
<1>8. UNCHANGED op /\ op'.kind = "sign" => op.kind = "sign" /\ UNCHANGED <<op.kind, op.by>>
  OBVIOUS
<1> QED BY <1>1, <1>2, <1>3, <1>4, <1>5, <1>6, <1>7, <1>8, Split DEF ApiStep

-----------------------------------------------------------------------------
(* The theorems.                                                           *)

\* The empty case satisfies the invariant.
LEMMA InitHolds == Init => Inv
<1> SUFFICES ASSUME Init PROVE Inv
  OBVIOUS
<1>1. Len(builds) = 0 /\ Len(revisions) = 0 /\ Rows = {} /\ Targets = {}
  BY DEF Init, Rows, Targets
<1>2. CaseTypeOK /\ JobsTypeOK /\ crashes \in 0 .. MaxCrashes
  BY <1>1, BoundsAssumption DEF Init, CaseTypeOK, JobsTypeOK
<1>3. ApiTypeOK
  BY <1>1 DEF Init, ApiTypeOK, NoOp, NoTarget, NoDraft, OpState
<1>4. WorkerTypeOK
  BY <1>1, BoundsAssumption DEF Init, Idle, WorkerTypeOK, WorkerAt
<1>5. HasJob /\ Polled /\ QueueLocked /\ SignLocked
  BY DEF Init, Idle, NoOp, HasJob, Polled, QueueLocked, SignLocked, AtBuild, AtExport
<1>6. Ordered /\ LastActive /\ PublishedForIdentity
  BY <1>1 DEF Ordered, RowsFollowAuthority, LastActive, Standing, PublishedForIdentity
<1> QED BY <1>2, <1>3, <1>4, <1>5, <1>6 DEF Inv, TypeOK

\* Every step preserves it.
LEMMA InvStep == Inv /\ [Next]_vars => Inv'
<1> SUFFICES ASSUME Inv, [Next]_vars PROVE Inv'
  OBVIOUS
<1>1. crashes' \in 0 .. MaxCrashes
  <2>1. crashes \in 0 .. MaxCrashes
    BY DEF Inv, TypeOK
  <2>2. ApiStops \/ WorkerStops => crashes < MaxCrashes /\ crashes' = crashes + 1
    BY DEF ApiStops, WorkerStops
  <2>3. Clients \/ Api \/ Work \/ UNCHANGED vars => crashes' = crashes
    <3>1. Clients \/ UNCHANGED vars => crashes' = crashes
      BY DEF Clients, vars, Accept, Reclassify, Withdraw, Preview, SignRequest, ExportRequest, QueueRequest
    <3>2. Api => crashes' = crashes
      BY DEF Api, QueueRead, QueueRefused, Repoint, QueueInsert, SignRecheck, SignRefused, SignAppend, ExportQueued
    <3>3. Work => crashes' = crashes
      BY DEF Work, WorkerStarts, Poll, PassEnds, Dispatch, Claim, Calculate, Complete, FailBuild, FailDispatched,
             FailRow, ExportStarts, ExportPublishes, ExportRevoked, ExportBreaks
    <3> QED BY <3>1, <3>2, <3>3
  <2>4. crashes' = crashes \/ (crashes < MaxCrashes /\ crashes' = crashes + 1)
    BY <2>2, <2>3 DEF Next
  <2> QED BY <2>1, <2>4, BoundsAssumption
<1>2. TypeOK'
  BY <1>1, CaseSteps, JobSteps, ApiHolds, WorkerHolds DEF TypeOK
<1> QED BY <1>2, RowsHold, WorkerHolds, QueueHolds, SignHolds DEF Inv

\* The invariant holds of every reachable state.
THEOREM Invariance == Spec => []Inv
<1>1. Init => Inv
  BY InitHolds
<1>2. Inv /\ [Next]_vars => Inv'
  BY InvStep
<1> QED BY <1>1, <1>2, PTL DEF Spec

\* Every variable ranges over what the code can store in it, and every row that
\* an operation or a pass refers to exists.
THEOREM Typing == Spec => []TypeOK
<1>1. Inv => TypeOK
  BY DEF Inv
<1> QED BY <1>1, Invariance, PTL

\* At most one job of a case is queued or building, across the queue call's two
\* transactions and whatever the worker does between them.
THEOREM OneJob == Spec => []OneActiveJob
<1>1. Inv => OneActiveJob
  BY DEF Inv, LastActive, Standing, OneActiveJob
<1> QED BY <1>1, Invariance, PTL

\* A READY row carries the result of the snapshot it is for.
THEOREM Published == Spec => []PublishedForIdentity
<1>1. Inv => PublishedForIdentity
  BY DEF Inv
<1> QED BY <1>1, Invariance, PTL

\* Creation order is authority order.
THEOREM Order == Spec => []RowsFollowAuthority
<1>1. Inv => RowsFollowAuthority
  BY DEF Inv, Ordered
<1> QED BY <1>1, Invariance, PTL

\* What is published is final: no later step touches a READY row but its export.
THEOREM Final == Spec => ReadyIsFinal
<1>1. ASSUME Inv, [Next]_vars, NEW b \in Rows, builds[b].status = "READY"
      PROVE  builds'[b] = [builds[b] EXCEPT !.export = builds'[b].export]
  <2>1. Same(b)
    BY <1>1, JobSteps DEF RowStep, Kept, Inserted, Requeued, Repointed, Worked, Takes, Standing, Active
  <2>2. builds[b] \in BuildRow
    BY <1>1, RowIsRow DEF Inv, TypeOK, JobsTypeOK
  <2>3. builds'[b] \in BuildRow
    BY <1>1, Growth, JobSteps, ElementOfSeq DEF JobsTypeOK, Rows
  <2> QED BY <2>1, <2>2, <2>3 DEF Same, BuildRow
<1>2. Inv /\ [Next]_vars =>
        [\A b \in Rows : builds[b].status = "READY" =>
            builds'[b] = [builds[b] EXCEPT !.export = builds'[b].export]]_vars
  BY <1>1
<1> QED BY <1>2, Invariance, PTL DEF Spec, ReadyIsFinal

\* A signature alone appends a revision.
LEMMA OnlySigned ==
    ASSUME Inv, [Next]_vars
    PROVE  Len(revisions') = Len(revisions) \/ SignAppend
<1>1. \/ Quiet \/ Repoint \/ QueueInsert \/ SignAppend
      \/ ExportQueued \/ ExportPublishes \/ ExportRevoked \/ ExportBreaks
      \/ WorkerStarts \/ Claim \/ Complete \/ FailBuild \/ FailDispatched
  BY DEF Next, Clients, Api, Work, Quiet
<1>2. CASE Quiet
  BY <1>2, QuietIsUntouched DEF Untouched, jobVars
<1>3. CASE ExportQueued \/ ExportPublishes \/ ExportRevoked \/ ExportBreaks
  <2>1. UNCHANGED jobVars \/ \E t \in Targets, status \in ExportStatus : SetExport(t, status)
    BY <1>3 DEF Inv, TypeOK, ApiTypeOK, HasJob, AtExport, ExportStatus,
                ExportQueued, ExportPublishes, ExportRevoked, ExportBreaks
  <2> QED BY <2>1, ExportSet DEF jobVars, Inv, TypeOK
<1>4. CASE Repoint \/ QueueInsert \/ WorkerStarts \/ Claim \/ Complete \/ FailBuild \/ FailDispatched
  BY <1>4 DEF Repoint, QueueInsert, WorkerStarts, Claim, Complete, FailBuild, FailDispatched, FailRow
<1> QED BY <1>1, <1>2, <1>3, <1>4

\* A revision is appended only on the model that speaks for the case at that
\* instant, though the recomputation ran between the check and the append.
THEOREM Authority == Spec => SignedOnAuthority
<1>1. ASSUME Inv, [Next]_vars, Len(revisions') > Len(revisions)
      PROVE  Valid(revisions'[Len(revisions')].build)
  <2>1. Len(revisions) \in Nat
    BY <1>1, LenProperties DEF Inv, TypeOK, JobsTypeOK
  <2>2. SignAppend
    BY <1>1, <2>1, OnlySigned
  <2>3. revisions'[Len(revisions')].build = draft[op.by].build
    BY <1>1, <2>2, SignSteps
  <2> QED BY <1>1, <2>2, <2>3 DEF SignAppend, Inv, SignLocked
<1>2. Inv /\ [Next]_vars =>
        [Len(revisions') > Len(revisions) => Valid(revisions'[Len(revisions')].build)]_vars
  BY <1>1
<1> QED BY <1>2, Invariance, PTL DEF Spec, SignedOnAuthority

\* No lost update: whoever signs a revision has seen the one before it.
THEOREM NoLostUpdate == Spec => []RevisionsExtendHead
<1>1. Init => RevisionsExtendHead
  BY DEF Init, RevisionsExtendHead
<1>2. Inv /\ RevisionsExtendHead /\ [Next]_vars => RevisionsExtendHead'
  <2> SUFFICES ASSUME Inv, RevisionsExtendHead, [Next]_vars PROVE RevisionsExtendHead'
    OBVIOUS
  <2>1. Len(revisions) \in Nat /\ RevisionsStay
    BY JobSteps, LenProperties DEF Inv, TypeOK, JobsTypeOK
  <2>2. CASE Len(revisions') = Len(revisions)
    BY <2>1, <2>2 DEF RevisionsStay, RevisionsExtendHead
  <2>3. CASE SignAppend
    <3>1. /\ Len(revisions') = Len(revisions) + 1
          /\ revisions'[Len(revisions')].after = Len(revisions)
      BY <2>3, SignSteps DEF SignAppend
    <3> QED BY <2>1, <3>1 DEF RevisionsStay, RevisionsExtendHead
  <2> QED BY <2>2, <2>3, OnlySigned
<1> QED BY <1>1, <1>2, Invariance, PTL DEF Spec

\* An export becomes READY in the worker's hands alone, on live sources.
LEMMA OnlyPublished ==
    ASSUME Inv, [Next]_vars, NEW t \in Targets, ExportOf(t) # "READY", ExportOf(t)' = "READY"
    PROVE  Live(builds[BuildOf(t)].snapshot)
<1>1. \/ Quiet \/ Repoint \/ QueueInsert \/ SignAppend
      \/ ExportQueued \/ ExportPublishes \/ ExportRevoked \/ ExportBreaks
      \/ WorkerStarts \/ Claim \/ Complete \/ FailBuild \/ FailDispatched
  BY DEF Next, Clients, Api, Work, Quiet
<1>2. JobsTypeOK
  BY DEF Inv, TypeOK
<1>3. CASE Quiet
  BY <1>2, <1>3, QuietIsUntouched, UntouchedKeeps DEF ExportsStay
<1>4. CASE Repoint \/ QueueInsert
  BY <1>4, QueueSteps DEF ExportsStay
<1>5. CASE SignAppend
  BY <1>5, SignSteps DEF ExportsStay
<1>6. CASE WorkerStarts \/ Claim \/ Complete \/ FailBuild \/ FailDispatched
  BY <1>6, WorkerSteps DEF ExportsStay
<1>7. ASSUME NEW u \in Targets, NEW status \in ExportStatus \ {"READY"}, SetExport(u, status)
      PROVE  FALSE
  BY <1>2, <1>7, ExportSet
<1>8. ~UNCHANGED jobVars
  BY <1>2, UntouchedKeeps DEF Untouched, ExportsStay
<1>9. CASE ExportQueued \/ ExportRevoked \/ ExportBreaks
  BY <1>7, <1>8, <1>9 DEF Inv, TypeOK, ApiTypeOK, HasJob, AtExport, ExportStatus,
                          ExportQueued, ExportRevoked, ExportBreaks
<1>10. CASE ExportPublishes
  <2>1. worker.job \in Targets /\ SetExport(worker.job, "READY") /\ Live(builds[BuildOf(worker.job)].snapshot)
    BY <1>8, <1>10 DEF ExportPublishes, Inv, HasJob, AtExport
  <2>2. t = worker.job
    BY <1>2, <2>1, ExportSet DEF ExportStatus
  <2> QED BY <2>1, <2>2
<1> QED BY <1>1, <1>3, <1>4, <1>5, <1>6, <1>9, <1>10

\* Nothing becomes READY, model or export, at an instant when a source it rests
\* on is withdrawn, though the worker never holds the lock of the withdrawal.
THEOREM LiveEvidence == Spec => PublishedOnLiveEvidence
<1>1. ASSUME Inv, [Next]_vars, NEW b \in Rows, builds[b].status # "READY", builds'[b].status = "READY"
      PROVE  Live(builds[b].snapshot)
  <2>1. Worked
    BY <1>1, JobSteps DEF RowStep, Kept, Inserted, Requeued, Repointed, Takes, Same
  <2> QED BY <1>1, <2>1 DEF Worked, Takes, Same
<1>2. Inv /\ [Next]_vars =>
        [/\ \A b \in Rows : builds[b].status # "READY" /\ builds'[b].status = "READY" =>
                 Live(builds[b].snapshot)
         /\ \A t \in Targets : ExportOf(t) # "READY" /\ ExportOf(t)' = "READY" =>
                 Live(builds[BuildOf(t)].snapshot)]_vars
  BY <1>1, OnlyPublished
<1> QED BY <1>2, Invariance, PTL DEF Spec, PublishedOnLiveEvidence

\* The jobs and revisions of a case are one history: the parts above, together.
THEOREM JobsStaySound == Spec => []JobsSound
<1>1. TypeOK /\ OneActiveJob /\ PublishedForIdentity /\ RowsFollowAuthority /\ RevisionsExtendHead => JobsSound
  BY DEF JobsSound
<1> QED BY <1>1, Typing, OneJob, Published, Order, NoLostUpdate, PTL
=============================================================================
