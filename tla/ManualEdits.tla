------------------------------ MODULE ManualEdits ------------------------------
(***************************************************************************)
(* Staged copy edits of live mode.  The browser saves a text edit into a   *)
(* buffer; "Apply" starts a commit: a transaction file keeps the source as *)
(* it was, the batch is cut into chunks, an agent writes each one and      *)
(* replies, the server verifies the source and either clears the entries,  *)
(* rolls the files back, or asks for repairs and at last for a decision.   *)
(*                                                                         *)
(* A text leaf of a page is a ref; a text is the number of the save that   *)
(* wrote it, 0 the text the source came with.  That an edit is found at    *)
(* its place in a file is abstracted to src[ref] being its text.           *)
(***************************************************************************)
EXTENDS Naturals, Sequences, FiniteSets, SequencesExt

CONSTANTS
  Refs,         \* text leaves, numbered in document order
  Pages,        \* paths the tabs show, one tab each
  PageOf,       \* [Refs -> Pages]
  FileOf,       \* [Refs -> files]
  None,
  ChunkSize,    \* operations of one apply event
  MaxAttempts,  \* repairs before the user is asked
  MaxSaves, MaxCommits, MaxCrashes,   \* bounds of the exploration
  Faults        \* what the exploration adds to the ordinary course, of:
                \*   "late_writer"  an agent goes on writing after its event timed out, or
                \*                  after the server that sent it died
                \*   "late_reply"   it replies late to a chunk or repair, not the first event
                \*   "untidy"       a repair leaves text of an entry it does not report
                \*   "slow_user"    a decision is left open for longer than the state is kept

ASSUME ManualEditsAssumption ==
  /\ Refs \subseteq Nat \ {0}
  /\ PageOf \in [Refs -> Pages] /\ DOMAIN FileOf = Refs
  /\ ChunkSize \in Nat \ {0} /\ MaxAttempts \in Nat \ {0}
  /\ {MaxSaves, MaxCommits, MaxCrashes} \subseteq Nat
  /\ Faults \subseteq {"late_writer", "late_reply", "untidy", "slow_user"}

VARIABLES
  src,      \* the text of each leaf in the source
  broken,   \* files the checks after an apply would refuse
  buffer,   \* pending-manual-edits.json: the operations of all entries
  txn,      \* manual-edit-apply-transaction.json, or None
  commits,  \* the commit that runs for each page, or None
  tombs,    \* apply events given up, with the snapshot taken at dispatch; one of
            \* a server that died is not known to its successor
  ui,       \* what the dock of each page offers
  stored,   \* the apply state a tab keeps over a reload
  want,     \* the text the user last asked for, for each leaf
  saves, started, crashes

vars == <<src, broken, buffer, txn, commits, tombs, ui, stored, want, saves, started, crashes>>

Files == {FileOf[r] : r \in Refs}
Texts == 0..MaxSaves

Ids(ops)       == {o.id : o \in ops}
FilesOf(ops)   == {FileOf[o.ref] : o \in ops}
OpsOf(ops, is) == {o \in ops : o.id \in is}
OnPage(p)      == {o \in buffer : PageOf[o.ref] = p}
Running(p)     == commits[p] # None
Snapshot(fs, s, b) == [fs |-> fs, src |-> s, broken |-> b]

\* The source after the files of a snapshot are written back.
Restored(snap, s) == [r \in Refs |-> IF FileOf[r] \in snap.fs THEN snap.src[r] ELSE s[r]]
Mended(snap, b)   == (b \ snap.fs) \cup (snap.broken \cap snap.fs)

-----------------------------------------------------------------------------
(* The buffer. *)

StageEntryTwice(buf, id, rs) ==
  buf \cup {[id |-> id, ref |-> r, from |-> src[r], to |-> id] : r \in rs}

\* One save of the leaves rs: an operation already staged for a leaf keeps
\* its entry and its original text.
StageEntry(buf, id, rs) ==
  {IF o.ref \in rs THEN [o EXCEPT !.to = id] ELSE o : o \in buf}
    \cup {[id |-> id, ref |-> r, from |-> src[r], to |-> id] : r \in rs \ {o.ref : o \in buf}}

(* Cutting a batch into chunks: entries in the order they were staged; one
   that fits is never split, one that does not starts a chunk of its own.  *)

InOrder(ops) == SetToSortSeq(ops, LAMBDA a, b : a.id < b.id \/ (a.id = b.id /\ a.ref < b.ref))

AddOp(chunks, fresh, o) ==
  IF fresh \/ chunks = <<>> THEN Append(chunks, {o})
  ELSE [chunks EXCEPT ![Len(chunks)] = @ \cup {o}]

SplitManualApplyBatch(batch) ==
  LET Place(chunks, o) ==
        LET entry == OpsOf(batch, {o.id})
            last  == IF chunks = <<>> THEN {} ELSE chunks[Len(chunks)]
            first == \A q \in entry : q.ref >= o.ref
            fits  == Cardinality(entry) <= ChunkSize
        IN  AddOp(chunks,
                  \/ Cardinality(last) >= ChunkSize
                  \/ first /\ fits /\ Cardinality(last) + Cardinality(entry) > ChunkSize
                  \/ first /\ ~fits,
                  o)
  IN  FoldLeft(Place, <<>>, InOrder(batch))

-----------------------------------------------------------------------------
(* The transaction file. *)

StillPending(t) == t.ids \cap Ids(buffer) # {}
Rolls(t, p) == t # None /\ (p = None \/ t.page = p) /\ StillPending(t)

\* The source, and the transaction, after rollbackTransaction for page p.
SrcAfterRollback(p)    == IF Rolls(txn, p) THEN Restored(txn.snap, src) ELSE src
BrokenAfterRollback(p) == IF Rolls(txn, p) THEN Mended(txn.snap, broken) ELSE broken
TxnAfterRollback(p)    == IF txn # None /\ (p = None \/ txn.page = p) THEN None ELSE txn

ClearTransaction(id) == IF txn # None /\ txn.id = id THEN None ELSE txn

-----------------------------------------------------------------------------
(* What a page shows.  apply: the pill and the trash work; busy: an apply
   is shown as running; decide: keep fixing or roll back; rolled: the same
   buttons and the trash, after a rollback (the pill stays disabled).      *)

Show(p, look, keep) == /\ ui' = [ui EXCEPT ![p] = look]
                       /\ stored' = [stored EXCEPT ![p] = keep]

\* updatePendingCounter(n) when no apply is shown.
UpdatePendingCounter(p, n) ==
  IF n = 0 THEN Show(p, "apply", "none")
  ELSE Show(p, IF stored[p] # "none" THEN "busy" ELSE ui[p], stored[p])

\* applyEditing: the server stages the operations and the page counts them.
Stage(p) ==
  /\ ui[p] # "busy"
  /\ saves < MaxSaves
  /\ saves' = saves + 1
  /\ \E rs \in (SUBSET {r \in Refs : PageOf[r] = p}) \ {{}} :
       /\ buffer' = StageEntry(buffer, saves + 1, rs)
       /\ want' = [r \in Refs |-> IF r \in rs THEN saves + 1 ELSE want[r]]
  /\ UpdatePendingCounter(p, 1)
  /\ UNCHANGED <<src, broken, txn, commits, tombs, started, crashes>>

\* A reload keeps sessionStorage only; fetchPendingCount draws the dock.
Reload(p) ==
  /\ ~(ui[p] = "apply" /\ stored[p] = "none")
  /\ IF OnPage(p) = {} THEN Show(p, "apply", "none")
     ELSE Show(p, IF stored[p] # "none" THEN "busy" ELSE "apply", stored[p])
  /\ UNCHANGED <<src, broken, buffer, txn, commits, tombs, want, saves, started, crashes>>

\* MANUAL_APPLY_STATE_TTL_MS, taken to be longer than any commit.
StateExpires(p) ==
  /\ stored[p] # "none" /\ ~Running(p)
  /\ ui[p] = "busy" \/ "slow_user" \in Faults
  /\ stored' = [stored EXCEPT ![p] = "none"]
  /\ UNCHANGED <<src, broken, buffer, txn, commits, tombs, ui, want, saves, started, crashes>>

-----------------------------------------------------------------------------
(* A commit. *)

Dispatch(c, ops, todo) ==
  [c EXCEPT !.cur = ops, !.todo = todo, !.curSnap = Snapshot(FilesOf(ops), src', broken')]

Ends(p, c, cleared) ==
  /\ buffer' = {o \in buffer : o.id \notin cleared}
  /\ commits' = [commits EXCEPT ![p] = None]
  /\ txn' = ClearTransaction(c.txn)
  /\ Show(p, "apply", "none")

RollsBack(p, c) ==
  /\ src' = Restored(c.snap, src) /\ broken' = Mended(c.snap, broken)
  /\ Ends(p, c, {})

RetriesForgetting(p, c) ==
  /\ UNCHANGED <<src, broken, buffer>>
  /\ \/ /\ c.attempt < MaxAttempts
        /\ commits' = [commits EXCEPT ![p] = Dispatch([c EXCEPT !.attempt = @ + 1], c.batch, <<>>)]
        /\ UNCHANGED <<ui, stored, txn>>
     \/ /\ c.attempt = MaxAttempts
        /\ commits' = [commits EXCEPT ![p] = None]
        /\ txn' = ClearTransaction(c.txn)
        /\ Show(p, "decide", "decision")
RetriesForever(p, c) ==
  /\ UNCHANGED <<src, broken, buffer, txn, ui, stored>>
  /\ commits' = [commits EXCEPT ![p] = Dispatch([c EXCEPT !.attempt = 1], c.batch, <<>>)]

\* The attempt failed: another repair event, or the user's decision.
Retries(p, c) ==
  /\ UNCHANGED <<src, broken, buffer, txn>>
  /\ \/ /\ c.attempt < MaxAttempts
        /\ commits' = [commits EXCEPT ![p] = Dispatch([c EXCEPT !.attempt = @ + 1], c.batch, <<>>)]
        /\ UNCHANGED <<ui, stored>>
     \/ /\ c.attempt = MaxAttempts
        /\ commits' = [commits EXCEPT ![p] = None]
        /\ Show(p, "decide", "decision")

Verified(ops) == \A o \in ops : src[o.ref] = o.to
ChangedSince(snap) ==
  {f \in snap.fs : \/ (f \in broken) # (f \in snap.broken)
                   \/ \E r \in Refs : FileOf[r] = f /\ src[r] # snap.src[r]}
Leaked(c, ids) ==
  \E o \in c.batch : o.id \notin ids /\ src[o.ref] = o.to /\ c.snap.src[o.ref] # o.to

MustRollBackReported(c, res) ==
  \/ res.status = "error"
  \/ res.applied \cap res.failed # {}
  \/ ChangedSince(c.snap) \ res.files # {}
  \/ res.status = "done" /\ res.applied = {}
MustRollBack(c, res) ==
  \/ res.status = "error"
  \/ res.applied \cap res.failed # {}
  \/ ChangedSince(c.snap) \ res.files # {}
  \/ res.status = "done" /\ res.applied = {}
  \/ (res.applied = {} \/ res.files # {}) /\ Leaked(c, res.applied)

MustRepairUnchecked(c, res) ==
  \/ res.applied # {} /\ res.files = {}
  \/ ~Verified(OpsOf(c.batch, res.applied))
MustRepair(c, res) ==
  \/ res.applied # {} /\ res.files = {}
  \/ ~Verified(OpsOf(c.batch, res.applied))
  \/ broken \cap res.files # {}

\* commitManualEdits after the agent's answer for the whole batch.
Concludes(p, c, res) ==
  \/ MustRollBack(c, res) /\ RollsBack(p, c)
  \/ /\ ~MustRollBack(c, res) /\ MustRepair(c, res)
     /\ Retries(p, [c EXCEPT !.ids = IF res.applied = {} THEN Ids(c.batch) ELSE res.applied,
                             !.files = res.files])
  \/ /\ ~MustRollBack(c, res) /\ ~MustRepair(c, res)
     /\ UNCHANGED <<src, broken>> /\ Ends(p, c, res.applied)

\* repairPostApplyValidation after a repair's answer.
RepairConcludes(p, c, res) ==
  LET ids   == c.ids \cup res.applied
      files == c.files \cup res.files
      d     == [c EXCEPT !.ids = ids, !.files = files]
      good  == Verified(OpsOf(c.batch, ids)) /\ broken \cap files = {}
  IN  \/ good /\ UNCHANGED <<src, broken>> /\ Ends(p, d, ids)
      \/ ~good /\ Retries(p, d)

\* pushBatchInChunksAndWait: an entry counts only if every chunk applied it.
Aggregate(c) ==
  LET ok == {i \in Ids(c.batch) \ c.failed : OpsOf(c.batch, {i}) \subseteq c.done} IN
  [status |-> IF ok = Ids(c.batch) THEN "done" ELSE IF ok = {} THEN "error" ELSE "partial",
   applied |-> ok, failed |-> Ids(c.batch) \ ok, files |-> c.files]

AfterChunk(c, res) ==
  LET here == Ids(c.cur)
      stop == res.status = "error"
  IN  [c EXCEPT !.done = @ \cup OpsOf(c.cur, res.applied \ res.failed),
                !.failed = @ \cup res.failed \cup (here \ res.applied)
                             \cup (IF stop THEN Ids(UNION ToSet(c.todo)) ELSE {}),
                !.files = @ \cup res.files,
                !.todo = IF stop THEN <<>> ELSE @]

\* The chunk loop goes on with what the agent, or the timer, said.
Continues(p, c, res) ==
  IF c.attempt > 0 THEN RepairConcludes(p, c, res)
  ELSE IF ~c.chunked THEN Concludes(p, c, res)
  ELSE LET d == AfterChunk(c, res) IN
       IF d.todo = <<>> THEN Concludes(p, d, Aggregate(d))
       ELSE /\ UNCHANGED <<src, broken, buffer, txn, ui, stored>>
            /\ commits' = [commits EXCEPT ![p] = Dispatch(d, Head(d.todo), Tail(d.todo))]

NewCommit(id, batch, snap, chunks) ==
  [txn |-> id, batch |-> batch, snap |-> snap, chunked |-> Len(chunks) > 1,
   cur |-> Head(chunks), curSnap |-> Snapshot(FilesOf(Head(chunks)), snap.src, snap.broken),
   todo |-> Tail(chunks), done |-> {}, failed |-> {}, files |-> {}, ids |-> {}, attempt |-> 0]

\* POST /manual-edit-commit up to its first await: an abandoned transaction
\* is rolled back, a new one written, the first chunk dispatched.
Commit(p) ==
  /\ ui[p] = "apply" /\ OnPage(p) # {} /\ ~Running(p)
  /\ started < MaxCommits
  /\ started' = started + 1
  /\ src' = SrcAfterRollback(p) /\ broken' = BrokenAfterRollback(p)
  /\ LET snap == Snapshot(FilesOf(OnPage(p)), src', broken') IN
       /\ txn' = [id |-> started', page |-> p, ids |-> Ids(OnPage(p)), snap |-> snap]
       /\ commits' = [commits EXCEPT ![p] =
            NewCommit(started', OnPage(p), snap, SplitManualApplyBatch(OnPage(p)))]
  /\ Show(p, "busy", "applying")
  /\ UNCHANGED <<buffer, tombs, want, saves, crashes>>

\* "Keep fixing": a pass that only validates the source as it is.
KeepFixing(p) ==
  /\ ui[p] \in {"decide", "rolled"} /\ OnPage(p) # {} /\ ~Running(p)
  /\ IF txn = None
     THEN /\ Show(p, "decide", "decision")                  \* 409
          /\ UNCHANGED <<src, broken, buffer, txn, commits, started>>
     ELSE /\ started < MaxCommits /\ started' = started + 1
          /\ LET c == NewCommit(txn.id, OnPage(p), Snapshot(FilesOf(OnPage(p)), src, broken), <<OnPage(p)>>)
                 res == [status |-> "done", applied |-> Ids(OnPage(p)), failed |-> {},
                         files |-> FilesOf(OnPage(p))]
             IN  \/ ~MustRepair(c, res) /\ UNCHANGED <<src, broken>> /\ Ends(p, c, res.applied)
                 \/ /\ MustRepair(c, res)
                    /\ UNCHANGED <<src, broken, buffer, txn>>
                    /\ commits' = [commits EXCEPT ![p] =
                         [c EXCEPT !.attempt = 1, !.ids = res.applied, !.files = res.files]]
                    /\ Show(p, "busy", "applying")
  /\ UNCHANGED <<tombs, want, saves, crashes>>

\* "Roll back": POST /manual-edit-repair-decision.
Rollback(p) ==
  /\ ui[p] \in {"decide", "rolled"} /\ ~Running(p)
  /\ src' = SrcAfterRollback(p) /\ broken' = BrokenAfterRollback(p) /\ txn' = TxnAfterRollback(p)
  /\ IF OnPage(p) = {} THEN Show(p, "apply", "none") ELSE Show(p, "rolled", "none")
  /\ UNCHANGED <<buffer, commits, tombs, want, saves, started, crashes>>

\* POST /manual-edit-discard: roll the transaction back, drop the entries.
\* The tab that shows an apply as running cannot ask for it, and a page has
\* one tab: cancelPendingEvents finds no event of the page to cancel.
Discard(p) ==
  /\ OnPage(p) # {} /\ ui[p] \in {"apply", "rolled"} /\ ~Running(p)
  /\ want' = [r \in Refs |-> IF \E o \in OnPage(p) : o.ref = r
                             THEN (CHOOSE o \in OnPage(p) : o.ref = r).from ELSE want[r]]
  /\ src' = SrcAfterRollback(p) /\ broken' = BrokenAfterRollback(p) /\ txn' = TxnAfterRollback(p)
  /\ buffer' = buffer \ OnPage(p)
  /\ Show(p, "apply", "none")
  /\ UNCHANGED <<commits, tombs, saves, started, crashes>>

-----------------------------------------------------------------------------
(* The agent. *)

\* A mix of its operations written or not, and of its files left broken.
Writes(ops) ==
  \E w \in SUBSET ops, b \in SUBSET FilesOf(ops) :
    /\ src' = [r \in Refs |-> IF \E o \in ops : o.ref = r
                              THEN LET o == CHOOSE o \in ops : o.ref = r
                                   IN IF o \in w THEN o.to ELSE o.from
                              ELSE src[r]]
    /\ broken' = (broken \ FilesOf(ops)) \cup b
    /\ <<src', broken'>> # <<src, broken>>

\* An assumption on the agent, whom the code does not hold to it: one agent
\* polls, works and replies, an event at a time, so it owes its reply to an
\* event given up before it takes the next one.
AgentFree == tombs = {}

AgentWrites ==
  /\ \/ AgentFree /\ \E p \in Pages : Running(p) /\ Writes(commits[p].cur)
     \/ "late_writer" \in Faults /\ \E t \in tombs : Writes(t.ops)
  /\ UNCHANGED <<buffer, txn, commits, tombs, ui, stored, want, saves, started, crashes>>

\* The results the server accepts for an event.
Results(ops) ==
  {res \in [status : {"done", "partial", "error"}, applied : SUBSET Ids(ops),
            failed : SUBSET Ids(ops), files : {{}, FilesOf(ops)}] :
     /\ res.status = "done" => res.failed = {} /\ res.applied # {}
     /\ res.status = "partial" => res.applied \cup res.failed # {}
     /\ res.status = "error" => res.applied = {}}

\* A repair that leaves nothing behind of what it does not report.
Tidy(c, res) == /\ \A o \in c.batch : o.id \notin c.ids \cup res.applied => src[o.ref] = c.snap.src[o.ref]
                /\ broken \subseteq c.files \cup res.files \cup c.snap.broken

AgentReplies(p) ==
  /\ Running(p) /\ AgentFree
  /\ \E res \in Results(commits[p].cur) :
       /\ "untidy" \in Faults \/ commits[p].attempt = 0 \/ Tidy(commits[p], res)
       /\ Continues(p, commits[p], res)
  /\ UNCHANGED <<tombs, want, saves, started, crashes>>

Tombstone(c, known) ==
  [ops |-> c.cur, snap |-> c.curSnap, known |-> known,
   first |-> c.attempt = 0 /\ c.cur \in {c.batch, Head(SplitManualApplyBatch(c.batch))}]

\* APPLY_EVENT_HARD_TIMEOUT_MS: the event is given up and the loop goes on.
EventTimesOut(p) ==
  /\ Running(p)
  /\ LET c == commits[p]
         none == [status |-> "error", applied |-> {}, failed |-> {}, files |-> {}]
     IN  /\ tombs' = tombs \cup {Tombstone(c, TRUE)}
         /\ IF c.attempt > 0 THEN Retries(p, c) ELSE Continues(p, c, none)
  /\ UNCHANGED <<want, saves, started, crashes>>

\* A reply to an event given up is refused, and its files are written back;
\* one to an event of a server that died is unknown, and changes nothing.
LateReply ==
  /\ \E t \in tombs :
       /\ tombs' = tombs \ {t}
       /\ \/ /\ t.known /\ (t.first \/ "late_reply" \in Faults)
             /\ src' = Restored(t.snap, src) /\ broken' = Mended(t.snap, broken)
          \/ ~t.known /\ UNCHANGED <<src, broken>>
  /\ UNCHANGED <<buffer, txn, commits, ui, stored, want, saves, started, crashes>>

\* An agent that died with the event: its successor knows nothing of it.
AgentIsReplaced ==
  /\ tombs # {} /\ tombs' = {}
  /\ UNCHANGED <<src, broken, buffer, txn, commits, ui, stored, want, saves, started, crashes>>

\* The server dies and is started again; its tabs load the new script.  The
\* agent keeps the event it has in hand, which nobody waits for any more.
Restart ==
  /\ crashes < MaxCrashes
  /\ crashes' = crashes + 1
  /\ src' = SrcAfterRollback(None) /\ broken' = BrokenAfterRollback(None)
  /\ txn' = TxnAfterRollback(None)
  /\ commits' = [p \in Pages |-> None]
  /\ tombs' = {[t EXCEPT !.known = FALSE] : t \in tombs}
               \cup {Tombstone(commits[p], FALSE) : p \in {q \in Pages : Running(q)}}
  /\ ui' = [p \in Pages |-> "apply"] /\ stored' = [p \in Pages |-> "none"]
  /\ UNCHANGED <<buffer, want, saves, started>>

-----------------------------------------------------------------------------
Init ==
  /\ src = [r \in Refs |-> 0] /\ want = [r \in Refs |-> 0]
  /\ broken = {} /\ buffer = {} /\ txn = None /\ tombs = {}
  /\ commits = [p \in Pages |-> None]
  /\ ui = [p \in Pages |-> "apply"] /\ stored = [p \in Pages |-> "none"]
  /\ saves = 0 /\ started = 0 /\ crashes = 0

Next ==
  \/ \E p \in Pages :
       \/ Stage(p) \/ Reload(p) \/ StateExpires(p) \/ Commit(p) \/ KeepFixing(p)
       \/ Rollback(p) \/ Discard(p) \/ AgentReplies(p) \/ EventTimesOut(p)
  \/ AgentWrites \/ LateReply \/ AgentIsReplaced \/ Restart

Spec == Init /\ [][Next]_vars
\* The timer of an apply event runs out whatever the agent does.
FairSpec == Spec /\ \A p \in Pages : WF_vars(EventTimesOut(p))

-----------------------------------------------------------------------------
Operation == [id : 1..MaxSaves, ref : Refs, from : Texts, to : Texts]

\* The types of the variables; an operation of a leaf is staged only once.
TypeOK ==
  /\ src \in [Refs -> Texts] /\ want \in [Refs -> Texts]
  /\ broken \subseteq Files
  /\ buffer \subseteq Operation
  /\ \A o, q \in buffer : o.ref = q.ref => o = q
  /\ txn # None => txn.page \in Pages /\ txn.ids # {}
  /\ \A p \in Pages : Running(p) =>
       commits[p].cur # {} /\ commits[p].cur \subseteq commits[p].batch
  /\ ui \in [Pages -> {"apply", "busy", "decide", "rolled"}]
  /\ stored \in [Pages -> {"none", "applying", "decision"}]

Quiet == txn = None /\ \A p \in Pages : ~Running(p)

\* When no apply is under way, the text the user last asked for is either
\* in the source or staged over the text the source has: no edit is lost by
\* a chunk, a timeout, a rollback, a repair or a restart, and none that is
\* still staged is half written.
NoEditIsLost ==
  Quiet => \A r \in Refs :
    \/ src[r] = want[r] /\ \A o \in buffer : o.ref # r
    \/ \E o \in buffer : o.ref = r /\ o.to = want[r] /\ o.from = src[r]

\* When no apply is under way, no file is left in a state that the checks
\* after an apply refuse.
SourceIsSound == Quiet => broken = {}

\* While a commit runs, or has left text in the source for the user to decide
\* about, the transaction file can bring its files back to what they were.
ApplyCanBeUndone ==
  \A p \in Pages : \A o \in OnPage(p) :
    \/ Running(p)
    \/ ui[p] = "decide" /\ src[o.ref] # o.from
    => /\ txn # None /\ txn.page = p
       /\ o.id \in txn.ids => FileOf[o.ref] \in txn.snap.fs /\ txn.snap.src[o.ref] = o.from

\* An apply comes to its end, whatever the agent does.
ApplyEnds == \A p \in Pages : Running(p) ~> ~Running(p)

\* Between applies every edit is kept, the source is sound, and what was written
\* and not confirmed can be taken back.
EditsAreSafe == TypeOK /\ NoEditIsLost /\ SourceIsSound /\ ApplyCanBeUndone
=============================================================================
