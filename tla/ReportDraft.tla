---------------------------- MODULE ReportDraft -----------------------------
(* The report editor of one analyst on one pathway (ReportStudio.tsx):      *)
(* every edit is saved after a pause, saves queue behind each other with    *)
(* the version they expect, a copy of unsaved work is kept in the browser,  *)
(* and signing, freezing, filing, restoring and adopting a shared revision  *)
(* lock the editor while they are under way.  Colleagues save and freeze,   *)
(* answers are lost, the analyst goes to another pathway or reloads.        *)
(*                                                                          *)
(* A draft is one text: 0 is the template, 1..MaxEdits what the analyst     *)
(* typed, above that what colleagues saved.  The opinion form is 0 (empty)  *)
(* or what was typed.  Frozen outputs stand as the version they froze.      *)
EXTENDS Integers, Sequences, FiniteSets

CONSTANTS
  Nil,
  MaxEdits, MaxForms,   \* keystrokes in the draft and in the opinion form
  MaxClicks,            \* buttons pressed: recovery, conflicts, operations
  MaxEvents,            \* colleagues' saves and freezes, reloads, changes of
                        \* pathway, lost requests and answers, all together
  Incomplete,           \* edits that leave a required section empty
  Slips                 \* known ways to lose work: see README

\* What the variables hold.
FreezeJobs == [ver : Nat, st : {"QUEUED", "FAILED", "PUBLISHED"}]
Outputs == [ver : Nat, st : {"FROZEN", "FILED", "SUPERSEDED", "CHANGES_REQUESTED"}, mine : BOOLEAN]
Views == [ver : Nat, signed : Nat, job : FreezeJobs \cup {Nil}, frozen : SUBSET Outputs]
Copies == [text : Nat, form : Nat, base : Nat]
Autosaves == [text : Nat, gen : Nat]
Saves == [text : Nat, gen : Nat, step : {"queued", "sent", "ok", "conflict", "fail"}, ver : Nat, ws : Views \cup {Nil}]
Fetches == [step : {"sent"}] \cup [step : {"read"}, ws : Views]
OpKinds == {"sign", "freeze", "restore", "shared", "file", "changes"}
Restores == [ver : Nat \ {0}, text : 0..(MaxEdits + MaxEvents)]
Operations ==
  [kind : OpKinds, arg : Views \cup Outputs \cup Restores \cup {Nil},
   step : {"sent", "ok", "no", "poll"}, ws : Views \cup {Nil}]
Orders ==
  [kind : {"sign", "freeze"}, arg : {v \in Views : v.ver # 0}, no : Nat] \cup [kind : {"restore"}, arg : Restores, no : Nat]
    \cup [kind : {"file", "changes"}, arg : Outputs, no : Nat] \cup [kind : {"shared"}, arg : {Nil}, no : Nat]
Editors ==
  [ws : Views \cup {Nil}, text : Nat, saved : Nat, shown : Nat, unsaved : BOOLEAN, gen : Nat,
   state : {"IDLE", "INCOMPLETE", "DIRTY", "SAVING", "SAVED", "CONFLICT", "ERROR"}, conflict : Nat,
   form : Nat, offer : Copies \cup {Nil}, pick : Outputs \cup {Nil}, here : BOOLEAN]

ASSUME ReportAssumption ==
  /\ Nil \notin FreezeJobs /\ Nil \notin Outputs /\ Nil \notin Views /\ Nil \notin Copies /\ Nil \notin Autosaves
  /\ Nil \notin Fetches /\ Nil \notin Operations
  /\ {MaxEdits, MaxForms, MaxClicks, MaxEvents} \subseteq Nat
  /\ Incomplete \subseteq 1..MaxEdits
  /\ Slips \subseteq {"return", "pending", "changes", "ignored", "base"}

VARIABLES
  srv,      \* revisions, the version signed, the freeze job, frozen outputs
  ed,       \* the editor: what is on screen and what its refs hold
  timer,    \* the pending autosave, or Nil
  chain,    \* saves of this visit, the first one under way
  old,      \* saves of an earlier visit that are still under way
  op,       \* the operation that locks the editor, or Nil
  left,     \* operations given up by leaving that the server has not seen yet
  load,     \* the draft being fetched, or Nil
  copy,     \* the recovery copy in the browser, or Nil
  work,     \* history: the last text typed and form typed, not given up
  count
reportVars == <<srv, ed, timer, chain, old, op, left, load, copy, work, count>>
Pressed == count.clicks < MaxClicks /\ count' = [count EXCEPT !.clicks = @ + 1]
-----------------------------------------------------------------------------
(* The server: a draft is appended to by whoever knows its head.            *)
Head_ == Len(srv.revs)
View == [ver |-> Head_, signed |-> srv.signed, job |-> srv.job, frozen |-> srv.frozen]
TextOf(ver) == IF ver = 0 THEN 0 ELSE srv.revs[ver]
Mine(text) == text \in 1..MaxEdits
Appended(text) == [srv EXCEPT !.revs = Append(@, text)]

NoEditor ==
  [ws |-> Nil, text |-> 0, saved |-> 0, shown |-> 0, unsaved |-> FALSE, gen |-> 0,
   state |-> "IDLE", conflict |-> 0, form |-> 0, offer |-> Nil, pick |-> Nil, here |-> TRUE]
Loaded == ed.ws # Nil /\ load = Nil /\ ed.here
Locked == op # Nil
NoWork == [text |-> 0, form |-> 0]

ReportInit ==
  /\ srv = [revs |-> <<>>, signed |-> 0, job |-> Nil, frozen |-> {}]
  /\ ed = NoEditor /\ load = [step |-> "sent"]
  /\ timer = Nil /\ chain = <<>> /\ old = <<>> /\ op = Nil /\ left = {}
  /\ copy = Nil /\ work = NoWork
  /\ count = [edits |-> 0, forms |-> 0, clicks |-> 0, events |-> 0]
-----------------------------------------------------------------------------
(* The recovery copy                                                        *)
DirtyOf(e) == e.unsaved \/ e.form # 0
CopyOf(e) == [text |-> e.text, form |-> e.form, base |-> e.saved]
RetainedNever(e) == IF e.unsaved THEN CopyOf(e) ELSE Nil \* mutant: an opinion is not work
\* retainRecovery: unsaved work is copied to the browser, saved work is not.
Retained(e) == IF DirtyOf(e) THEN CopyOf(e) ELSE Nil
Keeping(e) == [e EXCEPT !.offer = IF @ = Nil THEN Nil ELSE Retained(e)]

\* The effect that looks for a copy again when the workspace changes.
Fetched(e, ws) == [e EXCEPT !.ws = ws, !.offer = IF e.unsaved THEN @ ELSE copy]

\* load: the draft replaces what the editor held, a stored copy is offered.
LoadReads ==
  /\ load # Nil /\ load.step = "sent"
  /\ load' = [step |-> "read", ws |-> View]
  /\ UNCHANGED <<srv, ed, timer, chain, old, op, copy, work, count>>
LoadLands ==
  /\ load # Nil /\ load.step = "read"
  /\ ed' = [NoEditor EXCEPT !.ws = load.ws, !.text = TextOf(load.ws.ver), !.saved = load.ws.ver, !.shown = load.ws.ver,
              !.gen = ed.gen, !.state = IF load.ws.ver = 0 THEN "IDLE" ELSE "SAVED", !.offer = copy]
  /\ load' = Nil
  /\ UNCHANGED <<srv, timer, chain, old, op, copy, work, count>>
-----------------------------------------------------------------------------
(* Edits and saves                                                          *)
\* markChanged
Changed(e, text) ==
  Keeping([e EXCEPT !.text = text, !.pick = Nil, !.conflict = 0, !.gen = @ + 1, !.unsaved = TRUE, !.state = "DIRTY"])
MarkChanged(e, text) ==
  LET next == Changed(e, text) IN
  /\ ed' = next /\ copy' = Retained(next)
  /\ timer' = [text |-> text, gen |-> next.gen]
\* A copy that is offered and differs from the screen is lost at the next key
\* and whenever a draft is adopted or the form is cleared.
Unanswered == ed.offer # Nil /\ [text |-> ed.offer.text, form |-> ed.offer.form] # [text |-> ed.text, form |-> ed.form]
Answered == Unanswered => "ignored" \in Slips
Writable == Loaded /\ ~Locked /\ Answered
Edit ==
  /\ Writable /\ count.edits < MaxEdits
  /\ MarkChanged(ed, count.edits + 1)
  /\ work' = [work EXCEPT !.text = count.edits + 1]
  /\ count' = [count EXCEPT !.edits = @ + 1]
  /\ UNCHANGED <<srv, chain, old, op, load>>
\* changeOpinion
TypeOpinion ==
  /\ Writable /\ ed.pick = Nil /\ count.forms < MaxForms
  /\ LET next == Keeping([ed EXCEPT !.form = count.forms + 1]) IN ed' = next /\ copy' = Retained(next)
  /\ work' = [work EXCEPT !.form = count.forms + 1]
  /\ count' = [count EXCEPT !.forms = @ + 1]
  /\ UNCHANGED <<srv, timer, chain, old, op, load>>

Queued(text, gen) == [text |-> text, gen |-> gen, step |-> "queued", ver |-> ed.saved, ws |-> Nil]
\* enqueueSave: a draft with an empty section is not sent.
Enqueue(text, gen) ==
  IF text \in Incomplete
  THEN ed' = [ed EXCEPT !.state = "INCOMPLETE"] /\ UNCHANGED chain
  ELSE ed' = [ed EXCEPT !.state = "SAVING"] /\ chain' = Append(chain, Queued(text, gen))
TimerFires ==
  /\ timer # Nil /\ Enqueue(timer.text, timer.gen)
  /\ timer' = Nil
  /\ UNCHANGED <<srv, old, op, load, copy, work, count>>
\* The effect that tries again five seconds after an error.
Retry ==
  /\ Loaded /\ ed.state = "ERROR" /\ ed.unsaved
  /\ Enqueue(ed.text, ed.gen)
  /\ UNCHANGED <<srv, timer, old, op, load, copy, work, count>>

\* The first of a chain is sent with the version the editor holds by then, or
\* dropped when it is of no use any more.
Sends(q) == ed.here /\ q.gen <= ed.gen
PostedOfItsTime(q) == [q EXCEPT !.step = "sent"] \* mutant: the version is taken when it is queued
Posted(q) == [q EXCEPT !.step = "sent", !.ver = ed.saved]
Put(q) ==
  IF Sends(q) THEN <<Posted(q)>> ELSE <<>>
PutServed(q) ==
  \/ /\ q.ver = Head_
     /\ srv' = Appended(q.text)
     /\ UNCHANGED count
  \/ /\ q.ver # Head_ /\ UNCHANGED <<srv, count>>
ServedAnswer(q) ==
  IF q.ver = Head_ THEN [q EXCEPT !.step = "ok", !.ver = Head_ + 1, !.ws = [View EXCEPT !.ver = Head_ + 1]]
  ELSE [q EXCEPT !.step = "conflict", !.ver = Head_]
\* The PUT or its answer is lost.
Lost(q) ==
  /\ count.events < MaxEvents /\ count' = [count EXCEPT !.events = @ + 1]
  /\ srv' \in {srv} \cup (IF q.ver = Head_ THEN {Appended(q.text)} ELSE {})

\* mutant: any save that succeeds makes the draft saved
SaveLandedAny(e, q) ==
  [e EXCEPT !.saved = q.ver, !.shown = q.ver, !.ws = q.ws, !.conflict = 0, !.unsaved = FALSE, !.text = q.text,
            !.state = "SAVED"]
\* What the answer of a save does to the editor.
SaveLanded(e, q) ==
  LET known == [e EXCEPT !.saved = q.ver, !.shown = q.ver, !.ws = q.ws, !.conflict = 0] IN
  IF q.gen = e.gen
  THEN [known EXCEPT !.unsaved = FALSE, !.text = q.text, !.state = "SAVED"]
  ELSE known
\* mutant: the next save expects what the conflict names
ConflictRebased(e, q) ==
  [e EXCEPT !.offer = copy, !.conflict = q.ver, !.saved = q.ver, !.state = "CONFLICT"]
ConflictLanded(e, q) == [e EXCEPT !.offer = copy, !.conflict = q.ver, !.state = "CONFLICT"]
Landed(q) ==
  CASE q.step = "ok" ->
         LET next == SaveLanded(ed, q) IN
         /\ copy' = IF q.gen = ed.gen THEN Retained(next) ELSE copy
         /\ ed' = IF next.unsaved THEN next ELSE [next EXCEPT !.offer = copy']
    [] q.step = "conflict" -> ed' = ConflictLanded(ed, q) /\ UNCHANGED copy
    [] q.step = "fail" -> ed' = [ed EXCEPT !.offer = copy, !.state = "ERROR"] /\ UNCHANGED copy

ChainSends ==
  /\ chain # <<>> /\ chain[1].step = "queued"
  /\ chain' = Put(chain[1]) \o Tail(chain)
  /\ UNCHANGED <<srv, ed, timer, old, op, load, copy, work, count>>
ChainServed ==
  /\ chain # <<>> /\ chain[1].step = "sent"
  /\ \/ PutServed(chain[1]) /\ chain' = <<ServedAnswer(chain[1])>> \o Tail(chain)
     \/ Lost(chain[1]) /\ chain' = <<[chain[1] EXCEPT !.step = "fail"]>> \o Tail(chain)
  /\ UNCHANGED <<ed, timer, old, op, load, copy, work>>
ChainLands ==
  /\ chain # <<>> /\ chain[1].step \in {"ok", "conflict", "fail"}
  /\ Landed(chain[1])
  /\ chain' = Tail(chain)
  /\ UNCHANGED <<srv, timer, old, op, load, work, count>>
\* The saves of an earlier visit go on behind it; they know the case and the
\* pathway, and are taken for saves of this visit when it is back there.
OldGoesOn ==
  /\ old # <<>>
  /\ \/ /\ old[1].step = "queued" /\ old' = Put(old[1]) \o Tail(old)
        /\ UNCHANGED <<srv, ed, copy, count>>
     \/ /\ old[1].step = "sent"
        /\ \/ PutServed(old[1]) /\ old' = <<ServedAnswer(old[1])>> \o Tail(old)
           \/ Lost(old[1]) /\ old' = <<[old[1] EXCEPT !.step = "fail"]>> \o Tail(old)
        /\ UNCHANGED <<ed, copy>>
     \/ /\ old[1].step \in {"ok", "conflict", "fail"} /\ old' = Tail(old)
        /\ IF ed.here THEN Landed(old[1]) ELSE UNCHANGED <<ed, copy>>
        /\ UNCHANGED <<srv, count>>
  /\ UNCHANGED <<timer, chain, op, load, work>>
-----------------------------------------------------------------------------
(* Conflicts and recovery                                                   *)
\* "Retry over current": the analyst has read who saved what.
RetryOver ==
  /\ Pressed /\ Loaded /\ ~Locked /\ ed.conflict # 0
  /\ MarkChanged([ed EXCEPT !.saved = ed.conflict, !.shown = ed.conflict, !.ws.ver = ed.conflict], ed.text)
  /\ UNCHANGED <<srv, chain, old, op, load, work>>
\* applyRecovery: the copy is edited in, on the version it was made on.
ApplyRecovery ==
  /\ Pressed /\ Loaded /\ ~Locked /\ ed.offer # Nil
  /\ ed.offer.base = ed.saved \/ ed.gen = 0 \/ "base" \in Slips
  /\ MarkChanged([ed EXCEPT !.saved = ed.offer.base, !.form = ed.offer.form], ed.offer.text)
  /\ UNCHANGED <<srv, chain, old, op, load, work>>
DiscardRecovery ==
  /\ Pressed /\ Loaded /\ ~Locked /\ ed.offer # Nil
  /\ copy' = Nil /\ ed' = [ed EXCEPT !.offer = Nil]
  /\ work' = NoWork
  /\ UNCHANGED <<srv, timer, chain, old, op, load>>
-----------------------------------------------------------------------------
(* Operations that lock the editor (beginLifecycle, finishLifecycle).  One  *)
(* given up by leaving, or by a reload, still reaches the server (left).    *)
Begin(kind, arg) ==
  /\ Pressed /\ Loaded /\ ~Locked /\ (kind \in {"sign", "restore", "shared", "changes"} => Answered)
  /\ op' = [kind |-> kind, arg |-> arg, step |-> "sent", ws |-> Nil]
  /\ UNCHANGED <<srv, ed, timer, chain, old, load, copy, work>>
ExactlySaved == ~ed.unsaved /\ ed.state = "SAVED" /\ ed.ws.ver # 0 /\ ed.ws.ver = ed.saved

SignOpinion == ExactlySaved /\ ed.form # 0 /\ Begin("sign", ed.ws)
\* mutant: what is on screen need not be saved
MayFreezeUnsaved ==
  /\ ed.ws.ver # 0 /\ ed.ws.signed = ed.ws.ver
  /\ (ed.ws.job # Nil => ed.ws.job.st # "QUEUED")
\* freeze and freezeChecklist
MayFreeze ==
  /\ ExactlySaved /\ ed.form = 0 /\ ed.ws.signed = ed.ws.ver
  /\ (ed.ws.job # Nil => ed.ws.job.st # "QUEUED")
Freeze == Loaded /\ MayFreeze /\ Begin("freeze", ed.ws)
RestoreRevision ==
  /\ Loaded /\ ~ed.unsaved /\ ed.state = "SAVED"
  /\ \E v \in 1..ed.ws.ver : Begin("restore", [ver |-> ed.ws.ver, text |-> TextOf(v)])
AcceptShared == Loaded /\ ed.conflict # 0 /\ Begin("shared", Nil)
\* Filing is for an approver who neither signed nor froze the output.
Fileable == {f \in ed.ws.frozen : f.st = "FROZEN" /\ ~f.mine}
SelectFrozen ==
  /\ Loaded /\ ~Locked
  /\ \E f \in Fileable : ed' = [ed EXCEPT !.pick = f]
  /\ UNCHANGED <<srv, timer, chain, old, op, load, copy, work, count>>
FileFrozen == ed.pick # Nil /\ Begin("file", ed.pick)
RequestChanges ==
  /\ ed.pick # Nil /\ (DirtyOf(ed) => "changes" \in Slips)
  /\ Begin("changes", ed.pick)

Filed(fs, f) ==
  {IF g = f THEN [g EXCEPT !.st = "FILED"] ELSE IF g.st = "FILED" THEN [g EXCEPT !.st = "SUPERSEDED"] ELSE g : g \in fs}
Done(s, ws) == [ok |-> TRUE, srv |-> s, ws |-> ws]
Refused == [ok |-> FALSE, srv |-> srv, ws |-> Nil]
\* What the server makes of an operation o.
Outcome(o) ==
  CASE o.kind = "sign" ->
         IF o.arg.ver = Head_ /\ o.arg.signed = srv.signed
         THEN Done([srv EXCEPT !.signed = Head_], [o.arg EXCEPT !.signed = Head_]) ELSE Refused
    [] o.kind = "freeze" ->
         IF o.arg.ver = Head_ /\ srv.signed = Head_
         THEN LET job == [ver |-> Head_, st |-> "QUEUED"] IN Done([srv EXCEPT !.job = job], [o.arg EXCEPT !.job = job])
         ELSE Refused
    [] o.kind = "restore" ->
         IF o.arg.ver = Head_
         THEN Done(Appended(o.arg.text), [View EXCEPT !.ver = Head_ + 1]) ELSE Refused
    [] o.kind = "shared" -> Done(srv, View)
    [] o.kind = "file" ->
         IF o.arg \in srv.frozen
         THEN Done([srv EXCEPT !.frozen = Filed(@, o.arg)], Nil) ELSE Refused
    [] o.kind = "changes" ->
         IF o.arg \in srv.frozen
         THEN LET revs == Append(srv.revs, TextOf(o.arg.ver))
                  gone == (srv.frozen \ {o.arg}) \cup {[o.arg EXCEPT !.st = "CHANGES_REQUESTED"]}
              IN Done([srv EXCEPT !.revs = revs, !.frozen = gone], [View EXCEPT !.ver = Head_ + 1, !.frozen = gone])
         ELSE Refused
OpServed ==
  /\ op # Nil /\ op.step = "sent"
  /\ srv' = Outcome(op).srv
  /\ op' = IF Outcome(op).ok THEN [op EXCEPT !.step = "ok", !.ws = Outcome(op).ws] ELSE [op EXCEPT !.step = "no"]
  /\ UNCHANGED <<ed, timer, chain, old, load, copy, work, count>>
\* Nobody waits for the answer of one that was left.
LeftServed == \E o \in left :
  /\ left' = left \ {o} /\ srv' = Outcome(o).srv
  /\ UNCHANGED <<ed, timer, chain, old, op, load, copy, work, count>>
\* The request is lost, or the answer to one that was served.
OpLost ==
  /\ op # Nil /\ op.step \in {"sent", "ok"} /\ count.events < MaxEvents
  /\ op' = [op EXCEPT !.step = "no"] /\ count' = [count EXCEPT !.events = @ + 1]
  /\ UNCHANGED <<srv, ed, timer, chain, old, load, copy, work>>

\* adoptSharedDraft, and what restoreRevision does with its answer
Adopted(ws) ==
  [ed EXCEPT !.ws = ws, !.text = TextOf(ws.ver), !.saved = ws.ver, !.shown = ws.ver, !.unsaved = FALSE,
     !.conflict = 0, !.pick = Nil, !.state = "SAVED", !.offer = Nil]
Adopt(ws) ==
  /\ copy' = Retained(Adopted(ws))
  /\ ed' = [Adopted(ws) EXCEPT !.offer = copy']
  /\ work' = IF op.kind = "changes" THEN work ELSE [work EXCEPT !.text = 0]
Busy == timer # Nil \/ chain # <<>> \/ old # <<>>
OpAnswered ==
  /\ op # Nil /\ op.step \in {"ok", "no"}
  /\ (op.kind \in {"restore", "shared", "changes"} /\ Busy) => "pending" \in Slips
  /\ op' = IF op.kind = "freeze" /\ op.step = "ok" THEN [op EXCEPT !.step = "poll"] ELSE Nil
  /\ IF op.step = "no" THEN UNCHANGED <<ed, copy, work>>
     ELSE CASE op.kind = "sign" ->
                 /\ ed' = [ed EXCEPT !.ws.signed = op.ws.signed, !.form = 0, !.offer = Nil]
                 /\ copy' = Retained(ed') /\ work' = [work EXCEPT !.form = 0]
            [] op.kind = "freeze" -> ed' = Fetched(ed, [ed.ws EXCEPT !.job = op.ws.job]) /\ UNCHANGED <<copy, work>>
            [] op.kind = "file" ->
                 ed' = [Fetched(ed, [ed.ws EXCEPT !.frozen = Filed(@, op.arg)]) EXCEPT !.pick = Nil] /\ UNCHANGED <<copy, work>>
            [] op.kind \in {"restore", "shared", "changes"} -> Adopt(op.ws)
  /\ UNCHANGED <<srv, timer, chain, old, load, count>>
\* trackFreezeJob: ask again until the worker is done, then fetch the draft.
\* A poll that fails ends the wait; the job goes on.
Poll ==
  /\ op # Nil /\ op.step = "poll"
  /\ op' = Nil
  /\ \/ srv.job.st # "QUEUED" /\ ed' = Fetched(ed, View) /\ UNCHANGED count
     \/ count.events < MaxEvents /\ count' = [count EXCEPT !.events = @ + 1] /\ UNCHANGED ed
  /\ UNCHANGED <<srv, timer, chain, old, load, copy, work>>
-----------------------------------------------------------------------------
(* Colleagues, the worker, and the analyst coming and going                 *)
Others(s) ==
  /\ count.events < MaxEvents /\ count' = [count EXCEPT !.events = @ + 1]
  /\ srv' = s
  /\ UNCHANGED <<ed, timer, chain, old, op, load, copy, work>>
ColleagueSaves == Others(Appended(MaxEdits + count.events + 1))
ColleagueFreezes ==
  Head_ # 0 /\ Others([srv EXCEPT !.signed = Head_, !.frozen = @ \cup {[ver |-> Head_, st |-> "FROZEN", mine |-> FALSE]}])
WorkerPublishes ==
  /\ srv.job # Nil /\ srv.job.st = "QUEUED"
  /\ srv' \in {[srv EXCEPT !.job.st = "FAILED"],
               [srv EXCEPT !.job.st = "PUBLISHED", !.frozen = @ \cup {[ver |-> srv.job.ver, st |-> "FROZEN", mine |-> TRUE]}]}
  /\ UNCHANGED <<ed, timer, chain, old, op, load, copy, work, count>>

\* What a save under way has done when nobody waits for its answer any more.
Unheard(c) == IF c # <<>> /\ c[1].step = "sent" /\ c[1].ver = Head_
              THEN {srv, Appended(c[1].text)} ELSE {srv}
GivenUp ==
  /\ op' = Nil
  /\ left' = left \cup IF op # Nil /\ op.step = "sent" THEN {[kind |-> op.kind, arg |-> op.arg, no |-> count.clicks]} ELSE {}
\* switchPathway, confirmed where work is unsaved; the copy stays.
Leave ==
  /\ Loaded /\ count.events < MaxEvents
  /\ ed' = [ed EXCEPT !.here = FALSE, !.gen = 0, !.unsaved = FALSE]
  /\ timer' = Nil /\ chain' = <<>> /\ old' = old \o chain
  /\ GivenUp
  /\ count' = [count EXCEPT !.events = @ + 1]
  /\ UNCHANGED <<srv, load, copy, work>>
Return ==
  /\ ~ed.here /\ (old # <<>> => "return" \in Slips)
  /\ ed' = [NoEditor EXCEPT !.ws = ed.ws, !.shown = ed.shown] /\ load' = [step |-> "sent"]
  /\ UNCHANGED <<srv, timer, chain, old, op, copy, work, count>>
Reload ==
  /\ count.events < MaxEvents /\ count' = [count EXCEPT !.events = @ + 1]
  /\ ed' = [NoEditor EXCEPT !.shown = ed.shown] /\ load' = [step |-> "sent"] /\ timer' = Nil /\ chain' = <<>> /\ old' = <<>>
  /\ srv' \in Unheard(chain) \cup Unheard(old)
  /\ GivenUp
  /\ UNCHANGED <<copy, work>>

StayNext ==
  \/ LoadReads \/ LoadLands
  \/ Edit \/ TypeOpinion \/ TimerFires \/ Retry
  \/ ChainSends \/ ChainServed \/ ChainLands \/ OldGoesOn
  \/ RetryOver \/ ApplyRecovery \/ DiscardRecovery
  \/ SignOpinion \/ Freeze \/ RestoreRevision \/ AcceptShared \/ SelectFrozen \/ FileFrozen \/ RequestChanges
  \/ OpServed \/ OpLost \/ OpAnswered \/ Poll
  \/ ColleagueSaves \/ ColleagueFreezes \/ WorkerPublishes
  \/ Return
ReportNext == (StayNext /\ UNCHANGED left) \/ LeftServed \/ Leave \/ Reload
-----------------------------------------------------------------------------
Texts == 0..(MaxEdits + MaxEvents)
EditorTypeOK ==
  /\ srv \in [revs : Seq(Texts), signed : 0..Head_, job : FreezeJobs \cup {Nil}, frozen : SUBSET Outputs]
  /\ ed \in Editors /\ ed.text \in Texts /\ {ed.saved, ed.shown, ed.conflict} \subseteq 0..Head_
  /\ timer \in Autosaves \cup {Nil} /\ chain \in Seq(Saves) /\ old \in Seq(Saves)
  /\ op \in Operations \cup {Nil} /\ load \in Fetches \cup {Nil} /\ copy \in Copies \cup {Nil}
  /\ count \in [edits : 0..MaxEdits, forms : 0..MaxForms, clicks : 0..MaxClicks, events : 0..MaxEvents]
  /\ work \in [text : 0..count.edits, form : 0..count.forms]
ReportTypeOK == EditorTypeOK /\ left \subseteq Orders

\* What the analyst typed last is on the screen, in the browser's copy or on
\* the server until the analyst gives it up: no answer, conflict, reload or
\* change of pathway takes it away (retainRecovery, applyRecovery).
Somewhere(t) ==
  \/ t = 0
  \/ ed.here /\ load = Nil /\ ed.text = t
  \/ copy # Nil /\ copy.text = t
  \/ \E v \in 1..Head_ : srv.revs[v] = t
WorkIsKept ==
  /\ Somewhere(work.text)
  /\ work.form = 0 \/ (ed.here /\ ed.form = work.form) \/ (copy # Nil /\ copy.form = work.form)

\* While there is unsaved work on the screen, not given up by discarding its
\* copy, the browser holds a copy of it: a crash of the tab costs nothing.
Unguarded == (ed.unsaved /\ ed.text = work.text /\ work.text # 0) \/ (ed.form = work.form /\ work.form # 0)
CopyGuards == Loaded /\ Unguarded => copy # Nil /\ copy.text = ed.text /\ copy.form = ed.form

\* An editor that says it is saving, or about to, has something under way.
SavingHasWork == ed.here /\ load = Nil /\ ed.state \in {"DIRTY", "SAVING"} => timer # Nil \/ chain # <<>>

\* The saves of one editor never conflict with each other.
NoFalseConflict == ed.state = "CONFLICT" => count.events > 0
ReportIsSound == NoFalseConflict /\ ReportTypeOK /\ WorkIsKept /\ CopyGuards /\ SavingHasWork

\* What the editor saves replaces only revisions the analyst has had on screen,
\* made or chose to replace: a colleague's is never overwritten unseen.
NoBlindOverwrite == op' = op /\ left' = left =>
  \A v \in (Head_ + 1)..Len(srv'.revs) : Mine(srv'.revs[v]) =>
    \A u \in (ed.shown + 1)..(v - 1) : Mine(srv'.revs[u])
\* What the analyst has queued for freezing is what the screen shows as the saved draft,
\* with no word of draft or opinion unsaved.
FreezesTheScreen ==
  srv'.job # srv.job /\ srv'.job.st = "QUEUED" /\ left' = left =>
    ed.text = srv.revs[srv'.job.ver] /\ ~ed.unsaved /\ ed.form = 0 /\ srv'.job.ver = Head_ /\ srv.signed = Head_
ReportSteps == NoBlindOverwrite /\ FreezesTheScreen
=============================================================================
