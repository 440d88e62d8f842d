------------------------- MODULE ForecastDraftProofs -------------------------
(***************************************************************************)
(* What the forecast editor shows, signs and keeps, for every roster of    *)
(* slots and values and any number of moves of the server.                 *)
(*                                                                         *)
(* Soundness of the preview is not inductive: that one of the draft's      *)
(* generation shows the draft's rows rests on what was asked for it, on    *)
(* the debounce that asks, which may outlive the authority it was set for, *)
(* and on the order in which two rounds of requests read a server that     *)
(* only grows.  Strong says these: what was read begins what the server    *)
(* has (ViewIsRead, LoadIsLater, AuthorityIsRead), whose every answer,     *)
(* call, timer and save is (...OfTheDraft), what a busy button waits for   *)
(* (BusyHasCause) and when unsaved changes may count as saved              *)
(* (DirtyIsMarked).                                                        *)
(***************************************************************************)
EXTENDS MCModelPage, SequenceTheorems, TLAPS
-----------------------------------------------------------------------------
\* What a page holds of a history that only grows: a beginning of it.
Begins(a, b) == Len(a) <= Len(b) /\ \A k \in 1..Len(a) : a[k] = b[k]
\* An answer read at build b, ready or not, is not ahead of the server, and a
\* build that was ready once stays so.
Behind(b, ready) == b <= srv.build /\ (ready /\ b = srv.build => srv.ready)
\* One reading is older than another, on the page's time: the builds count up
\* and each is first not ready, then ready.
NotAfter(v, b, ready) == v.build <= b /\ (v.ready /\ ~ready => v.build < b)

ServerCounts == srv.build <= srv.moves + 1 /\ 0 < srv.build
\* The view is a state the server was in; the key is the view's.
ViewIsRead ==
  /\ Begins(ui.view.revs, srv.revs) /\ Behind(ui.view.build, ui.view.ready)
  /\ ~ui.view.ready => ui.view.revs = <<>>
  /\ ui.key = Key(ui.view) \/ (ui.key = <<>> /\ ui.view = NoView)
\* A refresh in flight holds nothing older than what is on screen.
LoadIsLater ==
  load # None =>
    /\ load.step = "builds" => load.revs = <<>>
    /\ load.step = "revisions" => load.ready /\ load.revs = <<>>
    /\ load.step # "builds" => Behind(load.build, load.ready) /\ NotAfter(ui.view, load.build, load.ready)
    /\ load.step = "land" /\ ~load.ready => load.revs = <<>>
    /\ load.step = "land" /\ load.ready =>
         /\ Begins(load.revs, srv.revs) /\ Len(ui.view.revs) <= Len(load.revs)
         /\ ui.authority # None => ui.authority.head <= Len(load.revs)
\* The revision active at a head, on a build.
ActiveAt(build, head) == IF head # 0 /\ srv.revs[head].build = build THEN head ELSE 0
\* The draft's authority was one of the server's; its parent follows from its head.
AuthorityIsRead ==
  ui.authority # None =>
    /\ ui.authority.head <= Len(srv.revs) /\ ui.authority.parent = ActiveAt(ui.authority.build, ui.authority.head)
    /\ ui.view.ready => ui.authority.head <= Len(ui.view.revs)
OfTheDraft(p) == p.rows = ui.draft /\ ui.authority # None /\ p.build = ui.authority.build
\* A preview of this generation, and any tornado, was calculated from the draft.
ResultsAreOfTheDraft ==
  /\ ui.preview # None => ui.preview.gen <= ui.gen /\ (ui.preview.gen = ui.gen => OfTheDraft(ui.preview))
  /\ ui.tornado # None => OfTheDraft(ui.tornado)
  /\ ui.rebase # None => ui.draft # None
\* So is every calculation that somebody still waits for.
CallsAreOfTheDraft ==
  \A k \in DOMAIN calcs :
    /\ calcs[k].kind \in {"preview", "tornado"} => calcs[k].gen = ui.gen /\ OfTheDraft(calcs[k])
    /\ calcs[k].kind = "rebase" => ui.draft # None
\* The debounce either holds the draft of today, or was set for an authority
\* the draft has left behind.
LeftBehind(t) == ui.authority = None \/ t.build < ui.authority.build \/ (t.build = ui.authority.build /\ t.head < ui.authority.head)
TimerIsOfTheDraft ==
  ui.timer # None =>
    /\ (ui.timer.gen = ui.gen /\ ui.timer.rows = ui.draft) \/ LeftBehind(ui.timer)
    /\ ui.timer.build < ui.view.build
         \/ (ui.view.ready /\ ui.timer.build = ui.view.build /\ ui.timer.head <= Len(ui.view.revs))
\* A sign-off whose answer counts carries what was shown, and the draft is still that.
SaveIsOfTheDraft ==
  save # None =>
    /\ save.rows = save.shown /\ (save.step = "ok" => save.rows \in saved)
    /\ save.gen = ui.gen /\ save.rows = ui.draft
\* "Saving" outlives its sign-off only while no preview can become current.
BusyHasCause ==
  /\ ui.pending = "preview" => \E k \in DOMAIN calcs : calcs[k].kind = "preview"
  /\ ui.pending = "sign-off" =>
       \/ save # None
       \/ /\ \A k \in DOMAIN calcs : calcs[k].kind # "preview"
          /\ ~(ui.preview # None /\ ui.preview.gen = ui.gen)
\* Changes that a refresh may overwrite are saved ones.
DirtyIsMarked == Dirty /\ ~ui.dirty => ui.draft \in saved
Strong ==
  /\ DraftTypeOK /\ ServerCounts /\ ViewIsRead /\ LoadIsLater /\ AuthorityIsRead /\ ResultsAreOfTheDraft
  /\ CallsAreOfTheDraft /\ TimerIsOfTheDraft /\ SaveIsOfTheDraft /\ BusyHasCause /\ DirtyIsMarked
\* Those overtaken are only typed: to the page they are another's sign-off.
Inductive == Strong /\ late \subseteq Orders
-----------------------------------------------------------------------------
(* The queue *)
LEMMA DeadCalls ==
  ASSUME NEW seq \in Seq(Calls), NEW kinds
  PROVE  /\ Dead(seq, kinds) \in Seq(Calls) /\ Len(Dead(seq, kinds)) = Len(seq)
         /\ DOMAIN Dead(seq, kinds) = DOMAIN seq
         /\ \A k \in DOMAIN seq : IF seq[k].kind \in kinds THEN Dead(seq, kinds)[k].kind = "late"
                                  ELSE Dead(seq, kinds)[k] = seq[k]
<1>1. DOMAIN seq = 1..Len(seq) /\ Len(seq) \in Nat
  BY LenProperties
<1>2. \A k \in 1..Len(seq) : seq[k] \in Calls
  BY <1>1, ElementOfSeq
<1>3. Late \in Calls /\ Late.kind = "late"
  BY DEF Late, Calls
<1>4. Dead(seq, kinds) = [k \in 1..Len(seq) |-> IF seq[k].kind \in kinds THEN Late ELSE seq[k]]
  BY <1>1 DEF Dead
<1>5. \A k \in 1..Len(seq) : (IF seq[k].kind \in kinds THEN Late ELSE seq[k]) \in Calls
  BY <1>2, <1>3
<1>6. Dead(seq, kinds) \in Seq(Calls) /\ Len(Dead(seq, kinds)) = Len(seq)
  <2> DEFINE Entry(k) == IF seq[k].kind \in kinds THEN Late ELSE seq[k]
  <2>1. \A k \in 1..Len(seq) : Entry(k) \in Calls
    BY <1>5
  <2>2. [k \in 1..Len(seq) |-> Entry(k)] \in Seq(Calls)
    <3> HIDE DEF Entry
    <3> QED BY <1>1, <2>1, IsASeq
  <2>3. Dead(seq, kinds) \in Seq(Calls) /\ DOMAIN Dead(seq, kinds) = 1..Len(seq)
    BY <1>4, <2>2
  <2> QED BY <1>1, <2>3, LenProperties
<1> QED BY <1>1, <1>3, <1>4, <1>6

\* The queue with one more at its end, which takes the place of those of its kind.
Extended(asked, rows, gen, build, kind) ==
  /\ asked \in Seq(Calls) /\ DOMAIN asked = 1..(Len(calcs) + 1)
  /\ \A k \in 1..Len(calcs) :
       /\ calcs[k].kind = kind => asked[k].kind = "late"
       /\ calcs[k].kind # kind => asked[k] = calcs[k]
  /\ asked[Len(calcs) + 1].kind = kind /\ asked[Len(calcs) + 1].gen = gen
  /\ asked[Len(calcs) + 1].rows = rows /\ asked[Len(calcs) + 1].build = build
LEMMA AskCalls ==
  ASSUME DraftTypeOK, NEW rows \in Rows, NEW gen \in Nat, NEW build \in Nat, NEW parent \in Nat, NEW kind \in AllCalcs
  PROVE  Extended(Ask(rows, gen, build, parent, kind), rows, gen, build, kind)
<1> DEFINE call == [kind |-> kind, build |-> build, parent |-> parent, gen |-> gen, rows |-> rows, key |-> ui.key]
<1>1. call \in Calls
  BY DEF DraftTypeOK, Editors, Authorities, Calls
<1>2. calcs \in Seq(Calls) /\ DOMAIN calcs = 1..Len(calcs) /\ Len(calcs) \in Nat
  BY LenProperties DEF DraftTypeOK
<1>3. Dead(calcs, {kind}) \in Seq(Calls) /\ Len(Dead(calcs, {kind})) = Len(calcs)
  BY <1>2, DeadCalls
<1>4. \A k \in 1..Len(calcs) : IF calcs[k].kind = kind THEN Dead(calcs, {kind})[k].kind = "late"
                               ELSE Dead(calcs, {kind})[k] = calcs[k]
  BY <1>2, DeadCalls
<1> DEFINE asked == Ask(rows, gen, build, parent, kind)
<1>5. asked = Append(Dead(calcs, {kind}), call)
  BY DEF Ask
<1>6. /\ call.kind = kind /\ call.gen = gen /\ call.rows = rows /\ call.build = build
  OBVIOUS
<1> DEFINE dead == Dead(calcs, {kind})
<1> HIDE DEF call, dead, asked
<1>7. dead \in Seq(Calls) /\ Len(dead) = Len(calcs)
  BY <1>3 DEF dead
<1>8. /\ Append(dead, call) \in Seq(Calls)
      /\ Len(Append(dead, call)) = Len(calcs) + 1
      /\ \A k \in 1..Len(calcs) : Append(dead, call)[k] = dead[k]
      /\ Append(dead, call)[Len(calcs) + 1] = call
  BY <1>1, <1>7, AppendProperties
<1>9. DOMAIN Append(dead, call) = 1..(Len(calcs) + 1)
  BY <1>8, LenProperties
<1>10. Extended(asked, rows, gen, build, kind)
  BY <1>2, <1>4, <1>5, <1>6, <1>8, <1>9 DEF dead, Extended
<1> QED BY <1>10 DEF asked

LEMMA TailCalls ==
  ASSUME calcs \in Seq(Calls), calcs # <<>>
  PROVE  /\ Tail(calcs) \in Seq(Calls) /\ calcs[1] \in Calls /\ 1 \in DOMAIN calcs
         /\ \A k \in DOMAIN Tail(calcs) : k + 1 \in DOMAIN calcs /\ Tail(calcs)[k] = calcs[k + 1]
         /\ \A k \in DOMAIN calcs : k = 1 \/ (k - 1 \in DOMAIN Tail(calcs) /\ Tail(calcs)[k - 1] = calcs[k])
  BY HeadTailProperties, LenProperties, ElementOfSeq

-----------------------------------------------------------------------------
LEMMA Bounds ==
  /\ None \notin Rows /\ None \notin Authorities /\ None \notin Results /\ None \notin Timers
  /\ None \notin Loads /\ None \notin Saves /\ None # "sign-off"
  /\ Defaults \in Rows /\ Theirs \subseteq Rows /\ Entries \subseteq Values
  /\ MaxMoves \in Nat /\ MaxEdits \in Nat /\ MaxCalcs \in Nat
BY ForecastAssumption

LEMMA EditorFields ==
  ASSUME NEW u \in Editors
  PROVE  /\ u.view.build \in Nat /\ u.view.ready \in BOOLEAN /\ u.view.revs \in Seq(Revisions) /\ u.view \in Views
         /\ u.key \in Seq(Nat) /\ u.baseline \in Forecast /\ u.draft \in Forecast /\ u.gen \in Nat /\ u.edits \in Nat
         /\ u.authority \in Authorities \cup {None} /\ u.preview \in Results \cup {None}
         /\ u.tornado \in Results \cup {None} /\ u.rebase \in Results \cup {None} /\ u.timer \in Timers \cup {None}
         /\ u.conflict \in BOOLEAN /\ u.dirty \in BOOLEAN /\ u.pending \in {"", "preview", "sign-off", "rebase"}
  BY DEF Editors, Views

LEMMA InitStrong == Init => Strong
<1> SUFFICES ASSUME Init PROVE Strong
  OBVIOUS
<1>1. <<>> \in Seq(Revisions) /\ <<>> \in Seq(Nat) /\ <<>> \in Seq(Calls) /\ Len(<<>>) = 0
  BY EmptySeq
<1>2. /\ ui.view = NoView /\ ui.key = <<>> /\ ui.baseline = None /\ ui.draft = None /\ ui.authority = None
      /\ ui.preview = None /\ ui.tornado = None /\ ui.rebase = None /\ ui.pending = "" /\ ~ui.dirty /\ ui.timer = None
  BY DEF Init
<1>3. ui \in Editors
  <2>1. NoView \in Views
    BY <1>1 DEF NoView, Views
  <2> QED BY <1>1, <2>1 DEF Init, Editors, Forecast
<1>4. load \in Loads /\ load # None /\ load.step = "builds" /\ load.revs = <<>>
  <2>1. load \in Loads /\ load.step = "builds" /\ load.revs = <<>>
    BY <1>1 DEF Init, Loads, Asked
  <2> QED BY <2>1, ForecastAssumption
<1>8. srv.build = 1 /\ srv.moves = 0 /\ srv.revs = <<>> /\ srv.ready /\ calcs = <<>>
  BY DEF Init
<1>5. srv \in [build : 1..(MaxMoves + 1), ready : BOOLEAN, revs : Seq(Revisions), moves : 0..MaxMoves]
  <2>1. srv = [build |-> 1, ready |-> TRUE, revs |-> <<>>, moves |-> 0]
    BY DEF Init
  <2>2. 1 \in 1..(MaxMoves + 1) /\ 0 \in 0..MaxMoves
    BY Bounds
  <2> QED BY <1>1, <2>1, <2>2
<1>6. calcs \in Seq(Calls) /\ save = None /\ saved \subseteq Rows
  BY <1>1 DEF Init
<1>7. DraftTypeOK
  BY <1>2, <1>3, <1>4, <1>5, <1>6 DEF DraftTypeOK
<1>9. ServerCounts /\ ViewIsRead
  <2>1. ui.view.revs = <<>> /\ ui.view.build = 0 /\ ~ui.view.ready
    <3>1. ui.view = NoView
      BY <1>2
    <3>2. ui.view.revs = <<>>
      BY <3>1 DEF NoView
    <3>3. ui.view.build = 0
      BY <3>1 DEF NoView
    <3>4. ~ui.view.ready
      BY <3>1 DEF NoView
    <3> QED BY <3>2, <3>3, <3>4
  <2>2. Begins(ui.view.revs, srv.revs) /\ Behind(ui.view.build, ui.view.ready)
    BY <1>1, <1>8, <2>1 DEF Begins, Behind
  <2>3. ServerCounts
    BY <1>8 DEF ServerCounts
  <2> QED BY <1>2, <2>1, <2>2, <2>3 DEF ViewIsRead
<1>10. LoadIsLater /\ AuthorityIsRead /\ ResultsAreOfTheDraft /\ TimerIsOfTheDraft /\ SaveIsOfTheDraft
  BY <1>2, <1>4, <1>6 DEF LoadIsLater, AuthorityIsRead, ResultsAreOfTheDraft, TimerIsOfTheDraft, SaveIsOfTheDraft
<1>11. CallsAreOfTheDraft /\ BusyHasCause /\ DirtyIsMarked
  <2>1. CallsAreOfTheDraft
    BY <1>8 DEF CallsAreOfTheDraft
  <2>2. BusyHasCause
    BY <1>2 DEF BusyHasCause
  <2>3. DirtyIsMarked
    BY <1>2 DEF DirtyIsMarked, Dirty, Changes
  <2> QED BY <2>1, <2>2, <2>3
<1> QED BY <1>7, <1>9, <1>10, <1>11 DEF Strong

\* What invalidatePreview and the debounce leave of the editor.
LEMMA Edits ==
  ASSUME NEW u \in Editors, NEW rows \in Rows, NEW next, next = Debounced(Invalidated(u, rows), rows)
  PROVE  next \in Editors
<1>1. HeadOf(u.view) \in Nat /\ u.view.build \in Nat /\ u.view.ready \in BOOLEAN
  BY EditorFields, LenProperties DEF HeadOf
<1>3. rows \in Forecast /\ u.gen + 1 \in Nat /\ u.edits + 1 \in Nat
  <2>1. u.gen \in Nat /\ u.edits \in Nat
    BY EditorFields
  <2> QED BY <2>1 DEF Forecast
<1> DEFINE t == [rows |-> rows, gen |-> u.gen + 1, build |-> u.view.build, ready |-> u.view.ready, head |-> HeadOf(u.view)]
           d == Changes(u.baseline, rows) # {}
           p == IF u.pending = "preview" THEN "" ELSE u.pending
<1>4. t \in Timers
  BY <1>1, <1>3 DEF Timers
<1>5. p \in {"", "preview", "sign-off", "rebase"}
  BY EditorFields
<1>6. d \in BOOLEAN
  OBVIOUS
<1>7. next = [u EXCEPT !.gen = u.gen + 1, !.draft = rows, !.tornado = None, !.edits = u.edits + 1, !.dirty = d,
                       !.pending = p, !.timer = t]
  BY DEF Debounced, Invalidated, Editors
<1>8. \A g \in Nat, e \in Nat :
        [u EXCEPT !.gen = g, !.draft = rows, !.tornado = None, !.edits = e, !.dirty = d, !.pending = p, !.timer = t]
          \in Editors
  <2> HIDE DEF t, d, p
  <2> QED BY <1>3, <1>4, <1>5, <1>6 DEF Editors
<1>9. next \in Editors
  <2> HIDE DEF t, d, p
  <2> QED BY <1>3, <1>7, <1>8
<1> QED BY <1>9

-----------------------------------------------------------------------------
(* What a step that lets the draft and its authority stand does not disturb. *)
SameDraft ==
  /\ ui'.view = ui.view /\ ui'.key = ui.key /\ ui'.authority = ui.authority
  /\ ui'.baseline = ui.baseline /\ ui'.draft = ui.draft /\ ui'.gen = ui.gen

LEMMA Frames ==
  ASSUME Strong, SameDraft
  PROVE  /\ srv' = srv => ServerCounts' /\ ViewIsRead' /\ AuthorityIsRead'
         /\ srv' = srv /\ load' = load => LoadIsLater'
         /\ ui'.timer = ui.timer => TimerIsOfTheDraft'
         /\ save' = save /\ saved' = saved => SaveIsOfTheDraft'
         /\ ui'.dirty = ui.dirty /\ saved \subseteq saved' => DirtyIsMarked'
         /\ calcs' = calcs => CallsAreOfTheDraft'
         /\ ui'.preview = ui.preview /\ ui'.tornado = ui.tornado /\ ui'.rebase = ui.rebase => ResultsAreOfTheDraft'
<1>1. ASSUME srv' = srv PROVE ServerCounts' /\ ViewIsRead' /\ AuthorityIsRead'
  BY <1>1 DEF Strong, SameDraft, ServerCounts, ViewIsRead, AuthorityIsRead, Begins, Behind, ActiveAt, Key
<1>2. ASSUME srv' = srv, load' = load PROVE LoadIsLater'
  BY <1>2 DEF Strong, SameDraft, LoadIsLater, Begins, Behind, NotAfter
<1>3. ASSUME ui'.timer = ui.timer PROVE TimerIsOfTheDraft'
  BY <1>3 DEF Strong, SameDraft, TimerIsOfTheDraft, LeftBehind
<1>4. ASSUME save' = save, saved' = saved PROVE SaveIsOfTheDraft'
  BY <1>4 DEF Strong, SameDraft, SaveIsOfTheDraft
<1>5. ASSUME ui'.dirty = ui.dirty, saved \subseteq saved' PROVE DirtyIsMarked'
  BY <1>5 DEF Strong, SameDraft, DirtyIsMarked, Dirty, Changes
<1>6. ASSUME calcs' = calcs PROVE CallsAreOfTheDraft'
  BY <1>6 DEF Strong, SameDraft, CallsAreOfTheDraft, OfTheDraft
<1>7. ASSUME ui'.preview = ui.preview, ui'.tornado = ui.tornado, ui'.rebase = ui.rebase PROVE ResultsAreOfTheDraft'
  BY <1>7 DEF Strong, SameDraft, ResultsAreOfTheDraft, OfTheDraft
<1> QED BY <1>1, <1>2, <1>3, <1>4, <1>5, <1>6, <1>7

LEMMA UntouchedEditor ==
  ASSUME Strong, ui' = ui
  PROVE  /\ SameDraft /\ TimerIsOfTheDraft' /\ ResultsAreOfTheDraft'
         /\ calcs' = calcs /\ save' = save => BusyHasCause'
  BY Frames DEF Strong, SameDraft, BusyHasCause

(* refresh *)
LEMMA RefreshStrong == Strong /\ Refresh => Strong'
<1> SUFFICES ASSUME Strong, Refresh PROVE Strong'
  OBVIOUS
<1>1. UNCHANGED <<srv, ui, calcs, save, saved>> /\ load' = Asked(None)
  BY DEF Refresh
<1>2. load' \in Loads /\ load'.step = "builds" /\ load'.revs = <<>>
  <2>1. <<>> \in Seq(Revisions)
    BY EmptySeq
  <2> QED BY <1>1, <2>1 DEF Asked, Loads
<1>3. DraftTypeOK'
  BY <1>1, <1>2 DEF Strong, DraftTypeOK
<1>4. LoadIsLater'
  BY <1>2 DEF LoadIsLater
<1> QED BY <1>1, <1>3, <1>4, Frames, UntouchedEditor DEF Strong

LEMMA ReadBuildStrong == Strong /\ ReadBuild => Strong'
<1> SUFFICES ASSUME Strong, ReadBuild PROVE Strong'
  OBVIOUS
<1>1. UNCHANGED <<srv, ui, calcs, save, saved>> /\ load # None /\ load.step = "builds" /\ load \in Loads /\ load.revs = <<>>
  BY DEF ReadBuild, Strong, DraftTypeOK, LoadIsLater
<1>2. load' = [load EXCEPT !.step = IF srv.ready THEN "revisions" ELSE "land", !.build = srv.build, !.ready = srv.ready]
  BY DEF ReadBuild
<1>3. /\ load'.step = IF srv.ready THEN "revisions" ELSE "land"
      /\ load'.build = srv.build /\ load'.ready = srv.ready /\ load'.revs = <<>>
  BY <1>1, <1>2 DEF Loads
<1>4. srv.build \in Nat /\ srv.ready \in BOOLEAN
  BY DEF Strong, DraftTypeOK
<1>5. load' \in Loads
  BY <1>1, <1>2, <1>4 DEF Loads
<1>6. DraftTypeOK'
  BY <1>1, <1>5 DEF Strong, DraftTypeOK
<1>7. Behind(srv.build, srv.ready) /\ NotAfter(ui.view, srv.build, srv.ready)
  <2>1. ui.view.build \in Nat
    BY EditorFields DEF Strong, DraftTypeOK
  <2> QED BY <1>4, <2>1 DEF Strong, ViewIsRead, Behind, NotAfter
<1>8. LoadIsLater'
  BY <1>1, <1>3, <1>7 DEF LoadIsLater, Behind, NotAfter
<1> QED BY <1>1, <1>6, <1>8, Frames, UntouchedEditor DEF Strong

LEMMA ReadRevisionsStrong == Strong /\ ReadRevisions => Strong'
<1> SUFFICES ASSUME Strong, ReadRevisions PROVE Strong'
  OBVIOUS
<1>1. UNCHANGED <<srv, ui, calcs, save, saved>> /\ load # None /\ load.step = "revisions" /\ load \in Loads /\ load.ready
  BY DEF ReadRevisions, Strong, DraftTypeOK, LoadIsLater
<1>2. load' = [load EXCEPT !.step = "land", !.revs = srv.revs]
  BY DEF ReadRevisions
<1>3. load'.step = "land" /\ load'.build = load.build /\ load'.ready = load.ready /\ load'.revs = srv.revs
  BY <1>1, <1>2 DEF Loads
<1>4. srv.revs \in Seq(Revisions)
  BY DEF Strong, DraftTypeOK
<1>5. load' \in Loads
  BY <1>1, <1>2, <1>4 DEF Loads
<1>6. DraftTypeOK'
  BY <1>1, <1>5 DEF Strong, DraftTypeOK
<1>7. /\ Begins(srv.revs, srv.revs) /\ Len(ui.view.revs) <= Len(srv.revs)
      /\ ui.authority # None => ui.authority.head <= Len(srv.revs)
  <2>1. Len(srv.revs) \in Nat
    BY <1>4, LenProperties
  <2> QED BY <2>1 DEF Strong, ViewIsRead, AuthorityIsRead, Begins
<1>8. LoadIsLater'
  BY <1>1, <1>3, <1>7 DEF Strong, LoadIsLater, Behind, NotAfter, Begins
<1> QED BY <1>1, <1>6, <1>8, Frames, UntouchedEditor DEF Strong

-----------------------------------------------------------------------------
(* The server moves; what was read of it stays a beginning of it. *)
LEMMA Grows ==
  ASSUME Strong, NEW rev \in Revisions, UNCHANGED <<ui, load>>,
         srv'.revs = Append(srv.revs, rev), srv'.build = srv.build, srv'.ready = srv.ready
  PROVE  ViewIsRead' /\ LoadIsLater' /\ AuthorityIsRead' /\ srv'.revs \in Seq(Revisions)
<1>1. srv.revs \in Seq(Revisions) /\ Len(srv.revs) \in Nat /\ ui.view.revs \in Seq(Revisions) /\ Len(ui.view.revs) \in Nat
  BY EditorFields, LenProperties DEF Strong, DraftTypeOK
<1>2. /\ Len(srv'.revs) = Len(srv.revs) + 1 /\ srv'.revs \in Seq(Revisions)
      /\ \A k \in 1..Len(srv.revs) : srv'.revs[k] = srv.revs[k]
  BY <1>1, AppendProperties
<1>3. ASSUME NEW a \in Seq(Revisions), Begins(a, srv.revs) PROVE Begins(a, srv'.revs)
  <2>1. Len(a) \in Nat
    BY LenProperties
  <2> QED BY <1>1, <1>2, <1>3, <2>1 DEF Begins
<1>4. ViewIsRead'
  <2>1. Begins(ui.view.revs, srv'.revs)
    BY <1>1, <1>3 DEF Strong, ViewIsRead
  <2> QED BY <2>1 DEF Strong, ViewIsRead, Behind
<1>5. LoadIsLater'
  <2>1. ASSUME load # None, load.step = "land", load.ready PROVE Begins(load.revs, srv'.revs)
    <3>1. load.revs \in Seq(Revisions)
      BY <2>1 DEF Strong, DraftTypeOK, Loads
    <3> QED BY <1>3, <2>1, <3>1 DEF Strong, LoadIsLater
  <2> QED BY <2>1 DEF Strong, LoadIsLater, Behind, NotAfter
<1>6. AuthorityIsRead'
  <2> SUFFICES ASSUME ui.authority # None
               PROVE  /\ ui.authority.head <= Len(srv'.revs)
                      /\ ui.authority.parent = (IF ui.authority.head # 0 /\ srv'.revs[ui.authority.head].build = ui.authority.build
                                                THEN ui.authority.head ELSE 0)
                      /\ ui.view.ready => ui.authority.head <= Len(ui.view.revs)
    BY DEF AuthorityIsRead, ActiveAt
  <2>1. ui.authority.head \in Nat
    BY EditorFields DEF Strong, DraftTypeOK, Authorities
  <2>2. ui.authority.head <= Len(srv.revs) /\ (ui.view.ready => ui.authority.head <= Len(ui.view.revs))
    BY DEF Strong, AuthorityIsRead
  <2>3. ui.authority.head # 0 => srv'.revs[ui.authority.head] = srv.revs[ui.authority.head]
    BY <1>1, <1>2, <2>1, <2>2
  <2> QED BY <1>1, <1>2, <2>1, <2>2, <2>3 DEF Strong, AuthorityIsRead, ActiveAt
<1> QED BY <1>2, <1>4, <1>5, <1>6

LEMMA ColleagueSavesStrong == Strong /\ ColleagueSaves => Strong'
<1> SUFFICES ASSUME Strong, ColleagueSaves PROVE Strong'
  OBVIOUS
<1> PICK rows \in Theirs : srv' = [srv EXCEPT !.revs = Append(@, [build |-> srv.build, rows |-> rows]), !.moves = @ + 1]
  BY DEF ColleagueSaves
<1> DEFINE rev == [build |-> srv.build, rows |-> rows]
<1>1. UNCHANGED <<ui, load, calcs, save, saved>> /\ srv.moves < MaxMoves
  BY DEF ColleagueSaves
<1>2. /\ srv \in [build : 1..(MaxMoves + 1), ready : BOOLEAN, revs : Seq(Revisions), moves : 0..MaxMoves]
      /\ srv.build \in Nat /\ srv.moves \in Nat /\ srv.moves + 1 \in 0..MaxMoves
  BY <1>1, Bounds DEF Strong, DraftTypeOK
<1>3. rev \in Revisions
  BY <1>2, Bounds DEF Revisions
<1>4. srv'.revs = Append(srv.revs, rev) /\ srv'.build = srv.build /\ srv'.ready = srv.ready /\ srv'.moves = srv.moves + 1
  BY <1>2
<1>5. ViewIsRead' /\ LoadIsLater' /\ AuthorityIsRead' /\ Append(srv.revs, rev) \in Seq(Revisions)
  <2> HIDE DEF rev
  <2> QED BY <1>1, <1>3, <1>4, Grows
<1>6. DraftTypeOK'
  <2>1. srv' \in [build : 1..(MaxMoves + 1), ready : BOOLEAN, revs : Seq(Revisions), moves : 0..MaxMoves]
    <3> HIDE DEF rev
    <3>1. srv' = [srv EXCEPT !.revs = Append(srv.revs, rev), !.moves = srv.moves + 1]
      BY DEF rev
    <3> QED BY <1>2, <1>5, <3>1
  <2> QED BY <1>1, <2>1 DEF Strong, DraftTypeOK
<1>7. ServerCounts'
  BY <1>2, <1>4 DEF Strong, ServerCounts
<1> QED BY <1>1, <1>5, <1>6, <1>7, Frames, UntouchedEditor DEF Strong

LEMMA NewBuildStrong == Strong /\ NewBuild => Strong'
<1> SUFFICES ASSUME Strong, NewBuild PROVE Strong'
  OBVIOUS
<1>1. UNCHANGED <<ui, load, calcs, save, saved>> /\ (srv.moves < MaxMoves \/ ~srv.ready)
  BY DEF NewBuild
<1>2. /\ srv \in [build : 1..(MaxMoves + 1), ready : BOOLEAN, revs : Seq(Revisions), moves : 0..MaxMoves]
      /\ srv.build \in Nat /\ srv.moves \in Nat /\ srv.moves <= MaxMoves /\ srv.build <= srv.moves + 1 /\ 0 < srv.build
  BY Bounds DEF Strong, DraftTypeOK, ServerCounts
<1>3. /\ srv' \in [build : 1..(MaxMoves + 1), ready : BOOLEAN, revs : Seq(Revisions), moves : 0..MaxMoves]
      /\ srv'.revs = srv.revs /\ srv'.build <= srv'.moves + 1 /\ 0 < srv'.build
      /\ \/ srv'.build = srv.build /\ srv'.ready
         \/ srv'.build = srv.build + 1 /\ ~srv'.ready
  <2>1. CASE srv.ready
    <3>1. srv' = [srv EXCEPT !.build = srv.build + 1, !.ready = FALSE, !.moves = srv.moves + 1]
      BY <2>1 DEF NewBuild
    <3>2. srv.build + 1 \in 1..(MaxMoves + 1) /\ srv.moves + 1 \in 0..MaxMoves
      BY <1>1, <1>2, <2>1, Bounds
    <3>3. srv'.build = srv.build + 1 /\ srv'.moves = srv.moves + 1 /\ ~srv'.ready /\ srv'.revs = srv.revs
      BY <1>2, <3>1
    <3>4. srv' \in [build : 1..(MaxMoves + 1), ready : BOOLEAN, revs : Seq(Revisions), moves : 0..MaxMoves]
      BY <1>2, <3>1, <3>2
    <3> QED BY <1>2, <3>3, <3>4
  <2>2. CASE ~srv.ready
    <3>1. srv' = [srv EXCEPT !.ready = TRUE]
      BY <2>2 DEF NewBuild
    <3>2. srv'.build = srv.build /\ srv'.moves = srv.moves /\ srv'.ready /\ srv'.revs = srv.revs
      BY <1>2, <3>1
    <3> QED BY <1>2, <3>1, <3>2
  <2> QED BY <2>1, <2>2
<1>4. ASSUME NEW b \in Nat, NEW ready \in BOOLEAN, Behind(b, ready)
      PROVE  b <= srv'.build /\ (ready /\ b = srv'.build => srv'.ready)
  BY <1>2, <1>3, <1>4 DEF Behind
<1>5. ViewIsRead'
  <2>1. ui.view.build \in Nat /\ ui.view.ready \in BOOLEAN
    BY EditorFields DEF Strong, DraftTypeOK
  <2>2. ui.view.build <= srv'.build /\ (ui.view.ready /\ ui.view.build = srv'.build => srv'.ready)
    BY <1>4, <2>1 DEF Strong, ViewIsRead
  <2> QED BY <1>1, <1>3, <2>2 DEF Strong, ViewIsRead, Begins, Behind
<1>6. LoadIsLater'
  <2>1. ASSUME load # None, load.step # "builds"
        PROVE  load.build <= srv'.build /\ (load.ready /\ load.build = srv'.build => srv'.ready)
    <3>1. load.build \in Nat /\ load.ready \in BOOLEAN
      BY <2>1 DEF Strong, DraftTypeOK, Loads
    <3> QED BY <1>4, <2>1, <3>1 DEF Strong, LoadIsLater
  <2> QED BY <1>1, <1>3, <2>1 DEF Strong, LoadIsLater, Begins, Behind, NotAfter
<1>7. DraftTypeOK'
  BY <1>1, <1>3 DEF Strong, DraftTypeOK
<1>8. ServerCounts' /\ AuthorityIsRead'
  BY <1>1, <1>3 DEF Strong, ServerCounts, AuthorityIsRead, ActiveAt
<1> QED BY <1>1, <1>5, <1>6, <1>7, <1>8, Frames, UntouchedEditor DEF Strong

-----------------------------------------------------------------------------
(* signOff *)
\* The server receives a sign-off, one that counts or one overtaken.
LEMMA ServerReceives ==
  ASSUME Strong, NEW o, o.build \in Nat, o.rows \in Rows, Received(o), UNCHANGED <<ui, load, calcs>>
  PROVE  /\ srv' \in [build : 1..(MaxMoves + 1), ready : BOOLEAN, revs : Seq(Revisions), moves : 0..MaxMoves]
         /\ ServerCounts' /\ ViewIsRead' /\ LoadIsLater' /\ AuthorityIsRead' /\ saved' \subseteq Rows /\ saved \subseteq saved'
         /\ Accepted(o) => o.rows \in saved'
<1>0. srv \in [build : 1..(MaxMoves + 1), ready : BOOLEAN, revs : Seq(Revisions), moves : 0..MaxMoves] /\ saved \subseteq Rows
  BY DEF Strong, DraftTypeOK
<1>1. CASE Accepted(o)
  <2> DEFINE rev == [build |-> o.build, rows |-> o.rows]
  <2>1. srv' = [srv EXCEPT !.revs = Append(srv.revs, rev)] /\ saved' = saved \cup {o.rows}
    BY <1>1 DEF Received
  <2>2. rev \in Revisions
    BY DEF Revisions
  <2> HIDE DEF rev
  <2>3. srv'.revs = Append(srv.revs, rev) /\ srv'.build = srv.build /\ srv'.ready = srv.ready /\ srv'.moves = srv.moves
    BY <1>0, <2>1
  <2>4. ViewIsRead' /\ LoadIsLater' /\ AuthorityIsRead' /\ Append(srv.revs, rev) \in Seq(Revisions)
    BY <2>2, <2>3, Grows
  <2>5. srv' \in [build : 1..(MaxMoves + 1), ready : BOOLEAN, revs : Seq(Revisions), moves : 0..MaxMoves]
    BY <1>0, <2>1, <2>4
  <2>6. ServerCounts'
    BY <2>3 DEF Strong, ServerCounts
  <2> QED BY <1>0, <2>1, <2>4, <2>5, <2>6
<1>2. CASE ~Accepted(o)
  <2>1. UNCHANGED <<srv, saved>>
    BY <1>2 DEF Received
  <2> QED BY <1>0, <1>2, <2>1, Frames, UntouchedEditor
<1> QED BY <1>1, <1>2

LEMMA SaveArrivesStrong == Strong /\ SaveArrives => Strong'
<1> SUFFICES ASSUME Strong, SaveArrives PROVE Strong'
  OBVIOUS
<1>1. UNCHANGED <<ui, load, calcs>> /\ save # None /\ save \in Saves /\ Received(save)
  BY DEF SaveArrives, Strong, DraftTypeOK
<1>2. save.build \in Nat /\ save.rows \in Rows
  BY <1>1 DEF Saves
<1>3. save' = [save EXCEPT !.step = IF Accepted(save) THEN "ok" ELSE "conflict"]
  BY DEF SaveArrives
<1>4. /\ save' \in Saves /\ save' # None /\ (save'.step = "ok" => Accepted(save)) /\ save'.gen = save.gen
      /\ save'.rows = save.rows /\ save'.shown = save.shown
  BY <1>1, <1>3, Bounds DEF Saves
<1>5. /\ srv' \in [build : 1..(MaxMoves + 1), ready : BOOLEAN, revs : Seq(Revisions), moves : 0..MaxMoves]
      /\ ServerCounts' /\ ViewIsRead' /\ LoadIsLater' /\ AuthorityIsRead' /\ saved' \subseteq Rows /\ saved \subseteq saved'
      /\ Accepted(save) => save.rows \in saved'
  BY <1>1, <1>2, ServerReceives
<1>6. DraftTypeOK'
  BY <1>1, <1>4, <1>5 DEF Strong, DraftTypeOK
<1>7. SaveIsOfTheDraft' /\ BusyHasCause'
  BY <1>1, <1>4, <1>5 DEF Strong, SaveIsOfTheDraft, BusyHasCause
<1> QED BY <1>1, <1>5, <1>6, <1>7, Frames, UntouchedEditor DEF Strong

LEMMA LateArrivesStrong == Inductive /\ LateArrives => Inductive'
<1> SUFFICES ASSUME Strong, late \subseteq Orders, LateArrives PROVE Inductive'
  BY DEF Inductive
<1>1. PICK o \in late : Received(o) /\ late' = late \ {o} /\ UNCHANGED <<ui, load, calcs, save>>
  BY DEF LateArrives
<1>2. o.build \in Nat /\ o.rows \in Rows
  BY DEF Orders
<1>3. /\ srv' \in [build : 1..(MaxMoves + 1), ready : BOOLEAN, revs : Seq(Revisions), moves : 0..MaxMoves]
      /\ ServerCounts' /\ ViewIsRead' /\ LoadIsLater' /\ AuthorityIsRead' /\ saved' \subseteq Rows /\ saved \subseteq saved'
  BY <1>1, <1>2, ServerReceives
<1>4. DraftTypeOK'
  BY <1>1, <1>3 DEF Strong, DraftTypeOK
<1>5. SaveIsOfTheDraft'
  BY <1>1, <1>3 DEF Strong, SaveIsOfTheDraft
<1>6. Strong'
  BY <1>1, <1>3, <1>4, <1>5, Frames, UntouchedEditor DEF Strong
<1> QED BY <1>1, <1>6 DEF Inductive

\* Only "pending" changes, and only to rest.
Rests == ui' = ui \/ ui' = [ui EXCEPT !.pending = ""]
LEMMA RestingEditor ==
  ASSUME Strong, Rests
  PROVE  /\ ui' \in Editors /\ SameDraft /\ ui'.dirty = ui.dirty /\ ui'.edits = ui.edits /\ ui'.rebase = ui.rebase
         /\ TimerIsOfTheDraft' /\ ResultsAreOfTheDraft'
         /\ ui'.preview = ui.preview /\ (ui'.pending = ui.pending \/ ui'.pending = "")
<1>1. ui \in Editors
  BY DEF Strong, DraftTypeOK
<1>2. ui' \in Editors
  BY <1>1 DEF Rests, Editors
<1>3. /\ SameDraft /\ ui'.dirty = ui.dirty /\ ui'.edits = ui.edits /\ ui'.timer = ui.timer /\ ui'.preview = ui.preview
      /\ ui'.tornado = ui.tornado /\ ui'.rebase = ui.rebase /\ (ui'.pending = ui.pending \/ ui'.pending = "")
  BY <1>1 DEF Rests, Editors, SameDraft
<1> QED BY <1>2, <1>3, Frames

\* The sign-off is over, or its refresh is: what waited for it rests.
LEMMA SaveIsOver ==
  ASSUME Strong, Rests, save' = None \/ save' = save, save # None /\ save' = None => ui' = [ui EXCEPT !.pending = ""],
         UNCHANGED <<srv, calcs, saved>>, load' \in Loads \cup {None}, LoadIsLater'
  PROVE  Strong'
<1>1. DraftTypeOK'
  BY RestingEditor DEF Strong, DraftTypeOK, SameDraft
<1>2. SaveIsOfTheDraft'
  <2>1. CASE save' = None
    BY <2>1 DEF SaveIsOfTheDraft
  <2>2. CASE save' = save
    BY <2>2, Frames, RestingEditor
  <2> QED BY <2>1, <2>2
<1>3. BusyHasCause'
  <2>1. ui'.pending = "preview" => \E k \in DOMAIN calcs : calcs[k].kind = "preview"
    BY RestingEditor DEF Strong, BusyHasCause
  <2>2. ASSUME ui'.pending = "sign-off", save' = None
        PROVE  (\A k \in DOMAIN calcs : calcs[k].kind # "preview") /\ ~(ui.preview # None /\ ui.preview.gen = ui.gen)
    <3>1. ui.pending = "sign-off"
      BY <2>2, RestingEditor
    <3>2. save = None
      <4>1. ui' = [ui EXCEPT !.pending = ""] => ui'.pending = ""
        BY DEF Strong, DraftTypeOK, Editors
      <4> QED BY <2>2, <4>1
    <3> QED BY <3>1, <3>2 DEF Strong, BusyHasCause
  <2> QED BY <2>1, <2>2, RestingEditor DEF BusyHasCause, SameDraft
<1> QED BY <1>1, <1>2, <1>3, Frames, RestingEditor DEF Strong

LEMMA NoLoad == load' = None => LoadIsLater'
BY DEF LoadIsLater

LEMMA LoadFailsStrong == Strong /\ LoadFails => Strong'
<1> SUFFICES ASSUME Strong, LoadFails PROVE Strong'
  OBVIOUS
<1>1. Rests /\ (save' = None \/ save' = save) /\ (save # None /\ save' = None => ui' = [ui EXCEPT !.pending = ""])
  BY DEF LoadFails, Released, AfterLoad, Rests
<1>2. load' = None /\ UNCHANGED <<srv, calcs, saved>>
  BY DEF LoadFails
<1> QED BY <1>1, <1>2, SaveIsOver, NoLoad

LEMMA SaveLostStrong == Strong /\ (SaveLost \/ SaveOvertaken) => Strong'
<1> SUFFICES ASSUME Strong, SaveLost \/ SaveOvertaken PROVE Strong'
  OBVIOUS
<1>1. Rests /\ save' = None /\ ui' = [ui EXCEPT !.pending = ""] /\ UNCHANGED <<srv, load, calcs, saved>>
  BY DEF SaveLost, SaveOvertaken, Rests
<1>2. load' \in Loads \cup {None} /\ LoadIsLater'
  BY <1>1, RestingEditor, Frames DEF Strong, DraftTypeOK
<1> QED BY <1>1, <1>2, SaveIsOver

LEMMA SaveAnsweredStrong == Strong /\ SaveAnswered => Strong'
<1> SUFFICES ASSUME Strong, SaveAnswered PROVE Strong'
  OBVIOUS
<1>1. save # None /\ save.step \in {"ok", "conflict"} /\ save \in Saves /\ UNCHANGED <<srv, calcs, saved>>
  BY DEF SaveAnswered, Strong, DraftTypeOK
<1> DEFINE Read == save.key = ui.key /\ (save.step = "ok" => save.gen = ui.gen)
<1>2. CASE Read
  <2>1. /\ ui' = IF save.step = "ok" THEN [ui EXCEPT !.dirty = FALSE] ELSE [ui EXCEPT !.conflict = TRUE]
        /\ load' = Asked("sign-off") /\ save' = [save EXCEPT !.step = "reload"]
    BY <1>2 DEF SaveAnswered
  <2>2. ui \in Editors
    BY DEF Strong, DraftTypeOK
  <2>3. ui' \in Editors
    BY <2>1, <2>2 DEF Editors
  <2>4. /\ SameDraft /\ ui'.timer = ui.timer /\ ui'.preview = ui.preview /\ ui'.tornado = ui.tornado
        /\ ui'.rebase = ui.rebase /\ ui'.pending = ui.pending
    BY <2>1, <2>2 DEF Editors, SameDraft
  <2>5. /\ save' \in Saves /\ save' # None /\ save'.step = "reload" /\ save'.gen = save.gen
        /\ save'.rows = save.rows /\ save'.shown = save.shown
    BY <1>1, <2>1, Bounds DEF Saves
  <2>6. load' \in Loads /\ load'.step = "builds" /\ load'.revs = <<>>
    <3>1. <<>> \in Seq(Revisions)
      BY EmptySeq
    <3> QED BY <2>1, <3>1 DEF Asked, Loads
  <2>7. DraftTypeOK'
    BY <1>1, <2>3, <2>4, <2>5, <2>6 DEF Strong, DraftTypeOK, SameDraft
  <2>8. LoadIsLater'
    BY <2>6 DEF LoadIsLater
  <2>9. SaveIsOfTheDraft'
    BY <1>1, <2>4, <2>5 DEF Strong, SaveIsOfTheDraft, SameDraft
  <2>10. BusyHasCause'
    BY <1>1, <2>4, <2>5 DEF Strong, BusyHasCause, SameDraft
  <2>11. DirtyIsMarked'
    <3>1. CASE save.step = "ok"
      <4>1. ui.draft \in saved
        BY <1>1, <1>2, <3>1 DEF Strong, SaveIsOfTheDraft
      <4> QED BY <1>1, <2>4, <4>1 DEF DirtyIsMarked, SameDraft
    <3>2. CASE save.step # "ok"
      <4>1. ui'.dirty = ui.dirty
        BY <2>1, <2>2, <3>2 DEF Editors
      <4> QED BY <1>1, <2>4, <4>1, Frames
    <3> QED BY <3>1, <3>2
  <2> QED BY <1>1, <2>4, <2>7, <2>8, <2>9, <2>10, <2>11, Frames DEF Strong
<1>3. CASE ~Read
  <2>1. ui' = [ui EXCEPT !.pending = ""] /\ save' = None /\ load' = load
    BY <1>3 DEF SaveAnswered
  <2>2. Rests
    BY <2>1 DEF Rests
  <2>3. load' \in Loads \cup {None} /\ LoadIsLater'
    BY <1>1, <2>1, <2>2, RestingEditor, Frames DEF Strong, DraftTypeOK
  <2> QED BY <1>1, <2>1, <2>2, <2>3, SaveIsOver
<1> QED BY <1>2, <1>3

LEMMA SignOffStrong == Strong /\ SignOff => Strong'
<1> SUFFICES ASSUME Strong, SignOff PROVE Strong'
  OBVIOUS
<1>1. ui \in Editors /\ calcs \in Seq(Calls) /\ DOMAIN calcs = 1..Len(calcs)
  BY LenProperties DEF Strong, DraftTypeOK
<1>2. PrimaryAction = "SIGN_OFF" /\ UNCHANGED <<srv, load, saved>> /\ calcs' = Dead(calcs, {"rebase"})
  BY DEF SignOff
<1>3. Dirty /\ PreviewCurrent
  BY <1>2 DEF PrimaryAction
<1>4. /\ ui.baseline # None /\ ui.draft # None /\ ui.authority # None /\ ui.preview # None
      /\ ui.preview.gen = ui.gen
  BY <1>3 DEF Dirty, Changes, PreviewCurrent, PreviewMatches, Strong, DraftTypeOK
<1>5. ui.preview.rows = ui.draft
  BY <1>4 DEF Strong, ResultsAreOfTheDraft, OfTheDraft
<1>6. save' = [build |-> ui.view.build, parent |-> ui.authority.parent, head |-> ui.authority.head, rows |-> ui.draft,
               shown |-> ui.preview.rows, gen |-> ui.gen, key |-> ui.key, step |-> "sent"]
  BY DEF SignOff
<1>7. ui' = [ui EXCEPT !.pending = "sign-off", !.conflict = FALSE]
  BY DEF SignOff
<1>8. save' \in Saves /\ save'.step = "sent" /\ save'.gen = ui.gen /\ save'.rows = ui.draft /\ save'.shown = ui.draft
  <2>1. /\ ui.view.build \in Nat /\ ui.authority \in Authorities /\ ui.draft \in Rows /\ ui.gen \in Nat
        /\ ui.key \in Seq(Nat)
    BY <1>1, <1>4, EditorFields DEF Forecast
  <2>2. ui.authority.parent \in Nat /\ ui.authority.head \in Nat
    BY <2>1 DEF Authorities
  <2>3. save' \in Saves
    BY <1>5, <1>6, <2>1, <2>2 DEF Saves
  <2> QED BY <1>5, <1>6, <2>3
<1>9. ui' \in Editors
  BY <1>1, <1>7 DEF Editors
<1>10. /\ SameDraft /\ ui'.timer = ui.timer /\ ui'.preview = ui.preview /\ ui'.tornado = ui.tornado
       /\ ui'.rebase = ui.rebase /\ ui'.dirty = ui.dirty /\ ui'.pending = "sign-off"
  BY <1>1, <1>7 DEF Editors, SameDraft
<1>11. /\ calcs' \in Seq(Calls) /\ DOMAIN calcs' = DOMAIN calcs
       /\ \A k \in DOMAIN calcs : IF calcs[k].kind = "rebase" THEN calcs'[k].kind = "late" ELSE calcs'[k] = calcs[k]
  BY <1>1, <1>2, DeadCalls
<1>12. save' # None
  BY <1>8, Bounds
<1>13. DraftTypeOK'
  BY <1>2, <1>8, <1>9, <1>10, <1>11 DEF Strong, DraftTypeOK, SameDraft
<1>14. CallsAreOfTheDraft'
  BY <1>10, <1>11 DEF Strong, CallsAreOfTheDraft, OfTheDraft, SameDraft
<1>15. SaveIsOfTheDraft'
  BY <1>8, <1>10 DEF SaveIsOfTheDraft, SameDraft
<1>16. BusyHasCause'
  BY <1>8, <1>10, <1>12 DEF BusyHasCause
<1> QED BY <1>2, <1>10, <1>13, <1>14, <1>15, <1>16, Frames DEF Strong

-----------------------------------------------------------------------------
(* Calculations: what is asked is asked for the draft of today. *)
LEMMA Asks ==
  ASSUME Strong, SameDraft, NEW rows \in Rows, NEW gen \in Nat, NEW build \in Nat, NEW parent \in Nat, NEW kind \in AllCalcs, ui.authority # None,
         calcs' = Ask(rows, gen, build, parent, kind), ui.draft # None,
         kind # "rebase" => gen = ui.gen /\ rows = ui.draft /\ build = ui.authority.build
  PROVE  /\ calcs' \in Seq(Calls) /\ CallsAreOfTheDraft' /\ \E k \in DOMAIN calcs' : calcs'[k].kind = kind
         /\ \A k \in DOMAIN calcs' : calcs'[k].kind \in {"late", kind} \/ (k \in DOMAIN calcs /\ calcs'[k] = calcs[k])
<1>1. DraftTypeOK /\ calcs \in Seq(Calls) /\ DOMAIN calcs = 1..Len(calcs) /\ Len(calcs) \in Nat
  BY LenProperties DEF Strong, DraftTypeOK
<1>2. /\ calcs' \in Seq(Calls) /\ DOMAIN calcs' = 1..(Len(calcs) + 1)
      /\ \A k \in 1..Len(calcs) :
           /\ calcs[k].kind = kind => calcs'[k].kind = "late"
           /\ calcs[k].kind # kind => calcs'[k] = calcs[k]
      /\ calcs'[Len(calcs) + 1].kind = kind /\ calcs'[Len(calcs) + 1].gen = gen
      /\ calcs'[Len(calcs) + 1].rows = rows /\ calcs'[Len(calcs) + 1].build = build
  <2>1. Extended(calcs', rows, gen, build, kind)
    BY <1>1, AskCalls
  <2> QED BY <2>1 DEF Extended
<1>3. \A k \in DOMAIN calcs' : k = Len(calcs) + 1 \/ k \in DOMAIN calcs
  BY <1>1, <1>2
<1>4. CallsAreOfTheDraft'
  <2> SUFFICES ASSUME NEW k \in DOMAIN calcs'
               PROVE  /\ calcs'[k].kind \in {"preview", "tornado"} =>
                           calcs'[k].gen = ui.gen /\ calcs'[k].rows = ui.draft /\ calcs'[k].build = ui.authority.build
                      /\ calcs'[k].kind = "rebase" => ui.draft # None
    BY DEF CallsAreOfTheDraft, OfTheDraft, SameDraft
  <2>1. CASE k = Len(calcs) + 1
    BY <1>2, <2>1 DEF AllCalcs
  <2>2. CASE k \in DOMAIN calcs
    BY <1>1, <1>2, <2>2 DEF Strong, CallsAreOfTheDraft, OfTheDraft
  <2> QED BY <1>3, <2>1, <2>2
<1> QED BY <1>1, <1>2, <1>3, <1>4

\* A step that asks for a preview and says so.
LEMMA PreviewAsked ==
  ASSUME Strong, ui.authority # None, ui.draft # None, calcs' = Ask(ui.draft, ui.gen, ui.authority.build, ui.authority.parent, "preview"),
         NEW timer \in Timers \cup {None}, timer = None \/ timer = ui.timer,
         ui' = [ui EXCEPT !.timer = timer, !.pending = "preview"], UNCHANGED <<srv, load, save, saved>>
  PROVE  Strong'
<1>1. ui \in Editors
  BY DEF Strong, DraftTypeOK
<1>2. ui' \in Editors
  BY <1>1 DEF Editors
<1>3. /\ SameDraft /\ ui'.timer = timer /\ ui'.preview = ui.preview /\ ui'.tornado = ui.tornado
      /\ ui'.rebase = ui.rebase /\ ui'.dirty = ui.dirty /\ ui'.pending = "preview"
  BY <1>1 DEF Editors, SameDraft
<1>4. ui.draft \in Rows /\ ui.gen \in Nat /\ ui.authority.build \in Nat /\ ui.authority.parent \in Nat
  <2>1. ui.draft \in Rows /\ ui.gen \in Nat /\ ui.authority \in Authorities
    BY <1>1, EditorFields DEF Forecast
  <2> QED BY <2>1 DEF Authorities
<1>5. calcs' \in Seq(Calls) /\ CallsAreOfTheDraft' /\ \E k \in DOMAIN calcs' : calcs'[k].kind = "preview"
  BY <1>3, <1>4, Asks DEF AllCalcs
<1>6. DraftTypeOK'
  BY <1>2, <1>3, <1>5 DEF Strong, DraftTypeOK, SameDraft
<1>7. BusyHasCause'
  BY <1>3, <1>5 DEF BusyHasCause
<1>8. TimerIsOfTheDraft'
  <2>1. CASE timer = None
    BY <1>3, <2>1 DEF TimerIsOfTheDraft
  <2>2. CASE timer = ui.timer
    BY <1>3, <2>2, Frames
  <2> QED BY <2>1, <2>2
<1> QED BY <1>3, <1>5, <1>6, <1>7, <1>8, Frames DEF Strong

LEMMA TimerFiresStrong == Strong /\ TimerFires => Strong'
<1> SUFFICES ASSUME Strong, TimerFires PROVE Strong'
  OBVIOUS
<1>1. ui \in Editors /\ ui.timer # None /\ ui.timer \in Timers /\ UNCHANGED <<srv, load, save, saved>>
  BY EditorFields DEF TimerFires, Strong, DraftTypeOK
<1> DEFINE t == ui.timer
<1>2. CASE Sends(t.rows, t.build, t.ready, t.head)
  <2>1. /\ ui.authority # None /\ ui.authority.build = t.build /\ ui.authority.head = t.head
        /\ ui.baseline # None
    BY <1>2 DEF Sends, Changes
  <2>2. ui.draft # None
    BY <2>1 DEF Strong, DraftTypeOK
  <2>3. t.build \in Nat /\ t.head \in Nat
    BY <1>1 DEF Timers
  <2>4. ~LeftBehind(t)
    BY <2>1, <2>3 DEF LeftBehind
  <2>5. t.gen = ui.gen /\ t.rows = ui.draft
    BY <1>1, <2>4 DEF Strong, TimerIsOfTheDraft
  <2>6. calcs' = Ask(ui.draft, ui.gen, ui.authority.build, ui.authority.parent, "preview")
    BY <1>2, <2>1, <2>5 DEF TimerFires
  <2>7. ui' = [ui EXCEPT !.timer = None, !.pending = "preview"]
    BY <1>2 DEF TimerFires
  <2> QED BY <1>1, <2>1, <2>2, <2>6, <2>7, PreviewAsked
<1>3. CASE ~Sends(t.rows, t.build, t.ready, t.head)
  <2>1. calcs' = calcs /\ ui' = [ui EXCEPT !.timer = None]
    BY <1>3 DEF TimerFires
  <2>2. ui' \in Editors
    BY <1>1, <2>1 DEF Editors
  <2>3. /\ SameDraft /\ ui'.timer = None /\ ui'.preview = ui.preview /\ ui'.tornado = ui.tornado
        /\ ui'.rebase = ui.rebase /\ ui'.dirty = ui.dirty /\ ui'.pending = ui.pending
    BY <1>1, <2>1 DEF Editors, SameDraft
  <2>4. DraftTypeOK'
    BY <1>1, <2>1, <2>2, <2>3 DEF Strong, DraftTypeOK, SameDraft
  <2>5. TimerIsOfTheDraft' /\ BusyHasCause'
    BY <1>1, <2>1, <2>3 DEF Strong, TimerIsOfTheDraft, BusyHasCause, SameDraft
  <2> QED BY <1>1, <2>1, <2>3, <2>4, <2>5, Frames DEF Strong
<1> QED BY <1>2, <1>3

LEMMA PreviewPressedStrong == Strong /\ PreviewPressed => Strong'
<1> SUFFICES ASSUME Strong, PreviewPressed PROVE Strong'
  OBVIOUS
<1>1. Sends(ui.draft, ui.view.build, TRUE, HeadOf(ui.view)) /\ UNCHANGED <<srv, load, save, saved>>
  BY DEF PreviewPressed
<1>2. ui.authority # None /\ ui.authority.build = ui.view.build /\ ui.baseline # None
  BY <1>1 DEF Sends, Changes
<1>3. ui.draft # None /\ ui \in Editors /\ ui.timer \in Timers \cup {None}
  BY <1>2, EditorFields DEF Strong, DraftTypeOK
<1>4. calcs' = Ask(ui.draft, ui.gen, ui.authority.build, ui.authority.parent, "preview")
  BY <1>2 DEF PreviewPressed
<1>5. ui' = [ui EXCEPT !.timer = ui.timer, !.pending = "preview"]
  BY <1>3 DEF PreviewPressed, Editors
<1> QED BY <1>1, <1>2, <1>3, <1>4, <1>5, PreviewAsked

LEMMA TornadoAskedStrong == Strong /\ TornadoAsked => Strong'
<1> SUFFICES ASSUME Strong, TornadoAsked PROVE Strong'
  OBVIOUS
<1>1. /\ UNCHANGED <<srv, ui, load, save, saved>> /\ ui.view.ready /\ ui.draft # None /\ ~Mismatch /\ calcs = <<>>
      /\ calcs' = Ask(ui.draft, ui.gen, ui.view.build, ui.authority.parent, "tornado")
  BY DEF TornadoAsked
<1>2. ui.authority # None /\ ui.authority.build = ui.view.build /\ ui \in Editors
  BY <1>1 DEF Mismatch, Strong, DraftTypeOK
<1>3. ui.draft \in Rows /\ ui.gen \in Nat /\ ui.view.build \in Nat /\ ui.authority.parent \in Nat
  BY <1>1, <1>2, EditorFields DEF Forecast, Authorities
<1>4. SameDraft
  BY <1>1 DEF SameDraft
<1>5. /\ calcs' \in Seq(Calls) /\ CallsAreOfTheDraft'
      /\ \A k \in DOMAIN calcs' : calcs'[k].kind \in {"late", "tornado"} \/ (k \in DOMAIN calcs /\ calcs'[k] = calcs[k])
  BY <1>1, <1>2, <1>3, <1>4, Asks DEF AllCalcs
<1>6. BusyHasCause'
  BY <1>1, <1>5 DEF Strong, BusyHasCause
<1>7. DraftTypeOK'
  BY <1>1, <1>5 DEF Strong, DraftTypeOK
<1> QED BY <1>1, <1>4, <1>5, <1>6, <1>7, Frames DEF Strong

LEMMA RebaseAskedStrong == Strong /\ RebaseAsked => Strong'
<1> SUFFICES ASSUME Strong, RebaseAsked PROVE Strong'
  OBVIOUS
<1> PICK r \in DOMAIN ui.view.revs :
      \E rows \in {Defaults, ui.view.revs[r].rows} : calcs' = Ask(rows, ui.gen + 1, ui.view.build, r, "rebase")
  BY DEF RebaseAsked, Rebasable
<1> PICK rows \in {Defaults, ui.view.revs[r].rows} : calcs' = Ask(rows, ui.gen + 1, ui.view.build, r, "rebase")
  OBVIOUS
<1>1. /\ ui.view.ready /\ ui.draft # None
      /\ ui' = [ui EXCEPT !.pending = "rebase"] /\ Shelve /\ UNCHANGED <<srv, load, saved>>
  BY DEF RebaseAsked
<1>2. ui.draft # None /\ ui.authority # None /\ ui \in Editors
  BY <1>1 DEF Strong, DraftTypeOK
<1>3. ui.gen + 1 \in Nat /\ ui.view.build \in Nat /\ ui.view.revs \in Seq(Revisions)
  <2>1. ui.gen \in Nat /\ ui.view.build \in Nat /\ ui.view.revs \in Seq(Revisions)
    BY <1>2, EditorFields
  <2> QED BY <2>1
<1>4. rows \in Rows /\ r \in Nat
  <2>1. r \in 1..Len(ui.view.revs) /\ Len(ui.view.revs) \in Nat
    BY <1>3, LenProperties
  <2>2. ui.view.revs[r] \in Revisions
    BY <1>3, <2>1, ElementOfSeq
  <2> QED BY <2>1, <2>2, Bounds DEF Revisions
<1>5. ui' \in Editors
  BY <1>1, <1>2 DEF Editors
<1>6. /\ SameDraft /\ ui'.timer = ui.timer /\ ui'.preview = ui.preview /\ ui'.tornado = ui.tornado
      /\ ui'.rebase = ui.rebase /\ ui'.dirty = ui.dirty /\ ui'.pending = "rebase"
  BY <1>1, <1>2 DEF Editors, SameDraft
<1>7. calcs' \in Seq(Calls) /\ CallsAreOfTheDraft'
  BY <1>2, <1>3, <1>4, <1>6, Asks DEF AllCalcs
<1>8. save' = None /\ SaveIsOfTheDraft'
  BY <1>1 DEF Shelve, SaveIsOfTheDraft
<1>9. DraftTypeOK'
  BY <1>1, <1>5, <1>6, <1>7, <1>8 DEF Strong, DraftTypeOK, SameDraft
<1>10. BusyHasCause'
  BY <1>6 DEF BusyHasCause
<1> QED BY <1>1, <1>6, <1>7, <1>8, <1>9, <1>10, Frames DEF Strong

LEMMA CalcAnsweredStrong == Strong /\ CalcAnswered => Strong'
<1> SUFFICES ASSUME Strong, CalcAnswered PROVE Strong'
  OBVIOUS
<1> DEFINE c == calcs[1]
           u == IF c.kind \in {"preview", "rebase"} THEN [ui EXCEPT !.pending = ""] ELSE ui
           got == [build |-> c.build, parent |-> c.parent, gen |-> c.gen, rows |-> c.rows]
<1>1. ui \in Editors /\ calcs \in Seq(Calls) /\ calcs # <<>> /\ calcs' = Tail(calcs) /\ UNCHANGED <<srv, load, save, saved>>
  BY DEF CalcAnswered, Strong, DraftTypeOK
<1>2. /\ calcs' \in Seq(Calls) /\ c \in Calls /\ 1 \in DOMAIN calcs
      /\ \A k \in DOMAIN calcs' : k + 1 \in DOMAIN calcs /\ calcs'[k] = calcs[k + 1]
      /\ \A k \in DOMAIN calcs : k = 1 \/ (k - 1 \in DOMAIN calcs' /\ calcs'[k - 1] = calcs[k])
  BY <1>1, TailCalls
<1>3. \/ ui' = u
      \/ c.kind = "preview" /\ IsCurrent(c) /\ ui' = [u EXCEPT !.preview = got]
      \/ c.kind = "tornado" /\ IsCurrent(c) /\ ui' = [u EXCEPT !.tornado = got]
      \/ c.kind = "rebase" /\ ui' = [u EXCEPT !.rebase = got]
  BY DEF CalcAnswered
<1>4. c.kind \in AllCalcs => got \in Results /\ got.gen = c.gen /\ got.rows = c.rows /\ got.build = c.build
  BY <1>2 DEF Calls, Results, AllCalcs
<1>5. /\ u \in Editors /\ u.view = ui.view /\ u.key = ui.key /\ u.baseline = ui.baseline /\ u.draft = ui.draft /\ u.gen = ui.gen
      /\ u.authority = ui.authority /\ u.preview = ui.preview /\ u.tornado = ui.tornado /\ u.rebase = ui.rebase
      /\ u.timer = ui.timer /\ u.dirty = ui.dirty
      /\ u.pending = IF c.kind \in {"preview", "rebase"} THEN "" ELSE ui.pending
  BY <1>1 DEF Editors
<1>6. /\ ui' \in Editors /\ SameDraft /\ ui'.timer = ui.timer /\ ui'.dirty = ui.dirty
      /\ ui'.pending = IF c.kind \in {"preview", "rebase"} THEN "" ELSE ui.pending
      /\ ui'.preview = ui.preview \/ (c.kind = "preview" /\ ui'.preview = got)
      /\ ui'.tornado = ui.tornado \/ (c.kind = "tornado" /\ ui'.tornado = got)
      /\ ui'.rebase = ui.rebase \/ c.kind = "rebase"
  <2> HIDE DEF u, got, c
  <2>1. CASE ui' = u
    BY <1>5, <2>1 DEF SameDraft
  <2>2. CASE c.kind = "preview" /\ ui' = [u EXCEPT !.preview = got]
    BY <1>4, <1>5, <2>2 DEF SameDraft, Editors, AllCalcs
  <2>3. CASE c.kind = "tornado" /\ ui' = [u EXCEPT !.tornado = got]
    BY <1>4, <1>5, <2>3 DEF SameDraft, Editors, AllCalcs
  <2>4. CASE c.kind = "rebase" /\ ui' = [u EXCEPT !.rebase = got]
    BY <1>4, <1>5, <2>4 DEF SameDraft, Editors, AllCalcs
  <2> QED BY <1>3, <2>1, <2>2, <2>3, <2>4
<1>7. c.kind \in {"preview", "tornado"} => got.gen = ui.gen /\ got.rows = ui.draft /\ ui.authority # None /\ got.build = ui.authority.build
  BY <1>2, <1>4 DEF Strong, CallsAreOfTheDraft, OfTheDraft, AllCalcs
<1>8. c.kind = "rebase" => ui.draft # None
  BY <1>2 DEF Strong, CallsAreOfTheDraft
<1>9. ResultsAreOfTheDraft'
  <2> HIDE DEF got, c
  <2>1. ui'.preview # None => ui'.preview.gen <= ui.gen /\ (ui'.preview.gen = ui.gen => OfTheDraft(ui'.preview))
    <3>1. ui.gen <= ui.gen
      <4>1. ui.gen \in Nat
        BY <1>1, EditorFields
      <4> QED BY <4>1
    <3>2. CASE ui'.preview = ui.preview
      BY <3>2 DEF Strong, ResultsAreOfTheDraft
    <3>3. CASE c.kind = "preview" /\ ui'.preview = got
      BY <1>7, <3>1, <3>3 DEF OfTheDraft
    <3> QED BY <1>6, <3>2, <3>3
  <2>2. ui'.tornado # None => OfTheDraft(ui'.tornado)
    BY <1>6, <1>7 DEF Strong, ResultsAreOfTheDraft, OfTheDraft
  <2>3. ui'.rebase # None => ui.draft # None
    BY <1>6, <1>8 DEF Strong, ResultsAreOfTheDraft
  <2> QED BY <1>6, <2>1, <2>2, <2>3 DEF ResultsAreOfTheDraft, OfTheDraft, SameDraft
<1>10. CallsAreOfTheDraft'
  <2> SUFFICES ASSUME NEW k \in DOMAIN calcs'
               PROVE  /\ calcs'[k].kind \in {"preview", "tornado"} => calcs'[k].gen = ui.gen /\ OfTheDraft(calcs'[k])
                      /\ calcs'[k].kind = "rebase" => ui.draft # None
    BY <1>6 DEF CallsAreOfTheDraft, OfTheDraft, SameDraft
  <2>1. k + 1 \in DOMAIN calcs /\ calcs'[k] = calcs[k + 1]
    BY <1>2
  <2> QED BY <2>1 DEF Strong, CallsAreOfTheDraft
<1>11. BusyHasCause'
  <2>1. ASSUME ui'.pending = "preview" PROVE \E k \in DOMAIN calcs' : calcs'[k].kind = "preview"
    <3>1. ui.pending = "preview" /\ c.kind # "preview"
      BY <1>6, <2>1
    <3>2. PICK k \in DOMAIN calcs : calcs[k].kind = "preview"
      BY <3>1 DEF Strong, BusyHasCause
    <3> QED BY <1>2, <3>1, <3>2
  <2>2. ASSUME ui'.pending = "sign-off", save = None
        PROVE  (\A k \in DOMAIN calcs' : calcs'[k].kind # "preview") /\ ~(ui'.preview # None /\ ui'.preview.gen = ui.gen)
    <3>1. ui.pending = "sign-off" /\ c.kind # "preview" /\ ui'.preview = ui.preview
      BY <1>6, <2>2
    <3>2. (\A k \in DOMAIN calcs : calcs[k].kind # "preview") /\ ~(ui.preview # None /\ ui.preview.gen = ui.gen)
      BY <2>2, <3>1 DEF Strong, BusyHasCause
    <3> QED BY <1>2, <3>1, <3>2
  <2> QED BY <1>1, <1>6, <2>1, <2>2 DEF BusyHasCause, SameDraft
<1>12. DraftTypeOK'
  BY <1>1, <1>2, <1>6 DEF Strong, DraftTypeOK, SameDraft
<1> QED BY <1>1, <1>6, <1>9, <1>10, <1>11, <1>12, Frames DEF Strong

-----------------------------------------------------------------------------
(* The draft changes, or its authority does. *)
LEMMA AllLate ==
  ASSUME calcs \in Seq(Calls), calcs' = Dead(calcs, AllCalcs)
  PROVE  calcs' \in Seq(Calls) /\ CallsAreOfTheDraft' /\ \A k \in DOMAIN calcs' : calcs'[k].kind = "late"
<1>1. /\ calcs' \in Seq(Calls) /\ DOMAIN calcs' = DOMAIN calcs
      /\ \A k \in DOMAIN calcs : IF calcs[k].kind \in AllCalcs THEN calcs'[k].kind = "late" ELSE calcs'[k] = calcs[k]
  BY DeadCalls
<1>2. \A k \in DOMAIN calcs : calcs[k].kind \in AllCalcs \cup {"late"}
  <2>1. \A k \in DOMAIN calcs : calcs[k] \in Calls
    BY LenProperties, ElementOfSeq
  <2> QED BY <2>1 DEF Calls
<1>3. \A k \in DOMAIN calcs' : calcs'[k].kind = "late"
  BY <1>1, <1>2
<1> QED BY <1>1, <1>3 DEF CallsAreOfTheDraft

\* What is read of the authority of a view that begins the server's history.
LEMMA ReadAuthority ==
  ASSUME Strong, NEW v \in Views, v.ready, Begins(v.revs, srv.revs)
  PROVE  LET a == AuthorityOf(v)
         IN /\ a \in Authorities /\ a # None /\ a.build = v.build /\ a.head = Len(v.revs) /\ a.head <= Len(srv.revs)
            /\ a.parent = ActiveAt(a.build, a.head)
            /\ Active(v) # 0 => Effective(v) \in Rows
            /\ Active(v) = 0 => Effective(v) = Defaults
<1>1. v.revs \in Seq(Revisions) /\ v.build \in Nat /\ Len(v.revs) \in Nat
  BY LenProperties DEF Views
<1>2. v.revs # <<>> => Len(v.revs) \in 1..Len(v.revs) /\ v.revs[Len(v.revs)] \in Revisions
  BY <1>1, LenProperties, EmptySeq, ElementOfSeq
<1>3. Active(v) \in Nat
  BY <1>1 DEF Active
<1>4. AuthorityOf(v) \in Authorities
  BY <1>1, <1>3 DEF AuthorityOf, HeadOf, Authorities
<1>5. AuthorityOf(v).build = v.build /\ AuthorityOf(v).head = Len(v.revs) /\ AuthorityOf(v).parent = Active(v)
  BY DEF AuthorityOf, HeadOf
<1>6. Len(v.revs) <= Len(srv.revs) /\ (v.revs # <<>> => srv.revs[Len(v.revs)] = v.revs[Len(v.revs)])
  BY <1>2 DEF Begins
<1>7. v.revs = <<>> <=> Len(v.revs) = 0
  BY <1>1, EmptySeq
<1>8. Active(v) = ActiveAt(v.build, Len(v.revs))
  BY <1>6, <1>7 DEF Active, ActiveAt
<1>9. Active(v) # 0 => Effective(v) \in Rows
  <2> SUFFICES ASSUME Active(v) # 0 PROVE Effective(v) \in Rows
    OBVIOUS
  <2>1. v.revs # <<>> /\ Active(v) = Len(v.revs)
    BY DEF Active
  <2> QED BY <1>2, <2>1 DEF Effective, Revisions
<1> QED BY <1>4, <1>5, <1>6, <1>8, <1>9, Bounds DEF Effective

\* invalidatePreview and the debounce, over the same authority or that of the view.
LEMMA DraftReplaced ==
  ASSUME Strong, NEW u \in Editors, NEW rows \in Rows, ui.view.ready,
         u.view = ui.view, u.key = ui.key, u.gen = ui.gen, u.preview = ui.preview, u.baseline \in Rows,
         u.authority # None, u.authority = ui.authority \/ u.authority = AuthorityOf(ui.view),
         NEW next, next = Debounced(Invalidated(u, rows), rows),
         ui' = next \/ ui' = [next EXCEPT !.rebase = None],
         calcs' = Dead(calcs, AllCalcs), save' = None, UNCHANGED <<srv, load, saved>>
  PROVE  Strong'
<1>1. /\ DraftTypeOK /\ ui \in Editors /\ calcs \in Seq(Calls)
  BY DEF Strong, DraftTypeOK
<1>2. next \in Editors
  BY <1>1, Edits
<1>3. next.draft = rows /\ next.gen = u.gen + 1 /\ next.tornado = None
  BY DEF Debounced, Invalidated, Editors
<1>4. next.dirty <=> Changes(u.baseline, rows) # {}
  BY DEF Debounced, Invalidated, Editors
<1>5. next.pending = IF u.pending = "preview" THEN "" ELSE u.pending
  BY DEF Debounced, Invalidated, Editors
<1>6. next.timer = [rows |-> rows, gen |-> u.gen + 1, build |-> u.view.build, ready |-> u.view.ready, head |-> HeadOf(u.view)]
  BY DEF Debounced, Invalidated, Editors
<1>7. /\ next.view = u.view /\ next.key = u.key /\ next.baseline = u.baseline /\ next.authority = u.authority
      /\ next.preview = u.preview
  BY DEF Debounced, Invalidated, Editors
<1>8. /\ ui' \in Editors /\ ui'.draft = rows /\ ui'.gen = ui.gen + 1 /\ ui'.tornado = None /\ ui'.pending = next.pending
      /\ ui'.timer = next.timer /\ ui'.view = ui.view /\ ui'.key = ui.key /\ ui'.baseline = u.baseline
      /\ ui'.authority = u.authority /\ ui'.preview = ui.preview /\ ui'.dirty = next.dirty
  <2>1. ui' \in Editors
    <3>1. [next EXCEPT !.rebase = None] \in Editors
      BY <1>2 DEF Editors
    <3> QED BY <1>2, <3>1
  <2>2. /\ ui'.draft = next.draft /\ ui'.gen = next.gen /\ ui'.tornado = next.tornado /\ ui'.pending = next.pending
        /\ ui'.timer = next.timer /\ ui'.view = next.view /\ ui'.key = next.key /\ ui'.baseline = next.baseline
        /\ ui'.authority = next.authority /\ ui'.preview = next.preview /\ ui'.dirty = next.dirty
    BY <1>2 DEF Editors
  <2> QED BY <1>3, <1>7, <2>1, <2>2
<1>9. calcs' \in Seq(Calls) /\ CallsAreOfTheDraft' /\ \A k \in DOMAIN calcs' : calcs'[k].kind = "late"
  BY <1>1, AllLate
<1>10. SaveIsOfTheDraft'
  BY DEF SaveIsOfTheDraft
<1>11. rows # None /\ u.baseline # None
  BY Bounds
<1>12. DraftTypeOK'
  BY <1>1, <1>8, <1>9, <1>10, <1>11 DEF DraftTypeOK
<1>13. ServerCounts' /\ ViewIsRead'
  BY <1>8 DEF Strong, ServerCounts, ViewIsRead, Begins, Behind, Key
<1>14. /\ u.authority.head <= Len(srv.revs) /\ u.authority.parent = ActiveAt(u.authority.build, u.authority.head)
       /\ u.authority.head <= Len(ui.view.revs)
  <2>1. CASE u.authority = ui.authority
    BY <2>1 DEF Strong, AuthorityIsRead
  <2>2. CASE u.authority = AuthorityOf(ui.view)
    <3>1. ui.view \in Views /\ Len(ui.view.revs) \in Nat
      BY <1>1, EditorFields, LenProperties
    <3>2. Begins(ui.view.revs, srv.revs)
      BY DEF Strong, ViewIsRead
    <3> QED BY <2>2, <3>1, <3>2, ReadAuthority
  <2> QED BY <2>1, <2>2
<1>15. AuthorityIsRead'
  BY <1>8, <1>14 DEF AuthorityIsRead, ActiveAt
<1>16. LoadIsLater'
  <2>1. ASSUME load # None, load.step = "land", load.ready PROVE u.authority.head <= Len(load.revs)
    <3>1. Len(ui.view.revs) <= Len(load.revs)
      BY <2>1 DEF Strong, LoadIsLater
    <3>2. load.revs \in Seq(Revisions)
      BY <2>1 DEF Strong, DraftTypeOK, Loads
    <3>3. Len(load.revs) \in Nat /\ Len(ui.view.revs) \in Nat
      BY <1>1, <3>2, EditorFields, LenProperties
    <3>4. u.authority.head \in Nat
      BY EditorFields DEF Authorities
    <3> QED BY <1>14, <3>1, <3>3, <3>4
  <2> QED BY <1>8, <2>1 DEF Strong, LoadIsLater, Begins, Behind, NotAfter
<1>17. ui.preview # None => ui.preview.gen <= ui.gen + 1 /\ ui.preview.gen # ui.gen + 1
  <2>1. ui.gen \in Nat /\ ui.preview \in Results \cup {None}
    BY <1>1, EditorFields
  <2>2. ui.preview # None => ui.preview.gen \in Nat
    BY <2>1 DEF Results
  <2> QED BY <2>1, <2>2 DEF Strong, ResultsAreOfTheDraft
<1>18. ResultsAreOfTheDraft'
  BY <1>8, <1>11, <1>17 DEF ResultsAreOfTheDraft
<1>19. TimerIsOfTheDraft'
  <2>1. /\ ui'.timer.gen = ui.gen + 1 /\ ui'.timer.rows = rows /\ ui'.timer.build = ui.view.build
        /\ ui'.timer.head = Len(ui.view.revs)
    BY <1>6, <1>8 DEF HeadOf
  <2>2. Len(ui.view.revs) <= Len(ui.view.revs)
    <3>1. Len(ui.view.revs) \in Nat
      BY <1>1, EditorFields, LenProperties
    <3> QED BY <3>1
  <2> QED BY <1>8, <2>1, <2>2 DEF TimerIsOfTheDraft
<1>20. BusyHasCause'
  BY <1>5, <1>8, <1>9, <1>17 DEF BusyHasCause
<1>21. DirtyIsMarked'
  BY <1>4, <1>8 DEF DirtyIsMarked, Dirty
<1> QED BY <1>9, <1>10, <1>12, <1>13, <1>15, <1>16, <1>18, <1>19, <1>20, <1>21 DEF Strong

LEMMA EditStrong == Strong /\ Edit => Strong'
<1> SUFFICES ASSUME Strong, Edit PROVE Strong'
  OBVIOUS
<1>1. /\ ui.view.ready /\ ui.draft # None /\ calcs' = Dead(calcs, AllCalcs) /\ save' = None
      /\ UNCHANGED <<srv, load, saved>>
  BY DEF Edit, Shelve
<1> PICK scope \in Scopes, x \in Entries :
      ui' = Debounced(Invalidated(ui, [s \in Slot |-> IF s \in scope THEN x ELSE ui.draft[s]]),
                      [s \in Slot |-> IF s \in scope THEN x ELSE ui.draft[s]])
  BY DEF Edit
<1> DEFINE rows == [s \in Slot |-> IF s \in scope THEN x ELSE ui.draft[s]]
<1>2. ui \in Editors /\ ui.authority # None /\ ui.baseline # None
  BY <1>1 DEF Strong, DraftTypeOK
<1>3. ui.draft \in Rows /\ ui.baseline \in Rows
  BY <1>1, <1>2, EditorFields DEF Forecast
<1>4. rows \in Rows
  BY <1>3, Bounds DEF Rows
<1>5. ui' = Debounced(Invalidated(ui, rows), rows)
  OBVIOUS
<1> HIDE DEF rows
<1> QED BY <1>1, <1>2, <1>3, <1>4, <1>5, DraftReplaced

LEMMA ApplyRebaseStrong == Strong /\ ApplyRebase => Strong'
<1> SUFFICES ASSUME Strong, ApplyRebase PROVE Strong'
  OBVIOUS
<1> DEFINE base == IF Active(ui.view) # 0 THEN Effective(ui.view) ELSE ui.rebase.rows
           rows == Merged(ui.baseline, ui.draft, base)
           u == [ui EXCEPT !.baseline = base, !.authority = AuthorityOf(ui.view), !.conflict = FALSE]
           next == Debounced(Invalidated(u, rows), rows)
<1>1. /\ ui.view.ready /\ ui.rebase # None /\ calcs' = Dead(calcs, AllCalcs) /\ save' = None
      /\ UNCHANGED <<srv, load, saved>> /\ ui' = [next EXCEPT !.rebase = None]
  BY DEF ApplyRebase, Shelve
<1>2. ui \in Editors /\ ui.draft # None /\ ui.baseline # None
  BY <1>1 DEF Strong, DraftTypeOK, ResultsAreOfTheDraft
<1>3. ui.draft \in Rows /\ ui.baseline \in Rows /\ ui.rebase \in Results /\ ui.view \in Views
  BY <1>1, <1>2, EditorFields DEF Forecast
<1>4. Begins(ui.view.revs, srv.revs)
  BY DEF Strong, ViewIsRead
<1>5. AuthorityOf(ui.view) \in Authorities /\ AuthorityOf(ui.view) # None /\ (Active(ui.view) # 0 => Effective(ui.view) \in Rows)
  BY <1>1, <1>3, <1>4, ReadAuthority
<1>6. base \in Rows
  BY <1>3, <1>5 DEF Results
<1>7. rows \in Rows
  <2> HIDE DEF base
  <2> QED BY <1>3, <1>6 DEF Rows, Merged
<1>8. u \in Editors
  <2> HIDE DEF base
  <2> QED BY <1>2, <1>5, <1>6 DEF Editors, Forecast
<1>9. /\ u.view = ui.view /\ u.key = ui.key /\ u.gen = ui.gen /\ u.preview = ui.preview /\ u.baseline = base
      /\ u.authority = AuthorityOf(ui.view)
  <2> HIDE DEF base
  <2> QED BY <1>2 DEF Editors
<1>10. next = Debounced(Invalidated(u, rows), rows)
  OBVIOUS
<1> HIDE DEF base, rows, u, next
<1> QED BY <1>1, <1>5, <1>6, <1>7, <1>8, <1>9, <1>10, DraftReplaced

\* What has landed is not behind what was on screen; with the same key, it is it.
LEMMA Landing ==
  ASSUME Strong, load # None, load.step = "land",
         NEW v, v = [build |-> load.build, ready |-> load.ready, revs |-> load.revs]
  PROVE  /\ v \in Views /\ v.build = load.build /\ v.ready = load.ready /\ v.revs = load.revs
         /\ Begins(v.revs, srv.revs) /\ Behind(v.build, v.ready) /\ NotAfter(ui.view, v.build, v.ready)
         /\ ~v.ready => v.revs = <<>>
         /\ v.ready => Len(ui.view.revs) <= Len(v.revs) /\ (ui.authority # None => ui.authority.head <= Len(v.revs))
         /\ Key(v) \in Seq(Nat)
         /\ Key(v) = ui.key => v = ui.view
<1>1. ui \in Editors /\ load \in Loads /\ srv.revs \in Seq(Revisions) /\ ui.view \in Views
  BY EditorFields DEF Strong, DraftTypeOK
<1>2. load.build \in Nat /\ load.ready \in BOOLEAN /\ load.revs \in Seq(Revisions)
  BY <1>1 DEF Loads
<1>3. v \in Views /\ v.build = load.build /\ v.ready = load.ready /\ v.revs = load.revs
  BY <1>2 DEF Views
<1>4. /\ Behind(v.build, v.ready) /\ NotAfter(ui.view, v.build, v.ready) /\ (~v.ready => v.revs = <<>>)
      /\ v.ready => /\ Begins(v.revs, srv.revs) /\ Len(ui.view.revs) <= Len(v.revs)
                    /\ ui.authority # None => ui.authority.head <= Len(v.revs)
  BY <1>3 DEF Strong, LoadIsLater
<1>5. /\ Len(v.revs) \in Nat /\ Len(srv.revs) \in Nat /\ Len(ui.view.revs) \in Nat /\ v.build \in Nat /\ ui.view.build \in Nat
      /\ ui.view.revs \in Seq(Revisions) /\ ui.view.ready \in BOOLEAN /\ v.ready \in BOOLEAN /\ v.revs \in Seq(Revisions)
  BY <1>1, <1>2, <1>3, LenProperties DEF Views
<1>6. Begins(v.revs, srv.revs)
  <2>1. v.revs = <<>> => Len(v.revs) = 0
    BY EmptySeq
  <2> QED BY <1>4, <1>5, <2>1 DEF Begins
<1>7. Key(v) \in Seq(Nat)
  BY <1>5 DEF Key
<1>8. ASSUME Key(v) = ui.key PROVE v = ui.view
  <2>1. Key(v) # <<>>
    BY <1>5 DEF Key
  <2>2. Key(v) = Key(ui.view)
    BY <1>8, <2>1 DEF Strong, ViewIsRead
  <2>3. v.ready = ui.view.ready /\ v.build = ui.view.build /\ (v.ready => Len(v.revs) = Len(ui.view.revs))
    <3>1. Len(<<v.build, Len(v.revs)>>) = 2 /\ Len(<<v.build>>) = 1 /\ Len(<<ui.view.build, Len(ui.view.revs)>>) = 2
          /\ Len(<<ui.view.build>>) = 1
      OBVIOUS
    <3>2. CASE v.ready /\ ui.view.ready
      <4>1. <<v.build, Len(v.revs)>> = <<ui.view.build, Len(ui.view.revs)>>
        BY <2>2, <3>2 DEF Key
      <4> QED BY <3>2, <4>1
    <3>3. CASE ~v.ready /\ ~ui.view.ready
      <4>1. <<v.build>> = <<ui.view.build>>
        BY <2>2, <3>3 DEF Key
      <4> QED BY <1>5, <3>3, <4>1
    <3>4. CASE v.ready /\ ~ui.view.ready
      BY <2>2, <3>1, <3>4 DEF Key
    <3>5. CASE ~v.ready /\ ui.view.ready
      BY <2>2, <3>1, <3>5 DEF Key
    <3> QED BY <3>2, <3>3, <3>4, <3>5
  <2>4. v.revs = ui.view.revs
    <3>1. CASE v.ready
      <4>1. Len(v.revs) = Len(ui.view.revs) /\ \A k \in 1..Len(v.revs) : v.revs[k] = ui.view.revs[k]
        BY <1>6, <2>3, <3>1 DEF Strong, ViewIsRead, Begins
      <4> QED BY <1>5, <4>1, SeqEqual
    <3>2. CASE ~v.ready
      BY <1>4, <2>3, <3>2 DEF Strong, ViewIsRead
    <3> QED BY <3>1, <3>2
  <2> QED BY <1>1, <1>3, <2>3, <2>4 DEF Views
<1> QED BY <1>3, <1>4, <1>6, <1>7, <1>8

LEMMA LoadLandsStrong == Strong /\ LoadLands => Strong'
<1> SUFFICES ASSUME Strong, LoadLands PROVE Strong'
  OBVIOUS
<1> DEFINE v == [build |-> load.build, ready |-> load.ready, revs |-> load.revs]
           u == Released(load, ui)
<1>1. load # None /\ load.step = "land" /\ load' = None /\ UNCHANGED <<srv, saved>>
  BY DEF LoadLands
<1>2. /\ ui' = Adopt(u, v)
      /\ calcs' = IF Key(v) = ui.key THEN calcs ELSE Dead(calcs, AllCalcs)
      /\ save' = IF Key(v) = ui.key THEN AfterLoad(load) ELSE None
  BY DEF LoadLands, Shelve
<1>3. ui \in Editors /\ calcs \in Seq(Calls)
  BY DEF Strong, DraftTypeOK
<1>4. /\ v \in Views /\ v.build = load.build /\ v.ready = load.ready /\ v.revs = load.revs
      /\ Begins(v.revs, srv.revs) /\ Behind(v.build, v.ready) /\ NotAfter(ui.view, v.build, v.ready)
      /\ ~v.ready => v.revs = <<>>
  BY <1>1, Landing
<1>5. /\ v.ready => Len(ui.view.revs) <= Len(v.revs) /\ (ui.authority # None => ui.authority.head <= Len(v.revs))
      /\ Key(v) \in Seq(Nat)
      /\ Key(v) = ui.key => v = ui.view
  BY <1>1, Landing
<1> HIDE DEF v
<1>6. u = ui \/ u = [ui EXCEPT !.pending = ""]
  BY DEF Released
<1>7. /\ u \in Editors /\ u.view = ui.view /\ u.key = ui.key /\ u.baseline = ui.baseline /\ u.draft = ui.draft /\ u.gen = ui.gen
      /\ u.authority = ui.authority /\ u.preview = ui.preview /\ u.tornado = ui.tornado /\ u.rebase = ui.rebase
      /\ u.timer = ui.timer /\ u.dirty = ui.dirty
  BY <1>3, <1>6 DEF Editors
<1>8. LoadIsLater'
  BY <1>1, NoLoad
<1>9. CASE Key(v) = ui.key
  <2>1. ui' = u
    <3>1. ui' = [u EXCEPT !.view = v]
      BY <1>2, <1>7, <1>9 DEF Adopt
    <3> QED BY <1>5, <1>7, <1>9, <3>1 DEF Editors
  <2>2. Rests
    BY <1>6, <2>1 DEF Rests
  <2>3. save' = AfterLoad(load) /\ calcs' = calcs
    BY <1>2, <1>9
  <2>4. (save' = None \/ save' = save) /\ (save # None /\ save' = None => ui' = [ui EXCEPT !.pending = ""])
    BY <2>1, <2>3 DEF AfterLoad, Released
  <2> QED BY <1>1, <1>8, <2>2, <2>3, <2>4, SaveIsOver
<1>10. CASE Key(v) # ui.key
  <2>1. calcs' \in Seq(Calls) /\ CallsAreOfTheDraft' /\ \A k \in DOMAIN calcs' : calcs'[k].kind = "late"
    <3>1. calcs' = Dead(calcs, AllCalcs)
      BY <1>2, <1>10
    <3> QED BY <1>3, <3>1, AllLate
  <2>2. save' = None /\ SaveIsOfTheDraft'
    BY <1>2, <1>10 DEF SaveIsOfTheDraft
  <2>3. ASSUME ui'.view = v, ui'.key = Key(v) PROVE ServerCounts' /\ ViewIsRead'
    <3>1. Begins(v.revs, srv'.revs) /\ v.build <= srv'.build /\ (v.ready /\ v.build = srv'.build => srv'.ready)
      BY <1>1, <1>4 DEF Behind
    <3> QED BY <1>1, <1>4, <2>3, <3>1 DEF Strong, ServerCounts, ViewIsRead, Behind
  <2>4. ASSUME ui.timer # None
        PROVE  /\ ui.timer.build < v.build \/ (v.ready /\ ui.timer.build = v.build /\ ui.timer.head <= Len(v.revs))
               /\ v.ready => ui.timer.build < v.build \/ (ui.timer.build = v.build /\ ui.timer.head < Len(v.revs))
    <3>1. /\ ui.timer.build \in Nat /\ ui.timer.head \in Nat /\ v.build \in Nat /\ ui.view.build \in Nat
          /\ Len(v.revs) \in Nat /\ Len(ui.view.revs) \in Nat /\ ui.view.ready \in BOOLEAN /\ v.ready \in BOOLEAN
      <4>1. ui.timer \in Timers
        BY <1>3, <2>4, EditorFields
      <4>2. v.revs \in Seq(Revisions) /\ ui.view.revs \in Seq(Revisions)
        BY <1>3, <1>4, EditorFields DEF Views
      <4> QED BY <1>3, <1>4, <4>1, <4>2, EditorFields, LenProperties DEF Timers, Views
    <3>2. /\ ui.timer.build < ui.view.build
             \/ (ui.view.ready /\ ui.timer.build = ui.view.build /\ ui.timer.head <= Len(ui.view.revs))
          /\ ui.view.build <= v.build /\ (ui.view.ready /\ ~v.ready => ui.view.build < v.build)
      BY <1>4, <2>4 DEF Strong, TimerIsOfTheDraft, NotAfter
    <3>3. ui.view.ready /\ v.ready /\ ui.view.build = v.build => Len(ui.view.revs) # Len(v.revs)
      <4> SUFFICES ASSUME ui.view.ready, v.ready, ui.view.build = v.build, Len(ui.view.revs) = Len(v.revs) PROVE FALSE
        OBVIOUS
      <4>1. Key(v) = Key(ui.view)
        BY DEF Key
      <4>2. ui.view # NoView
        <5>1. NoView.ready = FALSE
          BY DEF NoView
        <5> QED BY <5>1
      <4> QED BY <1>10, <4>1, <4>2 DEF Strong, ViewIsRead
    <3> QED BY <1>5, <3>1, <3>2, <3>3
  <2>5. CASE u.dirty
    <3>1. ui' = [u EXCEPT !.view = v, !.key = Key(v), !.conflict = TRUE, !.pending = ""]
      BY <1>2, <1>7, <1>10, <2>5 DEF Adopt, Preserves
    <3>2. ui' \in Editors
      BY <1>4, <1>5, <1>7, <3>1 DEF Editors
    <3>3. /\ ui'.view = v /\ ui'.key = Key(v) /\ ui'.baseline = ui.baseline /\ ui'.draft = ui.draft /\ ui'.gen = ui.gen
          /\ ui'.authority = ui.authority /\ ui'.preview = ui.preview /\ ui'.tornado = ui.tornado /\ ui'.rebase = ui.rebase
          /\ ui'.timer = ui.timer /\ ui'.dirty = ui.dirty /\ ui'.pending = ""
      BY <1>7, <3>1 DEF Editors
    <3>4. DraftTypeOK'
      BY <1>1, <2>1, <2>2, <3>2, <3>3 DEF Strong, DraftTypeOK
    <3>5. AuthorityIsRead'
      BY <1>1, <1>5, <3>3 DEF Strong, AuthorityIsRead, ActiveAt
    <3>6. ResultsAreOfTheDraft'
      BY <3>3 DEF Strong, ResultsAreOfTheDraft, OfTheDraft
    <3>7. TimerIsOfTheDraft'
      BY <2>4, <3>3 DEF Strong, TimerIsOfTheDraft, LeftBehind
    <3>8. BusyHasCause' /\ DirtyIsMarked'
      BY <1>1, <3>3 DEF Strong, BusyHasCause, DirtyIsMarked, Dirty, Changes
    <3> QED BY <1>8, <2>1, <2>2, <2>3, <3>3, <3>4, <3>5, <3>6, <3>7, <3>8 DEF Strong
  <2>6. CASE ~u.dirty
    <3> DEFINE rows == IF v.ready THEN Effective(v) ELSE None
               a == IF v.ready THEN AuthorityOf(v) ELSE None
    <3>1. ui' = [u EXCEPT !.view = v, !.key = Key(v), !.baseline = rows, !.draft = rows, !.gen = 0, !.dirty = FALSE,
                          !.authority = a, !.preview = None, !.tornado = None, !.rebase = None, !.conflict = FALSE,
                          !.pending = ""]
      BY <1>2, <1>7, <1>10, <2>6 DEF Adopt, Preserves
    <3>2. /\ rows \in Forecast /\ (rows # None => v.ready) /\ a \in Authorities \cup {None} /\ (v.ready => a # None)
          /\ a # None => v.ready /\ a.build = v.build /\ a.head = Len(v.revs) /\ a.head <= Len(srv.revs)
                         /\ a.parent = ActiveAt(a.build, a.head)
      <4>1. CASE v.ready
        <5>1. Active(v) # 0 => Effective(v) \in Rows
          BY <1>4, <4>1, ReadAuthority
        <5>2. Active(v) = 0 => Effective(v) = Defaults
          BY <1>4, <4>1, ReadAuthority
        <5>3. Effective(v) \in Rows
          BY <5>1, <5>2, Bounds
        <5>4. AuthorityOf(v) \in Authorities /\ AuthorityOf(v) # None
          BY <1>4, <4>1, ReadAuthority
        <5>5. /\ AuthorityOf(v).build = v.build /\ AuthorityOf(v).head = Len(v.revs) /\ AuthorityOf(v).head <= Len(srv.revs)
          BY <1>4, <4>1, ReadAuthority
        <5>6. AuthorityOf(v).parent = ActiveAt(AuthorityOf(v).build, AuthorityOf(v).head)
          BY <1>4, <4>1, ReadAuthority
        <5> QED BY <4>1, <5>3, <5>4, <5>5, <5>6 DEF Forecast
      <4>2. CASE ~v.ready
        BY <4>2 DEF Forecast
      <4> QED BY <4>1, <4>2
    <3> HIDE DEF rows, a
    <3>3. ui' \in Editors
      BY <1>4, <1>5, <1>7, <3>1, <3>2 DEF Editors
    <3>4. /\ ui'.view = v /\ ui'.key = Key(v) /\ ui'.baseline = rows /\ ui'.draft = rows /\ ui'.authority = a
          /\ ui'.preview = None /\ ui'.tornado = None /\ ui'.rebase = None /\ ui'.timer = ui.timer /\ ui'.pending = ""
      BY <1>7, <3>1 DEF Editors
    <3>5. DraftTypeOK'
      BY <1>1, <2>1, <2>2, <3>2, <3>3, <3>4 DEF Strong, DraftTypeOK
    <3>6. AuthorityIsRead'
      <4>1. v.ready => Len(v.revs) <= Len(v.revs)
        <5>1. Len(v.revs) \in Nat
          BY <1>4, LenProperties DEF Views
        <5> QED BY <5>1
      <4> QED BY <1>1, <3>2, <3>4, <4>1 DEF AuthorityIsRead, ActiveAt
    <3>7. ResultsAreOfTheDraft'
      BY <3>4 DEF ResultsAreOfTheDraft
    <3>8. TimerIsOfTheDraft'
      BY <2>4, <3>2, <3>4 DEF TimerIsOfTheDraft, LeftBehind
    <3>9. BusyHasCause'
      BY <3>4 DEF BusyHasCause
    <3>10. DirtyIsMarked'
      BY <3>4 DEF DirtyIsMarked, Dirty, Changes
    <3> QED BY <1>8, <2>1, <2>2, <2>3, <3>4, <3>5, <3>6, <3>7, <3>8, <3>9, <3>10 DEF Strong
  <2> QED BY <2>5, <2>6
<1> QED BY <1>9, <1>10

-----------------------------------------------------------------------------
LEMMA NextStrong == Inductive /\ [Next]_vars => Inductive'
<1> SUFFICES ASSUME Inductive, [Next]_vars PROVE Inductive'
  OBVIOUS
<1>0. Strong /\ late \subseteq Orders /\ Overtaken \subseteq Orders
  <2>1. save # None => save \in Saves
    BY DEF Inductive, Strong, DraftTypeOK
  <2> QED BY <2>1 DEF Inductive, Overtaken, Saves, Orders
<1>1. Refresh \/ ReadBuild \/ ReadRevisions \/ LoadFails => Strong'
  BY <1>0, RefreshStrong, ReadBuildStrong, ReadRevisionsStrong, LoadFailsStrong
<1>2. TimerFires \/ PreviewPressed \/ TornadoAsked \/ CalcAnswered => Strong'
  BY <1>0, TimerFiresStrong, PreviewPressedStrong, TornadoAskedStrong, CalcAnsweredStrong
<1>3. SaveArrives \/ SaveAnswered \/ SaveLost \/ SaveOvertaken \/ ColleagueSaves \/ NewBuild => Strong'
  BY <1>0, SaveArrivesStrong, SaveAnsweredStrong, SaveLostStrong, ColleagueSavesStrong, NewBuildStrong
<1>4. CASE LoadLands \/ Edit \/ SignOff \/ RebaseAsked \/ ApplyRebase
  <2>1. Strong'
    BY <1>0, <1>4, LoadLandsStrong, EditStrong, SignOffStrong, RebaseAskedStrong, ApplyRebaseStrong
  <2>2. late' \in {late, late \cup Overtaken}
    BY <1>4 DEF LoadLands, Edit, SignOff, RebaseAsked, ApplyRebase, Shelve
  <2> QED BY <1>0, <2>1, <2>2 DEF Inductive
<1>5. CASE UNCHANGED vars
  <2>1. UNCHANGED <<srv, ui, load, calcs, save, saved, late>>
    BY <1>5 DEF vars
  <2>2. DraftTypeOK'
    BY <1>0, <2>1 DEF Strong, DraftTypeOK
  <2> QED BY <1>0, <2>1, <2>2, Frames, UntouchedEditor DEF Strong, Inductive
<1>6. CASE StayNext /\ UNCHANGED late
  BY <1>0, <1>1, <1>2, <1>3, <1>6 DEF StayNext, Inductive
<1> QED BY <1>4, <1>5, <1>6, LateArrivesStrong DEF Next

LEMMA ForecastInit == Init => Inductive
BY InitStrong DEF Init, Inductive

\* The inductive invariant holds in every behaviour of the forecast editor.
THEOREM ForecastStrong == Spec => []Inductive
<1>1. Init => Inductive
  BY ForecastInit
<1>2. Inductive /\ [Next]_vars => Inductive'
  BY NextStrong
<1> QED BY <1>1, <1>2, PTL DEF Spec

LEMMA StrongIsSound == Inductive => ForecastIsSound
<1> SUFFICES ASSUME Strong, late \subseteq Orders PROVE ForecastIsSound
  BY DEF Inductive
<1>1. TypeOK /\ ui \in Editors
  BY DEF Strong, TypeOK, DraftTypeOK
<1>2. PreviewCurrent => ui.preview.rows = ui.draft /\ ui.authority = AuthorityOf(ui.view)
  <2> SUFFICES ASSUME PreviewCurrent PROVE ui.preview.rows = ui.draft /\ ui.authority = AuthorityOf(ui.view)
    OBVIOUS
  <2>1. /\ ui.preview # None /\ ui.view.ready /\ ui.authority # None /\ ui.preview.gen = ui.gen
        /\ ui.preview.build = ui.view.build /\ ui.authority.head = Len(ui.view.revs)
    BY DEF PreviewCurrent, PreviewMatches, HeadOf
  <2>2. ui.preview.rows = ui.draft /\ ui.authority.build = ui.view.build
    BY <2>1 DEF Strong, ResultsAreOfTheDraft, OfTheDraft
  <2>3. ui.authority \in Authorities /\ ui.view \in Views
    BY <1>1, <2>1, EditorFields
  <2>4. ui.authority.parent = ActiveAt(ui.view.build, Len(ui.view.revs))
    BY <2>1, <2>2 DEF Strong, AuthorityIsRead
  <2> DEFINE a == AuthorityOf(ui.view)
  <2>5. /\ a \in Authorities /\ a.build = ui.view.build /\ a.head = Len(ui.view.revs)
        /\ a.parent = ActiveAt(ui.view.build, Len(ui.view.revs))
    <3>1. Begins(ui.view.revs, srv.revs)
      BY DEF Strong, ViewIsRead
    <3>2. a \in Authorities /\ a.build = ui.view.build /\ a.head = Len(ui.view.revs)
      BY <2>1, <2>3, <3>1, ReadAuthority
    <3>3. a.parent = ActiveAt(a.build, a.head)
      BY <2>1, <2>3, <3>1, ReadAuthority
    <3> QED BY <3>2, <3>3
  <2>6. ui.authority = a
    <3> HIDE DEF a
    <3> QED BY <2>1, <2>2, <2>3, <2>4, <2>5 DEF Authorities
  <2> QED BY <2>2, <2>6
<1>3. PreviewIsOfTheDraft
  BY <1>2 DEF Strong, SaveIsOfTheDraft, PreviewIsOfTheDraft
<1>4. TornadoIsOfTheDraft
  BY DEF Strong, ResultsAreOfTheDraft, OfTheDraft, TornadoIsOfTheDraft, Mismatch
<1>5. BusyIsBusy
  <2>1. PrimaryAction = "SIGN_OFF" => ui.preview # None /\ ui.preview.gen = ui.gen
    BY DEF PrimaryAction, PreviewCurrent, PreviewMatches
  <2> QED BY <2>1 DEF Strong, BusyHasCause, BusyIsBusy
<1> QED BY <1>1, <1>3, <1>4, <1>5 DEF ForecastIsSound

LEMMA StepKeepsDraft == Inductive /\ [Next]_vars => [DraftIsKept]_vars
<1> SUFFICES ASSUME Strong, Next PROVE DraftIsKept
  BY DEF Inductive
<1>1. ui \in Editors
  BY DEF Strong, DraftTypeOK
<1>2. ASSUME ui'.draft = ui.draft PROVE DraftIsKept
  BY <1>2 DEF DraftIsKept
<1>3. CASE Refresh \/ ReadBuild \/ ReadRevisions \/ TornadoAsked \/ SaveArrives \/ LateArrives \/ ColleagueSaves \/ NewBuild
  BY <1>2, <1>3 DEF Refresh, ReadBuild, ReadRevisions, TornadoAsked, SaveArrives, LateArrives, ColleagueSaves, NewBuild
<1>4. CASE LoadFails \/ SaveLost \/ SaveOvertaken
  <2>1. Rests
    BY <1>4 DEF LoadFails, SaveLost, SaveOvertaken, Released, Rests
  <2> QED BY <1>2, <2>1, RestingEditor DEF SameDraft
<1>5. CASE TimerFires
  BY <1>1, <1>2, <1>5 DEF TimerFires, Editors
<1>6. CASE PreviewPressed \/ SignOff \/ RebaseAsked
  BY <1>1, <1>2, <1>6 DEF PreviewPressed, SignOff, RebaseAsked, Editors
<1>7. CASE SaveAnswered
  BY <1>1, <1>2, <1>7 DEF SaveAnswered, Editors
<1>8. CASE CalcAnswered
  <2> DEFINE c == calcs[1]
             u == IF c.kind \in {"preview", "rebase"} THEN [ui EXCEPT !.pending = ""] ELSE ui
             got == [build |-> c.build, parent |-> c.parent, gen |-> c.gen, rows |-> c.rows]
  <2>1. ui' = u \/ ui' = [u EXCEPT !.preview = got] \/ ui' = [u EXCEPT !.tornado = got] \/ ui' = [u EXCEPT !.rebase = got]
    BY <1>8 DEF CalcAnswered
  <2>2. u.draft = ui.draft /\ u \in Editors
    BY <1>1 DEF Editors
  <2> HIDE DEF u, got
  <2> QED BY <1>2, <2>1, <2>2 DEF Editors
<1>9. CASE Edit
  <2>1. PICK rows : ui' = Debounced(Invalidated(ui, rows), rows)
    BY <1>9 DEF Edit
  <2>2. ui'.edits = ui.edits + 1 /\ ui'.rebase = ui.rebase
    BY <1>1, <2>1 DEF Debounced, Invalidated, Editors
  <2> QED BY <2>2 DEF DraftIsKept
<1>10. CASE ApplyRebase
  <2> DEFINE base == IF Active(ui.view) # 0 THEN Effective(ui.view) ELSE ui.rebase.rows
             rows == Merged(ui.baseline, ui.draft, base)
             u == [ui EXCEPT !.baseline = base, !.authority = AuthorityOf(ui.view), !.conflict = FALSE]
  <2>1. ui' = [Debounced(Invalidated(u, rows), rows) EXCEPT !.rebase = None]
    BY <1>10 DEF ApplyRebase
  <2>2. \A s \in Changes(ui.baseline, ui.draft) : rows[s] = ui.draft[s]
    <3> HIDE DEF base
    <3> QED BY DEF Changes, Merged
  <2> HIDE DEF rows
  <2>3. ui'.edits = ui.edits + 1 /\ ui'.draft = rows
    <3>1. u.edits = ui.edits
      BY <1>1 DEF Editors
    <3>2. ui'.edits = u.edits + 1 /\ ui'.draft = rows
      <4> DEFINE b == AuthorityOf(ui.view)
      <4> HIDE DEF base
      <4> QED BY <1>1, <2>1 DEF Debounced, Invalidated, Editors
    <3> QED BY <3>1, <3>2
  <2> QED BY <2>2, <2>3 DEF DraftIsKept
<1>11. CASE LoadLands
  <2> DEFINE v == [build |-> load.build, ready |-> load.ready, revs |-> load.revs]
             u == Released(load, ui)
  <2>1. u = ui \/ u = [ui EXCEPT !.pending = ""]
    BY DEF Released
  <2>2. u \in Editors /\ u.key = ui.key /\ u.draft = ui.draft /\ u.dirty = ui.dirty
    BY <1>1, <2>1 DEF Editors
  <2>3. ui' = Adopt(u, v)
    BY <1>11 DEF LoadLands
  <2> HIDE DEF u, v
  <2>4. CASE Key(v) = u.key \/ u.dirty
    <3>1. ui'.draft = u.draft
      BY <2>2, <2>3, <2>4 DEF Adopt, Preserves, Editors
    <3> QED BY <1>2, <2>2, <3>1
  <2>5. CASE ~u.dirty
    BY <2>2, <2>5 DEF Strong, DirtyIsMarked, DraftIsKept
  <2> QED BY <2>4, <2>5
<1> QED BY <1>3, <1>4, <1>5, <1>6, <1>7, <1>8, <1>9, <1>10, <1>11 DEF Next, StayNext

\* What is on screen, and what is signed, is the calculation of the draft on the
\* authority it will be saved to; a busy button has something to wait for.
THEOREM ForecastSound == Spec => []ForecastIsSound
<1>1. Inductive => ForecastIsSound
  BY StrongIsSound
<1> QED BY <1>1, ForecastStrong, PTL

\* Unsaved changes are lost to no refresh, no rebase and no answer.
THEOREM ForecastKept == Spec => NoForecastIsLost
<1>1. Inductive /\ [Next]_vars => [DraftIsKept]_vars
  BY StepKeepsDraft
<1> QED BY <1>1, ForecastStrong, PTL DEF Spec, NoForecastIsLost

\* The same, as the run of the whole page states them.
MCStrong == part = "forecast" => Inductive
LEMMA PageStep == MCStrong /\ [MCNext]_<<part, vars, sheetVars>> => MCStrong' /\ (part = "forecast" => part' = part /\ [Next]_vars)
<1> SUFFICES ASSUME MCStrong, [MCNext]_<<part, vars, sheetVars>>
             PROVE  MCStrong' /\ (part = "forecast" => part' = part /\ [Next]_vars)
  OBVIOUS
<1>1. part' = part /\ (part = "forecast" => [Next]_vars)
  BY DEF MCNext, vars
<1> QED BY <1>1, NextStrong DEF MCStrong

\* The inductive invariant, in every behaviour of the run's specification.
THEOREM PageStrong == MCSpec => []MCStrong
<1>1. MCInit => MCStrong
  BY ForecastInit DEF MCInit, MCStrong
<1>2. MCStrong /\ [MCNext]_<<part, vars, sheetVars>> => MCStrong'
  BY PageStep
<1> QED BY <1>1, <1>2, PTL DEF MCSpec

\* The forecast half of the Model page, for every roster of slots, values,
\* scopes and bounds.
THEOREM DraftSound == MCSpec => []DraftIsSound
<1>1. MCStrong => DraftIsSound
  BY StrongIsSound DEF MCStrong, DraftIsSound
<1> QED BY <1>1, PageStrong, PTL

\* And no step of the page loses an unsaved change.
THEOREM DraftsKept == MCSpec => DraftsAreKept
<1>1. MCStrong /\ [MCNext]_<<part, vars, sheetVars>> => [part = "forecast" => DraftIsKept]_vars
  <2> SUFFICES ASSUME MCStrong, [MCNext]_<<part, vars, sheetVars>>, part = "forecast"
               PROVE  DraftIsKept \/ vars' = vars
    OBVIOUS
  <2>1. Inductive /\ [Next]_vars
    BY PageStep DEF MCStrong
  <2> QED BY <2>1, StepKeepsDraft
<1> QED BY <1>1, PageStrong, PTL DEF MCSpec, DraftsAreKept
=============================================================================
