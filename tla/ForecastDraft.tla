---------------------------- MODULE ForecastDraft ----------------------------
(***************************************************************************)
(* The forecast editor (components/model/ModelBuilder.tsx with             *)
(* modelBuilderState.ts): a local draft over the assumptions of the active *)
(* revision, its recalculated preview and tornado, the sign-off that saves *)
(* it and the rebase after another actor moved the model's authority.      *)
(*                                                                         *)
(* The code tells a late answer by counters (requestGeneration, action-,   *)
(* preview-, tornadoGeneration); they are only compared with their value   *)
(* at the request, so a request carries the verdict: live, until a later   *)
(* one or an invalidation takes its place.  A forecast is a function of    *)
(* its slots; labels, formatting and the export buttons are left out.      *)
(***************************************************************************)
EXTENDS Naturals, Sequences

CONSTANTS None, Slot, Values,
          Entries,                    \* the values the analyst types
          Scopes,                     \* the groups of slots one entry is written to: a slot, or the row
          Defaults,                   \* a build's own assumptions
          Theirs,                     \* what a colleague may save
          MaxMoves, MaxEdits, MaxCalcs

VARIABLES srv,      \* server: [build, ready, revs] and what others did to it; a revision is [build, rows]
          ui,       \* the component's state and refs
          load,     \* the refresh in flight; one that a later one overtook changes nothing
          calcs,    \* the calculation queue of the tab (queueCalculation)
          save,     \* the sign-off in flight whose answer still counts
          late,     \* sign-offs overtaken before the server saw them: nobody waits for their answer
          saved     \* the forecasts this editor saved
vars == <<srv, ui, load, calcs, save, saved, late>>

Rows == [Slot -> Values]
Forecast == Rows \cup {None}
AllCalcs == {"preview", "tornado", "rebase"}
Revisions == [build : Nat, rows : Rows]
Views == [build : Nat, ready : BOOLEAN, revs : Seq(Revisions)]
Authorities == [build : Nat, parent : Nat, head : Nat]
Results == [build : Nat, parent : Nat, gen : Nat, rows : Rows]
Timers == [rows : Rows, gen : Nat, build : Nat, ready : BOOLEAN, head : Nat]
Loads == [step : {"builds", "revisions", "land"}, build : Nat, ready : BOOLEAN, revs : Seq(Revisions), for : {None, "sign-off"}]
Calls == [kind : AllCalcs, build : Nat, parent : Nat, gen : Nat, rows : Rows, key : Seq(Nat)] \cup [kind : {"late"}]
Saves == [build : Nat, parent : Nat, head : Nat, rows : Rows, shown : Rows, gen : Nat, key : Seq(Nat),
          step : {"sent", "ok", "conflict", "reload"}]
Orders == [build : Nat, parent : Nat, head : Nat, rows : Rows]
Editors == [view : Views, key : Seq(Nat), baseline : Forecast, draft : Forecast, gen : Nat, edits : Nat,
            authority : Authorities \cup {None}, preview : Results \cup {None}, tornado : Results \cup {None},
            conflict : BOOLEAN, rebase : Results \cup {None}, pending : {"", "preview", "sign-off", "rebase"},
            dirty : BOOLEAN, timer : Timers \cup {None}]

\* None is none of the things it stands in for; what is typed, assumed by a
\* build or saved by a colleague is a forecast.
ASSUME ForecastAssumption ==
  /\ None \notin Rows \cup Authorities \cup Results \cup Timers \cup Loads \cup Saves \cup {"sign-off"}
  /\ Defaults \in Rows /\ Theirs \subseteq Rows
  /\ Entries \subseteq Values /\ \A scope \in Scopes : scope \subseteq Slot
  /\ MaxMoves \in Nat /\ MaxEdits \in Nat /\ MaxCalcs \in Nat

NoView == [build |-> 0, ready |-> FALSE, revs |-> <<>>]
\* authorityKey: all that the analysed model is made of.
Key(v) == IF v.ready THEN <<v.build, Len(v.revs)>> ELSE <<v.build>>
HeadOf(v) == Len(v.revs)
\* The latest revision signed on the build; 0 when there is none.
Active(v) ==
  IF v.revs # <<>> /\ v.revs[Len(v.revs)].build = v.build THEN Len(v.revs) ELSE 0
Effective(v) == IF Active(v) = 0 THEN Defaults ELSE v.revs[Active(v)].rows
AuthorityOf(v) == [build |-> v.build, parent |-> Active(v), head |-> HeadOf(v)]

Changes(before, rows) == IF before = None THEN {} ELSE {s \in Slot : rows[s] # before[s]}
Dirty == Changes(ui.baseline, ui.draft) # {}
Mismatch ==
  ui.view.ready /\ ui.authority # None
    /\ (ui.authority.build # ui.view.build \/ ui.authority.head # HeadOf(ui.view))
PreviewMatchesAnyDraft(p) ==
  /\ p # None /\ ui.view.ready /\ ui.authority # None
  /\ p.build = ui.view.build /\ p.parent = ui.authority.parent
  /\ ui.authority.head = HeadOf(ui.view) \* mutant
PreviewMatches(p) ==
  /\ p # None /\ ui.view.ready /\ ui.authority # None
  /\ p.build = ui.view.build /\ p.parent = ui.authority.parent /\ p.gen = ui.gen
  /\ ui.authority.head = HeadOf(ui.view)
PreviewCurrent == PreviewMatches(ui.preview)
\* primaryModelAction, for an analyst who may write.
PrimaryAction ==
  IF Mismatch THEN "none"
  ELSE IF ~ui.view.ready THEN "wait"
  ELSE IF ~Dirty THEN "none" ELSE IF PreviewCurrent THEN "SIGN_OFF" ELSE "PREVIEW"

\* A calculation nobody waits for keeps its place in the queue: a posted one
\* until it is answered, another one until the queue reaches it.
Late == [kind |-> "late"]
Dead(seq, kinds) == [k \in DOMAIN seq |-> IF seq[k].kind \in kinds THEN Late ELSE seq[k]]
\* A sign-off that actionGeneration has passed changes nothing here any more;
\* it is still on its way to the server, or it is over.
Overtaken ==
  IF save = None THEN {}
  ELSE IF save.step = "sent" THEN {[build |-> save.build, parent |-> save.parent, head |-> save.head, rows |-> save.rows]} ELSE {}
Shelve == save' = None /\ late' = late \cup Overtaken
Asked(for) == [step |-> "builds", build |-> 0, ready |-> FALSE, revs |-> <<>>, for |-> for]
-----------------------------------------------------------------------------
Init ==
  /\ srv = [build |-> 1, ready |-> TRUE, revs |-> <<>>, moves |-> 0]
  /\ ui = [view |-> NoView, key |-> <<>>, baseline |-> None, draft |-> None, gen |-> 0, edits |-> 0,
           authority |-> None, preview |-> None, tornado |-> None, conflict |-> FALSE, rebase |-> None,
           pending |-> "", dirty |-> FALSE, timer |-> None]
  /\ load = Asked(None)
  /\ calcs = <<>> /\ save = None /\ saved = {} /\ late = {}

(* refresh: two rounds of requests, then one render. *)
\* The button rests while its own refresh is under way.
Refresh ==
  /\ IF load = None THEN TRUE ELSE load.for = "sign-off"
  /\ load' = Asked(None)
  /\ UNCHANGED <<srv, ui, calcs, save, saved>>
ReadBuild ==
  /\ load # None /\ load.step = "builds"
  /\ load' = [load EXCEPT !.step = IF srv.ready THEN "revisions" ELSE "land", !.build = srv.build, !.ready = srv.ready]
  /\ UNCHANGED <<srv, ui, calcs, save, saved>>
ReadRevisions ==
  /\ load # None /\ load.step = "revisions"
  /\ load' = [load EXCEPT !.step = "land", !.revs = srv.revs]
  /\ UNCHANGED <<srv, ui, calcs, save, saved>>

\* What a sign-off does after its refresh, unless it was overtaken meanwhile.
Awaits(l) == IF save = None THEN FALSE ELSE save.step = "reload" /\ l.for = "sign-off"
Released(l, u) == IF Awaits(l) THEN [u EXCEPT !.pending = ""] ELSE u
AfterLoad(l) == IF Awaits(l) THEN None ELSE save
PreservesNothing(u) == FALSE \* mutant
Preserves(u) == u.dirty
\* The new view over a draft that is kept, or over the draft of the new authority.
Adopt(u, v) ==
  IF Key(v) = u.key THEN [u EXCEPT !.view = v]
  ELSE IF Preserves(u) THEN [u EXCEPT !.view = v, !.key = Key(v), !.conflict = TRUE, !.pending = ""]
  ELSE LET rows == IF v.ready THEN Effective(v) ELSE None
       IN [u EXCEPT !.view = v, !.key = Key(v), !.baseline = rows, !.draft = rows, !.gen = 0, !.dirty = FALSE,
                    !.authority = IF v.ready THEN AuthorityOf(v) ELSE None, !.preview = None, !.tornado = None,
                    !.rebase = None, !.conflict = FALSE, !.pending = ""]
LoadLands ==
  LET v == [build |-> load.build, ready |-> load.ready, revs |-> load.revs]
      u == Released(load, ui)
  IN /\ load # None /\ load.step = "land" /\ load' = None
     /\ ui' = Adopt(u, v)
     /\ calcs' = IF Key(v) = ui.key THEN calcs ELSE Dead(calcs, AllCalcs)
     /\ IF Key(v) = ui.key THEN save' = AfterLoad(load) /\ UNCHANGED late ELSE Shelve
     /\ UNCHANGED <<srv, saved>>
LoadFails ==
  /\ load # None /\ load' = None
  /\ ui' = Released(load, ui) /\ save' = AfterLoad(load)
  /\ UNCHANGED <<srv, calcs, saved>>
-----------------------------------------------------------------------------
(* invalidatePreview: the draft becomes rows; whatever was under way is late. *)
InvalidatedKeepingGeneration(u, rows) ==
  [u EXCEPT !.draft = rows, !.tornado = None, !.edits = @ + 1,
            !.dirty = Changes(u.baseline, rows) # {}, !.pending = IF @ = "preview" THEN "" ELSE @] \* mutant
Invalidated(u, rows) ==
  [u EXCEPT !.gen = @ + 1, !.draft = rows, !.tornado = None, !.edits = @ + 1,
            !.dirty = Changes(u.baseline, rows) # {}, !.pending = IF @ = "preview" THEN "" ELSE @]
\* The debounce keeps the closure of the render it was set in.
Debounced(u, rows) ==
  [u EXCEPT !.timer = [rows |-> rows, gen |-> u.gen, build |-> u.view.build, ready |-> u.view.ready, head |-> HeadOf(u.view)]]

\* A value for one period, or broadcast to all of them.
Edit ==
  /\ ui.view.ready /\ ui.draft # None /\ ui.edits < MaxEdits
  /\ \E scope \in Scopes, x \in Entries :
       LET rows == [s \in Slot |-> IF s \in scope THEN x ELSE ui.draft[s]]
       IN rows # ui.draft /\ ui' = Debounced(Invalidated(ui, rows), rows)
  /\ calcs' = Dead(calcs, AllCalcs) /\ Shelve
  /\ UNCHANGED <<srv, load, saved>>

\* previewDraft: nothing is sent for a draft of another authority or without changes.
Sends(rows, build, ready, head) ==
  /\ ready /\ ui.authority # None
  /\ ui.authority.build = build /\ ui.authority.head = head
  /\ Changes(ui.baseline, rows) # {}
Ask(rows, gen, build, parent, kind) ==
  Append(Dead(calcs, {kind}),
         [kind |-> kind, build |-> build, parent |-> parent, gen |-> gen, rows |-> rows, key |-> ui.key])
TimerFires ==
  LET t == ui.timer
  IN /\ t # None /\ Len(calcs) < MaxCalcs
     /\ IF Sends(t.rows, t.build, t.ready, t.head)
        THEN /\ calcs' = Ask(t.rows, t.gen, t.build, ui.authority.parent, "preview")
             /\ ui' = [ui EXCEPT !.timer = None, !.pending = "preview"]
        ELSE UNCHANGED calcs /\ ui' = [ui EXCEPT !.timer = None]
     /\ UNCHANGED <<srv, load, save, saved>>
PreviewPressed ==
  /\ PrimaryAction = "PREVIEW" /\ ui.pending # "preview" /\ Len(calcs) < MaxCalcs
  /\ Sends(ui.draft, ui.view.build, TRUE, HeadOf(ui.view))
  /\ calcs' = Ask(ui.draft, ui.gen, ui.view.build, ui.authority.parent, "preview")
  /\ ui' = [ui EXCEPT !.pending = "preview"]
  /\ UNCHANGED <<srv, load, save, saved>>
\* The tornado of the forecast on screen (an effect, 150 ms after it settles).
TornadoAsked ==
  /\ ui.view.ready /\ ui.draft # None /\ ~Mismatch /\ (Dirty => PreviewCurrent) /\ ui.tornado = None
  /\ calcs = <<>>
  /\ calcs' = Ask(ui.draft, ui.gen, ui.view.build, ui.authority.parent, "tornado")
  /\ UNCHANGED <<srv, ui, load, save, saved>>

\* isCurrent, asked when the queue reaches the calculation and again at its
\* answer.  What is late stays late, so that one not sent and one sent in vain
\* end alike, and one step stands for both.
IsCurrent(c) == c.kind = "rebase" \/ (c.kind # "late" /\ c.key = ui.key /\ c.gen = ui.gen)
CalcAnswered ==
  /\ calcs # <<>>
  /\ calcs' = Tail(calcs)
  /\ LET c == calcs[1]
         u == IF c.kind \in {"preview", "rebase"} THEN [ui EXCEPT !.pending = ""] ELSE ui
         got == [build |-> c.build, parent |-> c.parent, gen |-> c.gen, rows |-> c.rows]
         landed == CASE c.kind = "preview" /\ IsCurrent(c) -> [u EXCEPT !.preview = got]
                     [] c.kind = "tornado" /\ IsCurrent(c) -> [u EXCEPT !.tornado = got]
                     [] c.kind = "rebase"                   -> [u EXCEPT !.rebase = got]
                     [] OTHER -> u
     IN \/ ui' = landed
        \/ ui' = u
  /\ UNCHANGED <<srv, load, save, saved>>
-----------------------------------------------------------------------------
(* signOff.  The button rests only while it reads "Saving": a preview that    *)
(* came after it was pressed frees it, and the next sign-off takes over.     *)
SignOff ==
  /\ PrimaryAction = "SIGN_OFF" /\ ui.pending # "sign-off"
  /\ save' = [build |-> ui.view.build, parent |-> ui.authority.parent, head |-> ui.authority.head, rows |-> ui.draft,
              shown |-> ui.preview.rows, gen |-> ui.gen, key |-> ui.key, step |-> "sent"]
  /\ ui' = [ui EXCEPT !.pending = "sign-off", !.conflict = FALSE]
  /\ calcs' = Dead(calcs, {"rebase"})
  /\ late' = late \cup Overtaken
  /\ UNCHANGED <<srv, load, saved>>
\* The server takes it on the head and the build it was drafted for.
Accepted(s) == srv.ready /\ s.build = srv.build /\ s.head = Len(srv.revs) /\ s.parent = Active(srv)
Received(s) ==
  IF Accepted(s)
  THEN srv' = [srv EXCEPT !.revs = Append(@, [build |-> s.build, rows |-> s.rows])] /\ saved' = saved \cup {s.rows}
  ELSE UNCHANGED <<srv, saved>>
SaveArrives ==
  /\ save # None /\ save.step = "sent"
  /\ Received(save) /\ save' = [save EXCEPT !.step = IF Accepted(save) THEN "ok" ELSE "conflict"]
  /\ UNCHANGED <<ui, load, calcs>>
LateArrives == \E s \in late :
  /\ Received(s) /\ late' = late \ {s}
  /\ UNCHANGED <<ui, load, calcs, save>>
SaveAnswered ==
  /\ save # None /\ save.step \in {"ok", "conflict"}
  /\ IF save.key = ui.key /\ (save.step = "ok" => save.gen = ui.gen)
     THEN /\ ui' = IF save.step = "ok" THEN [ui EXCEPT !.dirty = FALSE] ELSE [ui EXCEPT !.conflict = TRUE]
          /\ load' = Asked("sign-off") /\ save' = [save EXCEPT !.step = "reload"]
     ELSE ui' = [ui EXCEPT !.pending = ""] /\ save' = None /\ UNCHANGED load
  /\ UNCHANGED <<srv, calcs, saved>>
SaveLost ==
  /\ save # None /\ save.step # "reload"
  /\ ui' = [ui EXCEPT !.pending = ""] /\ save' = None
  /\ UNCHANGED <<srv, load, calcs, saved>>
\* A refresh that another one overtook returns to the sign-off as well.
SaveOvertaken ==
  /\ save # None /\ save.step = "reload"
  /\ IF load = None THEN TRUE ELSE load.for # "sign-off"
  /\ ui' = [ui EXCEPT !.pending = ""] /\ save' = None
  /\ UNCHANGED <<srv, load, calcs, saved>>
-----------------------------------------------------------------------------
(* requestRebase and applyRebase *)
\* What the page offers to rebase on: the draft's parent or the active revision
\* where the authority changed under a dirty draft, and in the list of versions
\* each one that is not active.
Rebasable ==
  {r \in DOMAIN ui.view.revs : r # Active(ui.view) \/ ((ui.conflict \/ Mismatch) /\ Dirty /\ ui.authority.parent \in {0, r})}
Rebasing(r) == ui.pending = "rebase" /\ \E k \in DOMAIN calcs : calcs[k].kind = "rebase" /\ calcs[k].parent = r
RebaseAsked ==
  /\ ui.view.ready /\ ui.draft # None /\ Len(calcs) < MaxCalcs
  /\ \E r \in Rebasable : \E rows \in {Defaults, ui.view.revs[r].rows} :
       ~Rebasing(r) /\ calcs' = Ask(rows, ui.gen + 1, ui.view.build, r, "rebase")
  /\ ui' = [ui EXCEPT !.pending = "rebase"] /\ Shelve
  /\ UNCHANGED <<srv, load, saved>>
MergedTheirs(before, rows, next) == [s \in Slot |-> IF rows[s] # before[s] /\ next[s] = before[s] THEN rows[s] ELSE next[s]] \* mutant
\* Local changes win over the new baseline, slot by slot.
Merged(before, rows, next) == [s \in Slot |-> IF rows[s] # before[s] THEN rows[s] ELSE next[s]]
ApplyRebase ==
  /\ ui.rebase # None /\ ui.view.ready /\ ui.rebase.build = ui.view.build /\ ui.edits < MaxEdits
  /\ LET base == IF Active(ui.view) # 0 THEN Effective(ui.view) ELSE ui.rebase.rows
         rows == Merged(ui.baseline, ui.draft, base)
         u == [ui EXCEPT !.baseline = base, !.authority = AuthorityOf(ui.view), !.conflict = FALSE]
     IN ui' = [Debounced(Invalidated(u, rows), rows) EXCEPT !.rebase = None]
  /\ calcs' = Dead(calcs, AllCalcs) /\ Shelve
  /\ UNCHANGED <<srv, load, saved>>
-----------------------------------------------------------------------------
(* The server, moved by others: a colleague's sign-off, an accepted run and *)
(* the build that follows it.                                               *)
ColleagueSaves ==
  /\ srv.ready /\ srv.moves < MaxMoves
  /\ \E rows \in Theirs : srv' = [srv EXCEPT !.revs = Append(@, [build |-> srv.build, rows |-> rows]), !.moves = @ + 1]
  /\ UNCHANGED <<ui, load, calcs, save, saved>>
NewBuild ==
  /\ srv.moves < MaxMoves \/ ~srv.ready
  /\ srv' = IF srv.ready THEN [srv EXCEPT !.build = @ + 1, !.ready = FALSE, !.moves = @ + 1] ELSE [srv EXCEPT !.ready = TRUE]
  /\ UNCHANGED <<ui, load, calcs, save, saved>>

StayNext ==
  \/ Refresh \/ ReadBuild \/ ReadRevisions \/ LoadFails
  \/ TimerFires \/ PreviewPressed \/ TornadoAsked \/ CalcAnswered
  \/ SaveArrives \/ SaveAnswered \/ SaveLost \/ SaveOvertaken
  \/ ColleagueSaves \/ NewBuild
Next ==
  \/ StayNext /\ UNCHANGED late
  \/ LoadLands \/ Edit \/ SignOff \/ LateArrives \/ RebaseAsked \/ ApplyRebase
Spec == Init /\ [][Next]_vars
-----------------------------------------------------------------------------
DraftTypeOK ==
  /\ srv \in [build : 1..(MaxMoves + 1), ready : BOOLEAN, revs : Seq(Revisions), moves : 0..MaxMoves]
  /\ ui \in Editors /\ (ui.baseline = None <=> ui.draft = None) /\ (ui.draft # None => ui.authority # None)
  /\ load \in Loads \cup {None} /\ calcs \in Seq(Calls) /\ save \in Saves \cup {None} /\ saved \subseteq Rows
TypeOK == DraftTypeOK /\ late \subseteq Orders

\* What is shown and signed as the forecast's preview is the calculation of
\* exactly the draft on screen, on the build and the parent it will be saved to.
PreviewIsOfTheDraft ==
  /\ PreviewCurrent => ui.preview.rows = ui.draft /\ ui.authority = AuthorityOf(ui.view)
  /\ save # None => save.rows = save.shown
\* The tornado on screen is of the draft, and of the build on screen unless the
\* page says that the authority changed.
TornadoIsOfTheDraft ==
  ui.tornado # None => /\ ui.tornado.rows = ui.draft
                       /\ ui.tornado.build = ui.view.build \/ ui.conflict \/ Mismatch \/ ~ui.view.ready
\* A button that reads "Recalculating…" or "Saving…" has something to wait for.
BusyIsBusy ==
  /\ ui.pending = "preview" => \E k \in DOMAIN calcs : calcs[k].kind = "preview"
  /\ PrimaryAction = "SIGN_OFF" /\ ui.pending = "sign-off" => save # None
ForecastIsSound == TypeOK /\ PreviewIsOfTheDraft /\ TornadoIsOfTheDraft /\ BusyIsBusy

\* Unsaved changes leave the draft only by the analyst's own edit, or because
\* they are saved; a rebase keeps each of them.
DraftIsKept ==
  Dirty /\ ui'.draft # ui.draft =>
    \/ ui'.edits = ui.edits + 1 /\ ui'.rebase = ui.rebase
    \/ ui'.edits = ui.edits + 1 /\ \A s \in Changes(ui.baseline, ui.draft) : ui'.draft[s] = ui.draft[s]
    \/ ui.draft \in saved
NoForecastIsLost == [][DraftIsKept]_vars
=============================================================================
