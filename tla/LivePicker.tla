----------------------------- MODULE LivePicker -----------------------------
(***************************************************************************)
(* The picking surface of live mode (live-browser.js): the pick and insert *)
(* modes, the configure bar with its notes, the inline text editor, Go and *)
(* Create with their screenshot, voice input and the steer chat.  What a   *)
(* session does between its Go and its end is LiveSession's subject: here  *)
(* its variants arrive, it fails, is accepted or is discarded.             *)
(*                                                                         *)
(* Gestures and answers interleave freely.  Slips names the interleavings  *)
(* the code does not survive (see the README): each is a guard here, never *)
(* a change of a handler.  A running apply of staged edits, which locks    *)
(* every control, is ManualEdits' subject; layout, colours, the action     *)
(* menu and the Tune popover keep no state these properties tell apart.    *)
(***************************************************************************)
EXTENDS Naturals, FiniteSets, Sequences

CONSTANTS
  Elements,     \* elements of the page that can be picked; all of them hold text
  Box,          \* the dotted placeholder of an insert
  Preview,        \* what a session shows in place of the element
  None,
  Slips,        \* interleavings let happen beyond the ones the code survives
  MaxGestures,  \* bound: what the user does
  MaxSessions,  \* bound: Go and Create presses
  MaxSteers     \* bound: steer messages

PickerAssumption ==
  /\ {None, Box, Preview} \cap Elements = {} /\ Cardinality({None, Box, Preview}) = 3
  /\ Slips \subseteq {"toggle", "insert_arrow", "voice_arrow", "slow_save", "late_variants",
                      "late_error", "late_failure", "late_discard", "busy_exit"}
  /\ MaxGestures \in Nat /\ MaxSessions \in Nat /\ MaxSteers \in Nat

VARIABLES
  p,       \* the page's variables
  shots,   \* screenshots being taken or uploaded, with the request they precede
  sent,    \* generate requests posted
  saving,  \* the element whose edited text is being stashed, typed in again since or not
  dropping, \* sessions whose discard is under way
  steer,   \* the steer chat: the id it waits for, the words it holds
  posts,   \* steer posts under way
  due,     \* steers the agent has not replied to
  up,      \* the event stream is open
  count    \* gestures, sessions and steers so far

vars == <<p, shots, sent, saving, dropping, steer, posts, due, up, count>>

Silent    == [mode |-> "off", el |-> None]
NotSaving == [el |-> None, again |-> FALSE]

Init ==
  /\ \E mode \in {"pick", "insert", "neither"} :   \* loadInteractionPrefs
       p = [st |-> IF mode = "neither" THEN "IDLE" ELSE "PICKING",
            pick |-> mode = "pick", ins |-> mode = "insert",
            over |-> None, line |-> None, sel |-> None, box |-> FALSE, kind |-> "replace",
            bar |-> "", overlay |-> FALSE, marks |-> {}, rows |-> None, dirty |-> {},
            sess |-> 0, watch |-> 0, lock |-> 0, arrived |-> FALSE, voice |-> Silent]
  /\ shots = {} /\ sent = {} /\ saving = NotSaving /\ dropping = {}
  /\ steer = [id |-> 0, words |-> 0]
  /\ posts = {} /\ due = {}
  /\ up = TRUE
  /\ count = [gestures |-> 0, sessions |-> 0, steers |-> 0]

-----------------------------------------------------------------------------
(* The helpers the handlers share; q is the page's record. *)

(* stopVoice and releaseVoiceEngine: the recogniser's callbacks are taken off first. *)
StopVoice(q) == [q EXCEPT !.voice = Silent]

(* clearInsertPicking, finalizeInsertSession, removeInsertPlaceholderDom. *)
FinalizeInsert(q) == [q EXCEPT !.box = FALSE, !.kind = "replace"]
ClearInsertPicking(q) == [FinalizeInsert(q) EXCEPT !.line = None]

DisableInlineEdit(q) == [q EXCEPT !.rows = None]
RestoreDrafts(q) == [q EXCEPT !.dirty = @ \ {q.rows}]
(* startScrollLock, startVariantObserver; stopScrollLock. *)
HoldScroll(q, id) == [q EXCEPT !.lock = id]
Watch(q, id) == [q EXCEPT !.watch = id, !.arrived = FALSE]
DropNotes(q) == [q EXCEPT !.overlay = FALSE, !.marks = {}]   \* hideAnnotOverlay, clearAnnotations

HideBarRough(q) == [DisableInlineEdit(StopVoice(q)) EXCEPT !.bar = ""]

HideBar(q) ==
  LET quiet == StopVoice(q)
      bare  == IF q.kind = "insert" THEN ClearInsertPicking(quiet) ELSE quiet
      text  == IF q.st = "EDITING" THEN RestoreDrafts(bare) ELSE bare
  IN  [DisableInlineEdit(text) EXCEPT !.bar = ""]

ConfigureWithNotes(q, e) ==
  [q EXCEPT !.st = "CONFIGURING", !.sel = e, !.bar = "configure", !.overlay = TRUE]

(* showInsertLine, hideInsertLine: where a click would insert. *)
AimInsert(q, e) == [q EXCEPT !.line = e]
(* createInsertPlaceholder *)
PutPlaceholder(q) == [AimInsert(q, None) EXCEPT !.box = TRUE, !.kind = "insert"]

(* Click, Enter and arrows put the configure bar on an element with no notes yet. *)
Configure(q, e) ==
  [q EXCEPT !.st = "CONFIGURING", !.sel = e, !.bar = "configure", !.overlay = TRUE, !.marks = {}]

CancelInsertConfigure(q) ==
  [ClearInsertPicking(DropNotes(HideBar(q)))
     EXCEPT !.sel = None, !.st = IF q.ins THEN "PICKING" ELSE "IDLE"]

(* teardownConfigureChrome, exitConfigureToPicking. *)
ExitConfigure(q, clearHover) ==
  [DropNotes(HideBar(q)) EXCEPT !.st = "PICKING", !.over = IF clearHover THEN None ELSE @]

CancelEditingToPicking(q) == ExitConfigure(q, TRUE)
CancelEditing(q) ==
  [DisableInlineEdit(RestoreDrafts(q)) EXCEPT !.st = "CONFIGURING", !.bar = "configure", !.overlay = TRUE]

TogglePickInPlace(q) ==
  IF ~q.pick
  THEN [ClearInsertPicking([q EXCEPT !.pick = TRUE, !.ins = FALSE]) EXCEPT !.st = IF @ = "IDLE" THEN "PICKING" ELSE @]
  ELSE [DropNotes(HideBar([q EXCEPT !.pick = FALSE])) EXCEPT !.sel = None, !.over = None, !.kind = "replace"]

TogglePick(q) ==
  LET off == [q EXCEPT !.pick = FALSE]
  IN  IF ~q.pick
      THEN [ClearInsertPicking([q EXCEPT !.pick = TRUE, !.ins = FALSE])
              EXCEPT !.st = IF @ = "IDLE" THEN "PICKING" ELSE @]
      ELSE IF q.kind = "insert" /\ q.st = "CONFIGURING" THEN CancelInsertConfigure(off)
      ELSE [DropNotes(HideBar(off)) EXCEPT
              !.sel = None, !.over = None, !.kind = "replace",
              !.st = IF @ \in {"PICKING", "CONFIGURING"} THEN "IDLE" ELSE @]

ToggleInsert(q) ==
  LET on == [HideBar([q EXCEPT !.ins = TRUE, !.pick = FALSE]) EXCEPT !.sel = None, !.kind = "replace"]
  IN  IF q.ins
      THEN [ClearInsertPicking([q EXCEPT !.ins = FALSE])
              EXCEPT !.st = IF @ = "PICKING" /\ ~q.pick THEN "IDLE" ELSE @]
      ELSE IF q.st = "CONFIGURING" THEN CancelInsertConfigure(on)
      ELSE [on EXCEPT !.st = IF @ = "IDLE" THEN "PICKING" ELSE @]

EndSessionKeepingLock(q) ==
  [Watch(HideBar(q), 0) EXCEPT !.st = "PICKING", !.sel = None, !.sess = 0]

(* cleanup, and cleanupAcceptedSession, which leaves the insert alone. *)
EndSession(q) ==
  [HoldScroll(Watch(HideBar(q), 0), 0) EXCEPT !.st = "PICKING", !.sel = None, !.sess = 0]
Cleanup(q) == FinalizeInsert(EndSession(q))

-----------------------------------------------------------------------------
(* Gestures. *)

(* What the rows of the bar offer while they are shown; the edit badge sits *)
(* on a replaced element that holds text.                                   *)
ConfigureRow == p.st = "CONFIGURING" /\ p.bar = "configure" /\ p.kind = "replace"
InsertRow    == p.st = "CONFIGURING" /\ p.bar = "configure" /\ p.kind = "insert"
CyclingRow   == p.st = "CYCLING" /\ p.bar = "cycling"
EditBadge    == p.st = "CONFIGURING" /\ p.sel \in Elements
TextBadge    == p.st = "EDITING" /\ p.rows /= None

Gesture == count.gestures < MaxGestures
Counted == count' = [count EXCEPT !.gestures = @ + 1]
Page(q) == /\ p.st /= "GONE"
           /\ p' = q
           /\ q /= p
           /\ UNCHANGED <<shots, sent, saving, dropping, steer, posts, due, up>>
Does(q) == Gesture /\ Page(q) /\ Counted

(* handleMouseMove *)
Move(e) ==
  \/ /\ p.st = "PICKING" /\ p.ins
     /\ Does(AimInsert(p, e))
  \/ /\ p.st = "PICKING" /\ p.pick /\ ~p.ins /\ e /= None
     /\ Does([p EXCEPT !.over = e])

(* handleClick on the page, inside the selected element or not. *)
Click ==
  \/ /\ p.st = "EDITING" /\ p.sel /= None
     /\ Does(CancelEditingToPicking(p))
  \/ /\ p.st = "CONFIGURING" /\ p.sel /= None
     /\ Does(IF p.kind = "insert" THEN CancelInsertConfigure(p) ELSE ExitConfigure(p, TRUE))
  \/ /\ p.st = "PICKING" /\ p.ins /\ p.line /= None
     /\ Does(Configure(PutPlaceholder(p), Box))
  \/ /\ p.st = "PICKING" /\ p.pick /\ ~p.ins /\ p.over /= None
     /\ Does(Configure(p, p.over))

(* handleKeyDown: Escape. *)
Escape ==
  \/ p.st = "EDITING" /\ Does(CancelEditing(p))
  \/ p.st = "CONFIGURING"
     /\ Does(IF p.kind = "insert" THEN CancelInsertConfigure(p) ELSE ExitConfigure(p, FALSE))
  \/ p.st = "PICKING"
     /\ Does(IF p.ins THEN ToggleInsert(p) ELSE IF p.pick THEN TogglePick(p)
             ELSE [p EXCEPT !.st = "IDLE"])

(* handleKeyDown: Escape in CYCLING, and the bar's discard: handleDiscard. *)
Discard ==
  /\ Gesture /\ Counted
  /\ CyclingRow /\ p.sess /= 0 /\ p.sess \notin dropping
  /\ dropping' = dropping \union {p.sess}
  /\ UNCHANGED <<p, shots, sent, saving, steer, posts, due, up>>

(* handleKeyDown: Enter takes the hovered element whatever the mode is. *)
Enter == p.st = "PICKING" /\ p.over /= None /\ Does(Configure(p, p.over))

(* handleKeyDown: the arrows walk the hovered element or re-select; the row *)
(* is rebuilt while a voice session keeps the old row's input.              *)
Arrow(e) ==
  \/ /\ p.st = "PICKING" /\ p.over \notin {None, e}
     /\ Does([p EXCEPT !.over = e])
  \/ /\ p.st = "CONFIGURING" /\ p.sel \notin {None, e}
     /\ p.kind = "replace" \/ "insert_arrow" \in Slips
     /\ p.voice = Silent \/ "voice_arrow" \in Slips
     /\ Does(DisableInlineEdit(Configure(p, e)))

Toggles ==
  /\ "toggle" \in Slips \/ p.st \in {"IDLE", "PICKING"} \/ (p.st = "CONFIGURING" /\ p.kind = "replace")
  /\ \/ Does(TogglePick(p))
     \/ Does(ToggleInsert(p))

(* removeConfigureSelection: the pill's cross. *)
RemoveSelection ==
  /\ ConfigureRow \/ InsertRow
  /\ Does(IF p.kind = "insert" THEN CancelInsertConfigure(p)
          ELSE ExitConfigure([p EXCEPT !.sel = None], TRUE))

(* onAnnotDown and onAnnotUp: a pin or a stroke over the selected element. *)
Annotate == p.overlay /\ Does([p EXCEPT !.marks = @ \union {p.sel}])

(* enterEditingMode, enableInlineEdit; onInlineInput; Escape inside the     *)
(* text, which takes the typing back.                                       *)
EnterEditing ==
  /\ EditBadge /\ p.kind = "replace"
  /\ Does([HideBar([p EXCEPT !.st = "EDITING"]) EXCEPT !.overlay = FALSE, !.rows = p.sel])
TypeText ==
  /\ p.st = "EDITING" /\ p.rows /= None
  /\ \/ saving = NotSaving /\ Does([p EXCEPT !.dirty = @ \union {p.rows}])
     \/ /\ "slow_save" \in Slips /\ saving.el = p.rows /\ Gesture /\ Counted
        /\ saving' = [saving EXCEPT !.again = TRUE]
        /\ UNCHANGED <<p, shots, sent, dropping, steer, posts, due, up>>
UntypeText == p.rows \in p.dirty /\ saving = NotSaving /\ Does(RestoreDrafts(p))

(* applyEditing: nothing typed is a cancel; the answer is awaited with the  *)
(* editor open.                                                             *)
SaveText ==
  /\ TextBadge /\ saving = NotSaving
  /\ \/ p.rows \notin p.dirty /\ Does(CancelEditing(p))
     \/ /\ p.rows \in p.dirty /\ up /\ Gesture /\ Counted
        /\ saving' = [el |-> p.rows, again |-> FALSE]
        /\ UNCHANGED <<p, shots, sent, dropping, steer, posts, due, up>>

-----------------------------------------------------------------------------
(* Go and Create. *)

AskedAhead(el, said, marks) ==
  [id |-> count.sessions + 2, el |-> el, said |-> said, marks |-> marks]

Asked(el, said, marks) ==
  [id |-> count.sessions + 1, el |-> el, said |-> said, marks |-> marks]

(* handleGo, handleInsertCreate: the bar turns at once, the request follows *)
(* the screenshot.                                                          *)
Generating(q, el) ==
  LET id == count.sessions + 1
  IN  [HoldScroll(Watch(DropNotes(DisableInlineEdit(StopVoice(q))), id), id) EXCEPT
         !.st = "GENERATING", !.sel = el, !.bar = "generating", !.sess = id]

Press(el, said) ==
  /\ count.sessions < MaxSessions
  /\ p' = Generating(p, el)
  /\ shots' = shots \union {[ask |-> Asked(el, said, p.marks), at |-> "taking"]}
  /\ UNCHANGED <<sent, saving, dropping, steer, posts, due, up>>

CanGo == ConfigureRow /\ p.sel /= None
(* canCreateInsert: a prompt or a note. *)
CanCreate(prompt) == InsertRow /\ p.box /\ (prompt \/ p.marks /= {})

Go == /\ CanGo \/ (\E prompt \in BOOLEAN : CanCreate(prompt))
      /\ Gesture
      /\ Press(IF p.kind = "insert" THEN Box ELSE p.sel, None)
      /\ count' = [count EXCEPT !.gestures = @ + 1, !.sessions = @ + 1]

(* captureAndEmit: the notes travel with the request; only they make it    *)
(* upload the picture first.  A capture or an upload that fails posts too. *)
CaptureEnds(s) ==
  /\ s.at = "taking"
  /\ shots' = (shots \ {s}) \union (IF s.ask.marks /= {} THEN {[s EXCEPT !.at = "uploading"]} ELSE {})
  /\ sent' = IF s.ask.marks = {} THEN sent \union {s.ask} ELSE sent
  /\ UNCHANGED <<p, saving, dropping, steer, posts, due, up, count>>

UploadEnds(s) ==
  /\ s.at = "uploading"
  /\ shots' = shots \ {s}
  /\ sent' = sent \union {s.ask}
  /\ UNCHANGED <<p, saving, dropping, steer, posts, due, up, count>>

(* startVariantObserver: the variants of the watched session are all there, *)
(* whatever the bar shows by now.                                           *)
VariantsArrive ==
  /\ p.watch /= 0 /\ ~p.arrived /\ \E a \in sent : a.id = p.watch
  /\ p.st = "GENERATING" \/ "late_variants" \in Slips
  /\ LET insert == \E a \in sent : a.id = p.watch /\ a.el = Box
     IN  Page([DisableInlineEdit(IF insert THEN FinalizeInsert(p) ELSE p) EXCEPT
                 !.st = "CYCLING", !.arrived = TRUE, !.sel = Preview, !.bar = "cycling"])
  /\ UNCHANGED count

(* connectSSE, error: for any session; the session, its observer and its    *)
(* scroll lock stay.                                                        *)
ErrorArrives ==
  /\ up /\ sent /= {}
  /\ p.st = "GENERATING" \/ "late_error" \in Slips
  /\ Page([HideBar(p) EXCEPT !.st = "PICKING"])
  /\ UNCHANGED count

(* handleAccept, maybeCompleteAcceptedSession, scheduleAcceptCleanup. *)
Accept == CyclingRow /\ p.arrived /\ (dropping = {} \/ "late_discard" \in Slips)
          /\ Does([p EXCEPT !.st = "SAVING", !.bar = "saving"])
AcceptConfirmed == up /\ p.st = "SAVING" /\ Page([p EXCEPT !.st = "CONFIRMED"]) /\ UNCHANGED count
AcceptCleanup == p.st = "CONFIRMED" /\ Page(EndSession(p)) /\ UNCHANGED count

(* handleDiscard's answer. *)
Discarded(s) ==
  /\ s \in dropping
  /\ dropping' = dropping \ {s}
  /\ p' = Cleanup(p)
  /\ UNCHANGED <<shots, sent, saving, steer, posts, due, up, count>>

(* applyEditing's answer: the page keeps the new text when it was stashed. *)
SaveAnswered(ok) ==
  /\ saving /= NotSaving
  /\ p.rows = saving.el \/ "slow_save" \in Slips
  /\ saving' = NotSaving
  /\ p' = IF ~ok THEN p
          ELSE [DisableInlineEdit(p) EXCEPT
                  !.st = "CONFIGURING", !.bar = "configure", !.overlay = TRUE,
                  !.dirty = IF saving.again THEN @ ELSE @ \ {saving.el}]
  /\ UNCHANGED <<shots, sent, dropping, steer, posts, due, up, count>>

(* handleServerLost, after the stream's last retry. *)
ServerLost ==
  /\ up /\ p.st /= "GONE"
  /\ up' = FALSE
  /\ p' = [HideBar(p) EXCEPT !.overlay = FALSE, !.watch = 0, !.lock = 0, !.sel = None,
                             !.st = IF p.sess = 0 THEN "IDLE" ELSE @]
  /\ UNCHANGED <<shots, sent, saving, dropping, steer, posts, due, count>>

(* teardown: the exit button. *)
Exit ==
  /\ Gesture /\ Counted /\ p.st /= "GONE"
  /\ (p.st \notin {"CONFIGURING", "CONFIRMED"} /\ dropping = {} /\ saving = NotSaving) \/ "busy_exit" \in Slips
  /\ p' = [Cleanup(p) EXCEPT !.st = "GONE"]
  /\ up' = FALSE
  /\ UNCHANGED <<shots, sent, saving, dropping, steer, posts, due>>

-----------------------------------------------------------------------------
(* Voice and steer. *)

(* toggleConfigureVoice, toggleSteerVoice, startVoice. *)
Talk ==
  \/ p.voice /= Silent /\ Does(StopVoice(p))
  \/ /\ p.voice = Silent /\ (ConfigureRow \/ InsertRow)
     /\ Does([p EXCEPT !.voice = [mode |-> "configure", el |-> p.sel]])
  \/ /\ p.voice = Silent /\ p.st /= "CONFIGURING" /\ steer.id = 0
     /\ Does([p EXCEPT !.voice = [mode |-> "steer", el |-> None]])

NextSteer == count.steers + 1

(* submitSteerMessage, lockSteerChat. *)
Submit ==
  /\ count.steers < MaxSteers
  /\ steer' = [id |-> NextSteer, words |-> NextSteer]
  /\ posts' = posts \union {NextSteer}
  /\ UNCHANGED <<shots, sent, saving, dropping, due, up>>

SubmitSteer ==
  /\ Gesture /\ p.st /= "GONE" /\ steer.id = 0
  /\ Submit /\ p' = StopVoice(p)
  /\ count' = [count EXCEPT !.gestures = @ + 1, !.steers = @ + 1]

(* finishVoiceSession: words were heard, and the mode's own submit is pressed. *)
VoiceEnds ==
  /\ p.voice /= Silent
  /\ \/ /\ p.voice.mode = "steer" /\ steer.id = 0
        /\ Submit /\ p' = StopVoice(p)
        /\ count' = [count EXCEPT !.steers = @ + 1]
     \/ /\ p.voice.mode = "configure" /\ (CanGo \/ CanCreate(TRUE))
        /\ Press(IF p.kind = "insert" THEN Box ELSE p.sel, p.voice.el)
        /\ count' = [count EXCEPT !.sessions = @ + 1]
     \/ /\ Page(StopVoice(p)) /\ UNCHANGED count        \* an error, or nothing heard

(* unlockSteerChat: a failure puts the words back, an answer clears them. *)
Unlock(words) == steer' = [id |-> 0, words |-> words]
SteerStep == UNCHANGED <<p, shots, sent, saving, dropping, up, count>>

CompletesAny(id) == steer.id /= 0

(* maybeCompleteSteer: the chat waits for one id and takes no other answer. *)
Completes(id) == id = steer.id

SteerReplied(id, ok) ==
  /\ up /\ id \in due
  /\ due' = due \ {id}
  /\ IF Completes(id) THEN Unlock(IF ok THEN 0 ELSE steer.words) ELSE UNCHANGED steer
  /\ UNCHANGED posts /\ SteerStep

(* scheduleSteerAwaitTimeout *)
SteerTimesOut ==
  /\ steer.id /= 0
  /\ Unlock(steer.words)
  /\ UNCHANGED <<posts, due>> /\ SteerStep

(* sendEvent's answer; a failed post unlocks with the words of that post,  *)
(* whichever steer the chat waits for by then.                             *)
SteerPosted(id, ok) ==
  /\ id \in posts
  /\ id = steer.id \/ ok \/ "late_failure" \in Slips
  /\ posts' = posts \ {id}
  /\ due' = IF ok THEN due \union {id} ELSE due
  /\ IF ok THEN UNCHANGED steer ELSE Unlock(id)
  /\ SteerStep

Next ==
  \/ \E e \in Elements \union {None} : Move(e)
  \/ \E e \in Elements : Arrow(e)
  \/ Click \/ Escape \/ Discard \/ Enter \/ Toggles \/ RemoveSelection \/ Annotate
  \/ EnterEditing \/ TypeText \/ UntypeText \/ SaveText
  \/ Go \/ Accept \/ Exit \/ Talk \/ SubmitSteer
  \/ \E s \in shots : CaptureEnds(s) \/ UploadEnds(s)
  \/ VariantsArrive \/ ErrorArrives \/ AcceptConfirmed \/ AcceptCleanup
  \/ \E s \in dropping : Discarded(s)
  \/ \E ok \in BOOLEAN : SaveAnswered(ok)
  \/ ServerLost \/ VoiceEnds
  \/ SteerTimesOut
  \/ \E id \in due, ok \in BOOLEAN : SteerReplied(id, ok)
  \/ \E id \in posts, ok \in BOOLEAN : SteerPosted(id, ok)

Spec == Init /\ [][Next]_vars

-----------------------------------------------------------------------------
(* Properties. *)

Ids == 0..MaxSessions
Selectable == Elements \union {Box, Preview, None}
Asks == [id : Ids, el : Elements \union {Box}, said : Elements \union {Box, None}, marks : SUBSET Selectable]

(* Every field of the page's record, and what is under way, is of its kind. *)
TypeOK ==
  /\ p.st \in {"IDLE", "PICKING", "CONFIGURING", "EDITING", "GENERATING", "CYCLING", "SAVING",
              "CONFIRMED", "GONE"}
  /\ p.bar \in {"", "configure", "generating", "cycling", "saving"}
  /\ {p.pick, p.ins, p.box, p.overlay, p.arrived} \subseteq BOOLEAN
  /\ {p.over, p.line, p.rows} \subseteq Elements \union {None}
  /\ p.sel \in Selectable /\ p.kind \in {"replace", "insert"}
  /\ p.marks \subseteq Selectable /\ p.dirty \subseteq Elements
  /\ {p.sess, p.watch, p.lock} \subseteq Ids
  /\ p.voice \in [mode : {"off", "configure", "steer"}, el : Selectable]
  /\ shots \subseteq [ask : Asks, at : {"taking", "uploading"}] /\ sent \subseteq Asks
  /\ dropping \subseteq Ids /\ posts \union due \subseteq 1..MaxSteers
  /\ steer \in [id : 0..MaxSteers, words : 0..MaxSteers]

(* While the bar configures or the text is edited there is an element on   *)
(* the page to do it to: one of the page's own, or the placeholder of the  *)
(* insert while it is in the page (handleClick, handleKeyDown, the toggles *)
(* and the late answers all leave those states their own way).             *)
SelectionIsOnPage ==
  up /\ p.st \in {"CONFIGURING", "EDITING"} =>
    \/ p.sel \in Elements /\ p.kind = "replace"
    \/ p.sel = Box /\ p.box /\ p.kind = "insert" /\ p.st = "CONFIGURING"

(* Whatever way the user leaves, the page is as it was: no text typed and  *)
(* not saved, nothing editable, no placeholder without its insert, no      *)
(* overlay that would take the page's clicks (hideBar, teardown, cleanup). *)
PageIsLeftClean ==
  /\ p.dirty \subseteq {p.rows}
  /\ p.rows /= None => p.st = "EDITING"
  /\ p.box => p.kind = "insert" /\ p.st \in {"CONFIGURING", "GENERATING"}
  /\ p.overlay => p.st = "CONFIGURING"

(* The page's scroll is held, and its mutations watched, for the session   *)
(* the bar has, and for no other (startScrollLock, startVariantObserver,   *)
(* cleanup, handleServerLost).                                             *)
ScrollIsHeldForTheSession ==
  /\ {p.lock, p.watch} \subseteq {0, p.sess}
  /\ up => p.lock = p.sess /\ p.watch = p.sess

(* A generate request carries the notes drawn on its own element and the   *)
(* words spoken about it, and each Go posts one (captureAndEmit, voice).   *)
RequestIsAboutItsElement ==
  /\ \A a \in sent : a.marks \subseteq {a.el} /\ a.said \in {None, a.el}
  /\ \A a, b \in sent : a.id = b.id => a = b

(* The steer chat stops waiting only with the reply to its own message or  *)
(* with that message back in the input (maybeCompleteSteer, the timeout,   *)
(* a failed post).                                                         *)
SteerEnds ==
  steer.id /= 0 /\ steer'.id = 0 =>
    \/ steer'.words = steer.words
    \/ steer.id \in due \ due'
SteerEndsByItsOwn == [][SteerEnds]_vars

(* The picker leaves the page as it found it, in whatever state and by     *)
(* whatever way the user goes.                                             *)
PageIsSafe == TypeOK /\ SelectionIsOnPage /\ PageIsLeftClean /\ ScrollIsHeldForTheSession
=============================================================================
