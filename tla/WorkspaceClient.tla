--------------------------- MODULE WorkspaceClient ---------------------------
(***************************************************************************)
(* The analyst's browser tab (components/Workspace.tsx with                *)
(* lib/workspaceAuthority.ts): which case and run are selected, what the   *)
(* tab shows for them, and the requests it has in flight.  Every await is  *)
(* fenced by a RequestContext (generation, case, run) and, where two       *)
(* requests of a kind may overlap, by a counter of that kind.              *)
(*                                                                         *)
(* A React update renders at once here.  Its passive effects (Effects) run *)
(* later, before the next gesture but not before the next answer; those of *)
(* a click or a key that selects are flushed with it (Flushed).  Wording,  *)
(* focus repair and layout are left out.                                   *)
(* AuthorityState.pending always carries the current context, so           *)
(* matchesPendingRequest is matchesAuthority and pending is left out.      *)
(***************************************************************************)
EXTENDS Naturals, FiniteSets

CONSTANTS Case, Run, CaseOf, None,
          Fresh,        \* Fresh[c]: the one run the server creates for c on request
          Links,        \* the links (or history entries) the analyst may follow
          Writes,       \* the governed writes the analyst uses
          Failing,      \* the kinds of request that may fail
          RouteRaces,   \* may an answer arrive while the tab is following a link?
          AskRaces,     \* may an intake be answered while the analyst is asked about a draft?
          EarlyBack,    \* may Back be pressed before the register has loaded?
          Opening,      \* Opening[c]: c's current run when the tab opens
          Over,         \* the runs that had ended before the tab opened
          MaxGestures, MaxRushes, MaxDrops, MaxEnds

VARIABLES w,        \* the tab: React state and refs
          head,     \* server: each case's current_execution_id
          done,     \* server: the runs that have ended
          wish,     \* history: the case the analyst asked for last
          gestures, rushes, drops
vars == <<w, head, done, wish, gestures, rushes, drops>>

\* What may be selected: a case, none, or what a link names.
Selectable == Case \cup {None} \cup {l.case : l \in Links}
Link == [case : Selectable, run : Run \cup {None}]
Shown == [id : Run, ended : {"live", "ended"}]
Question == [to : {"case", "link"}, case : Selectable, run : Run \cup {None}]
Timer == [under : Link \cup {None}, asked : Link, case : Selectable, run : Run \cup {None}, known : SUBSET Case]
Kinds == {"cases", "case", "run", "evidence", "start", "intake", "upload", "resume", "accept"}
Request == [kind : Kinds, case : Selectable, run : Run \cup {None}, fresh : BOOLEAN, last : BOOLEAN,
            of : Kinds \cup {"none"}, arg : Run \cup {None}, saw : {"unread", "live", "ended"}]

ASSUME WorkspaceAssumption ==
  /\ None \notin Case \cup Run /\ Case # {}
  /\ None \notin Link /\ None \notin Shown /\ None \notin Question /\ None \notin Timer
  /\ CaseOf \in [Run -> Case] /\ Over \subseteq Run
  /\ Fresh \in [Case -> Run] /\ Opening \in [Case -> Run \cup {None}]
  /\ \A c \in Case : CaseOf[Fresh[c]] = c /\ Fresh[c] \notin Over
  /\ Links \subseteq Link
  /\ Writes \subseteq Kinds \ {"cases", "case", "run"}

NoCases == [c \in {} |-> None]
Known(t) == DOMAIN t.reg
Authorized(t) == t.case \in Known(t)
----------------------------------------------------------------------------
(* lib/workspaceAuthority.ts *)
\* The generation and the counters are only ever compared with their value when the request
\* was sent, so a request carries the answers: fresh (no generation since) and last (no
\* later request of its kind).
MatchesAnything(t, q) == TRUE \* mutant: answers are fenced by their counters only
Matches(t, q) == q.fresh /\ q.case = t.case /\ q.run = t.run
Bump(t, kind) == [t EXCEPT !.net = {IF q.kind = kind THEN [q EXCEPT !.last = FALSE] ELSE q : q \in @}]

Moved(t, c, r) ==
  [t EXCEPT !.case = c, !.run = r, !.moved = TRUE, !.net = {[q EXCEPT !.fresh = FALSE] : q \in @},
            !.status = IF c = None THEN "idle" ELSE "loading"]

SelectCaseEvent(t, c)   == IF t.case = c THEN t ELSE Moved(t, c, None)
SelectRunEvent(t, c, r) == IF t.case # c \/ t.run = r THEN t ELSE Moved(t, c, r)
RequestStarted(t)       == IF t.case = None THEN t ELSE Moved(t, t.case, t.run)
InvalidateRunSwapped(t, c, r) == IF t.case # c \/ t.run # r THEN t ELSE Moved(t, r, None) \* mutant: swapped arguments
InvalidateRun(t, c, r)  == IF t.case # c \/ t.run # r THEN t ELSE Moved(t, c, None)
CaseSettled(t, q, s)    == IF Matches(t, q) THEN [t EXCEPT !.status = s] ELSE t
----------------------------------------------------------------------------
(* Selections *)
CommitCaseSelection(t, c, current) ==
  LET picked == SelectCaseEvent(t, c)
      run    == IF c \in DOMAIN current THEN current[c] ELSE None
      bound  == IF run = None THEN picked ELSE SelectRunEvent(picked, c, run)
  IN  [Bump(bound, "evidence") EXCEPT
                    !.busy = FALSE, !.action = "none", !.drawer = None, !.dialog = None, !.view = None, !.shown = None, !.failed = FALSE, !.intake = None,
                    !.lost = None, !.dirty = FALSE]

\* selectCase asks before it drops a draft; Blocked is its FALSE answer.
NeverBlocked(t, c) == FALSE \* mutant: selectCase forgets the draft
Blocked(t, c) == c # t.case /\ t.dirty
SelectCase(t, c, current) ==
  CASE c = t.case    -> t
    [] Blocked(t, c) -> IF t.ask = None THEN [t EXCEPT !.ask = [to |-> "case", case |-> c, run |-> None]] ELSE t
    [] OTHER         -> CommitCaseSelection(t, c, current)
----------------------------------------------------------------------------
(* Requests.  "of" is the write whose handler awaits this read. *)
Sent(t, kind, of, arg) ==
  [t EXCEPT !.net = @ \cup {[kind |-> kind, case |-> t.case, run |-> t.run, fresh |-> TRUE, last |-> TRUE, of |-> of, arg |-> arg, saw |-> "unread"]}]

RefreshCase(t, of) ==
  Sent(Bump(t, "case"), "case", of, None)
RefreshRun(t, of) ==
  IF t.run = None THEN [t EXCEPT !.shown = None, !.busy = FALSE]
  ELSE Sent([Bump(t, "run") EXCEPT !.busy = TRUE, !.failed = FALSE], "run", of, t.run)

\* The finally of a write's handler: most clear any pending action, startRun its own.
Release(t, q) ==
  IF q.of # "none" /\ Matches(t, q) /\ (q.of \in {"start", "resume"} => t.action = q.of)
  THEN [t EXCEPT !.action = "none"] ELSE t

\* What follows the read a write awaits: accept reads the case, then the run.
Resume(t, q) ==
  IF q.kind = "case" /\ q.of = "accept" /\ t.run # None /\ q.run = t.run
  THEN RefreshRun(t, IF Matches(t, q) THEN "accept" ELSE "none") ELSE Release(t, q)
----------------------------------------------------------------------------
(* Effects, in the order they are declared; each runs when its dependencies changed. *)
RouteDeps(t)  == <<t.case, t.reg, t.loading, t.asked, t.run>>
GenDeps(t)    == <<t.case, Authorized(t)>>
UrlDeps(t)    == <<t.case, t.run, t.lost>>
RunDeps(t)    == <<Authorized(t), t.run>>
StreamDeps(t) == <<t.case, t.run, t.shown>>
Settled(t) == /\ t.ran.route = RouteDeps(t)  /\ t.ran.gen = GenDeps(t) /\ ~t.moved /\ t.ran.url = UrlDeps(t)
              /\ t.ran.run = RunDeps(t)      /\ t.ran.stream = StreamDeps(t)

RouteEffect(t) ==
  LET waits == t.asked.case # None /\ t.asked.case \notin Known(t) /\ t.loading
  IN  IF t.ran.route = RouteDeps(t) THEN t
      ELSE [t EXCEPT !.ran.route = RouteDeps(t),
                     !.timer = IF t.claimed = t.asked \/ waits THEN None
                               ELSE [under |-> t.claimed, asked |-> t.asked, case |-> t.case,
                                     run |-> t.run, known |-> Known(t)]]

GenerationEffect(t) ==
  LET u == [Bump(t, "evidence") EXCEPT !.ran.gen = GenDeps(t), !.moved = FALSE, !.view = None,
                                     !.drawer = None]
  IN  IF t.ran.gen = GenDeps(t) /\ ~t.moved THEN t
      ELSE IF Authorized(t) THEN RefreshCase(u, "none") ELSE u

\* mutant: the effect does not claim the address it writes
UrlEffectUnclaimed(t) ==
  IF t.ran.url = UrlDeps(t) THEN t
  ELSE [t EXCEPT !.ran.url = UrlDeps(t), !.loc = [case |-> t.case, run |-> t.run]]
UrlEffect(t) ==
  LET here == [case |-> t.case, run |-> t.run]
  IN  IF t.ran.url = UrlDeps(t) THEN t
      ELSE IF t.case = None /\ t.lost # None THEN [t EXCEPT !.ran.url = UrlDeps(t)]
      ELSE [t EXCEPT !.ran.url = UrlDeps(t), !.claimed = here, !.loc = here]

RunEffect(t) ==
  LET u == [t EXCEPT !.ran.run = RunDeps(t)]
  IN  IF t.ran.run = RunDeps(t) THEN t
      ELSE IF t.run # None /\ Authorized(t) THEN RefreshRun(u, "none") ELSE u

Live(t) == /\ t.run # None /\ t.shown # None /\ t.shown.id = t.run
           /\ CaseOf[t.shown.id] = t.case /\ t.shown.ended = "live"
StreamEffect(t) ==
  IF t.ran.stream = StreamDeps(t) THEN t
  ELSE [t EXCEPT !.ran.stream = StreamDeps(t),
                 !.stream = IF ~Live(t) THEN [run |-> None, open |-> FALSE]
                            ELSE IF t.stream.run = t.run THEN t.stream
                            ELSE [run |-> t.run, open |-> FALSE]]

Flushed(t) == StreamEffect(RunEffect(UrlEffect(GenerationEffect(RouteEffect(t)))))
Effects ==
  /\ ~Settled(w)
  /\ w' = Flushed(w)
  /\ UNCHANGED <<head, done, wish, gestures, rushes, drops>>

\* The zero timeout the route effect scheduled, with the render's values.
RouteFires ==
  /\ w.timer # None
  /\ LET r == w.timer
         t == [w EXCEPT !.timer = None]
         followed == [t EXCEPT !.claimed = r.asked]
     IN  w' = CASE w.claimed # r.under -> t
                [] w.claimed = r.under /\ r.asked.case \in r.known /\ r.asked.case # r.case ->
                     IF Blocked(t, r.asked.case)
                     THEN [SelectCase(t, r.asked.case, t.reg) EXCEPT !.loc = [case |-> r.case, run |-> r.run]]
                     ELSE LET u == SelectCase(followed, r.asked.case, t.reg)
                          IN  IF r.asked.run = None THEN u ELSE SelectRunEvent(u, r.asked.case, r.asked.run)
                [] OTHER ->
                     IF r.asked.run = None \/ r.asked.run = r.run THEN followed
                     ELSE SelectRunEvent([followed EXCEPT !.shown = None], r.case, r.asked.run)
  /\ UNCHANGED <<head, done, wish, gestures, rushes, drops>>

\* useSearchParams follows the address bar.
SearchFollows ==
  /\ w.asked # w.loc
  /\ w' = [w EXCEPT !.asked = w.loc]
  /\ UNCHANGED <<head, done, wish, gestures, rushes, drops>>
----------------------------------------------------------------------------
(* Answers *)
First(S) == CHOOSE c \in S : TRUE
CasesAnswered(t, q, ok) ==
  LET link   == t.loc
      loaded == [t EXCEPT !.reg = head, !.loading = FALSE]
      bad    == link.case # None /\ link.case \notin Case
      to     == IF t.case \in Case THEN t.case ELSE IF link.case \in Case THEN link.case
                ELSE IF link.case # None THEN None ELSE First(Case)
      parked == IF to # t.case /\ bad THEN [loaded EXCEPT !.claimed = link] ELSE loaded
      chosen == SelectCase(parked, to, head)
      routed == IF to # t.case /\ link.run # None /\ ~bad THEN SelectRunEvent(chosen, to, link.run) ELSE chosen
      bound  == IF routed.run # None \/ link.run # None \/ to = None \/ head[to] = None THEN routed
                ELSE SelectRunEvent(routed, to, head[to])
        current == Matches(t, q) /\ q.last
  IN  CASE ~current        -> t
        [] current /\ ~ok -> [t EXCEPT !.loading = FALSE]
        [] OTHER -> IF Blocked(parked, to) THEN chosen
                    ELSE [RequestStarted(bound) EXCEPT !.lost = IF bad THEN link.case ELSE None]

CaseAnswered(t, q, ok) ==
  LET current == q.last /\ Matches(t, q)
      u == [t EXCEPT !.view = q.case,
                     !.reg = [c \in Known(t) |-> IF c = q.case THEN head[c] ELSE t.reg[c]]]
  IN  Resume(IF ~current THEN t ELSE IF ok THEN CaseSettled(u, q, "ready") ELSE CaseSettled(t, q, "error"), q)

RunAnswered(t, q, ok) ==
  LET current == q.last /\ Matches(t, q)
      shown   == [t EXCEPT !.shown = [id |-> q.arg, ended |-> q.saw], !.busy = FALSE]
      foreign == InvalidateRun([t EXCEPT !.shown = None, !.busy = FALSE, !.failed = TRUE], t.case, q.arg)
  IN  IF ~current THEN Release(t, q)
      ELSE Release(IF ~ok THEN [t EXCEPT !.failed = TRUE, !.busy = FALSE]
                   ELSE IF CaseOf[q.arg] # t.case THEN foreign ELSE shown, q)

\* An intake answers with the case its documents name and the run the host started there.
Fits(t, q) == Matches(t, q) /\ (q.kind \in {"start", "intake"} => q.last)
WriteAnswered(t, q, ok) ==
  LET current == Fits(t, q)
      cleared == [Bump(t, "cases") EXCEPT !.action = "none"]
      started == [t EXCEPT !.shown = [id |-> q.arg, ended |-> "live"],
                           !.action = IF @ = "start" THEN "none" ELSE @]
      adopted == IF CaseOf[q.arg] # t.case
                 THEN CommitCaseSelection([cleared EXCEPT !.reg = [c \in Known(t) \cup {CaseOf[q.arg]} |->
                        IF c = CaseOf[q.arg] THEN q.arg ELSE t.reg[c]]], CaseOf[q.arg], [c \in {CaseOf[q.arg]} |-> q.arg])
                 ELSE SelectRunEvent(cleared, t.case, q.arg)
  IN  CASE ~current -> t
        [] current /\ ~ok -> Release(t, q)
        [] current /\ ok /\ q.kind = "start"  -> SelectRunEvent(started, t.case, q.arg)
        [] current /\ ok /\ q.kind = "intake" ->
             [adopted EXCEPT !.shown = [id |-> q.arg, ended |-> "live"], !.intake = CaseOf[q.arg]]
        [] current /\ ok /\ q.kind = "resume" -> RefreshRun([t EXCEPT !.shown = [id |-> q.run, ended |-> "live"]], "resume")
        [] OTHER -> RefreshCase(t, q.kind)

\* openModelEvidence: the drawer opens only for the last evidence asked for.
EvidenceAnswered(t, q, ok) ==
  IF ok /\ q.last /\ Matches(t, q) THEN [t EXCEPT !.drawer = q.case] ELSE t

LinkFollowed == w.asked = w.loc /\ w.timer = None
Served(q) == q.kind = "run" => q.saw # "unread"
Answer(q, ok) ==
  /\ q \in w.net /\ Served(q)
  /\ ok \/ q.kind \in Failing
  /\ RouteRaces \/ (LinkFollowed /\ w.ran.route = RouteDeps(w))
  /\ AskRaces \/ w.ask = None \/ q.kind # "intake"
  /\ LET t == [w EXCEPT !.net = @ \ {q}]
     IN  w' = CASE q.kind = "cases" -> CasesAnswered(t, q, ok)
                [] q.kind = "case"  -> CaseAnswered(t, q, ok)
                [] q.kind = "run"   -> RunAnswered(t, q, ok)
                [] q.kind = "evidence" -> EvidenceAnswered(t, q, ok)
                [] OTHER            -> WriteAnswered(t, q, ok)
  /\ head' = IF ok /\ q.kind \in {"start", "intake"} THEN [head EXCEPT ![CaseOf[q.arg]] = q.arg] ELSE head
  /\ wish' = IF ok /\ q.kind = "intake" /\ Fits(w, q) THEN CaseOf[q.arg] ELSE wish
  /\ UNCHANGED <<done, gestures, rushes, drops>>

\* The server reads the run for GET /api/runs/{id}.
Serve(q) ==
  /\ q \in w.net /\ q.kind = "run" /\ q.saw = "unread"
  /\ w' = [w EXCEPT !.net = (@ \ {q}) \cup {[q EXCEPT !.saw = IF q.arg \in done THEN "ended" ELSE "live"]}]
  /\ UNCHANGED <<head, done, wish, gestures, rushes, drops>>
----------------------------------------------------------------------------
(* The event stream of the run on show *)
Follows(t) == Authorized(t) /\ t.stream.run # None /\ t.stream.run = t.run
\* mutant: a (re)connected stream does not refresh the run
StreamOpensSilently ==
  /\ w.stream.run # None /\ ~w.stream.open /\ w' = [w EXCEPT !.stream.open = TRUE]
  /\ UNCHANGED <<head, done, wish, gestures, rushes, drops>>
StreamOpens ==
  /\ w.stream.run # None /\ ~w.stream.open
  /\ w' = LET u == [w EXCEPT !.stream.open = TRUE] IN IF Follows(w) THEN RefreshRun(u, "none") ELSE u
  /\ UNCHANGED <<head, done, wish, gestures, rushes, drops>>

StreamDrops ==
  /\ w.stream.open /\ drops < MaxDrops
  /\ w' = [w EXCEPT !.stream.open = FALSE]
  /\ drops' = drops + 1
  /\ UNCHANGED <<head, done, wish, gestures, rushes>>

RunEnds(r) ==
  /\ r = w.run /\ r \notin done /\ Cardinality(done \ Over) < MaxEnds
  /\ \A c \in Case : r = Fresh[c] => head[c] = r
  /\ done' = done \cup {r}
  /\ w' = IF w.stream.run = r /\ w.stream.open /\ Follows(w) THEN RefreshRun(w, "none") ELSE w
  /\ UNCHANGED <<head, wish, gestures, rushes, drops>>
----------------------------------------------------------------------------
(* The analyst *)
\* At most MaxRushes gestures come while an answer is outstanding.
Gesture ==
  /\ Settled(w) /\ gestures < MaxGestures /\ (w.net # {} => rushes < MaxRushes)
  /\ gestures' = gestures + 1
  /\ rushes' = IF w.net = {} THEN rushes ELSE rushes + 1
Modal == w.ask # None \/ w.dialog # None
Server == UNCHANGED <<head, done, drops>>

\* A same-tab link is asked about while a draft is dirty; Back and Forward are DraftHistory's.
Navigate(to) ==
  /\ Gesture /\ ~Modal /\ ~w.loading /\ LinkFollowed /\ to # w.loc
  /\ IF w.dirty THEN w' = [w EXCEPT !.ask = [to |-> "link", case |-> to.case, run |-> to.run]] /\ UNCHANGED wish
                ELSE w' = [w EXCEPT !.loc = to] /\ wish' = IF to.case \in Case THEN to.case ELSE None
  /\ Server

\* The browser's own Back, which a modal dialog does not stop.
Back(to) ==
  /\ Gesture /\ ~w.dirty /\ (EarlyBack \/ ~w.loading) /\ LinkFollowed /\ to # w.loc
  /\ w' = [w EXCEPT !.loc = to]
  /\ wish' = IF to.case \in Case THEN to.case ELSE None
  /\ Server

PickCase(c) ==
  /\ Gesture /\ ~Modal /\ c \in Known(w) /\ c # w.case
  /\ w' = Flushed(SelectCase(w, c, w.reg))
  /\ wish' = IF w.dirty THEN wish ELSE c
  /\ Server

AnswerDiscard(yes) ==
  /\ w.ask # None /\ Settled(w) /\ (yes /\ w.ask.to = "link" => LinkFollowed)
  /\ LET t == [w EXCEPT !.ask = None]
     IN  w' = IF ~yes THEN t
              ELSE IF w.ask.to = "case" THEN Flushed(CommitCaseSelection(t, w.ask.case, t.reg))
              ELSE [t EXCEPT !.loc = [case |-> w.ask.case, run |-> w.ask.run], !.dirty = FALSE]
  /\ wish' = IF yes /\ w.ask.case \in Case THEN w.ask.case ELSE None
  /\ Server /\ UNCHANGED <<gestures, rushes>>

EditDraft ==
  /\ Gesture /\ ~Modal /\ Authorized(w) /\ ~w.dirty
  /\ w' = [w EXCEPT !.dirty = TRUE]
  /\ Server /\ UNCHANGED <<wish>>

\* upload, submitIntake, startRun, resumeRun: a button that is disabled only by its own name.
\* provisionMember and switchSnapshot read the case after their answer as upload does, and
\* approveResearchPlan the run as resumeRun does.
Post(kind, r) ==
  /\ Gesture /\ ~Modal /\ kind \in Writes \ {"accept", "evidence"} /\ w.action # kind
  /\ kind \in {"upload", "start"} => Authorized(w)
  /\ kind = "resume" => w.shown # None /\ w.shown.id = w.run /\ w.shown.ended = "live"
  /\ IF kind = "intake" THEN \E c \in Case : r = Fresh[c] ELSE w.case \in Case /\ r = Fresh[w.case]
  /\ kind \in {"start", "intake"} => head[CaseOf[r]] # r /\ \A q \in w.net : q.kind \in {"start", "intake"} => q.arg # r
  /\ w' = Sent([Bump(w, kind) EXCEPT !.action = kind], kind, kind, r)
  /\ Server /\ UNCHANGED <<wish>>

OpenEvidence ==
  /\ Gesture /\ ~Modal /\ "evidence" \in Writes /\ Authorized(w)
  /\ w' = Sent(Bump(w, "evidence"), "evidence", "none", None)
  /\ Server /\ UNCHANGED <<wish>>

OpenAccept ==
  /\ Gesture /\ ~Modal /\ "accept" \in Writes /\ w.action # "accept"
  /\ w.shown # None /\ w.run # None /\ w.shown.id = w.run /\ w.shown.ended = "ended"
  /\ w' = [w EXCEPT !.dialog = w.run]
  /\ Server /\ UNCHANGED <<wish>>

ConfirmAccept ==
  /\ w.dialog # None /\ Settled(w)
  /\ LET t == [w EXCEPT !.dialog = None]
         bound == w.shown # None /\ w.run # None /\ w.shown.id = w.run /\ CaseOf[w.run] = w.case
         u == [Bump(t, "accept") EXCEPT !.action = "accept"]
     IN  /\ w' = IF bound THEN Sent(u, "accept", "accept", w.run) ELSE [t EXCEPT !.failed = TRUE]
  /\ Server /\ UNCHANGED <<wish, gestures, rushes>>
----------------------------------------------------------------------------
Init ==
  /\ \E l \in Links :
       LET r == IF l.case = None THEN None ELSE l.run
           t == [case |-> l.case, run |-> r, moved |-> FALSE, status |-> IF l.case = None THEN "idle" ELSE "loading",
                 reg |-> NoCases, loading |-> TRUE, loc |-> l, asked |-> l, claimed |-> None, timer |-> None,
                 ran |-> [route |-> <<>>, gen |-> <<>>, url |-> <<>>, run |-> <<>>, stream |-> <<>>],
                 view |-> None, shown |-> None, busy |-> FALSE, failed |-> FALSE, action |-> "none",
                 drawer |-> None, dialog |-> None, ask |-> None, dirty |-> FALSE, lost |-> None,
                 intake |-> None, stream |-> [run |-> None, open |-> FALSE],
                 net |-> {}]
       IN  w = Sent(t, "cases", "none", None)
  /\ head = Opening
  /\ done = Over /\ wish = None /\ gestures = 0 /\ rushes = 0 /\ drops = 0

Next ==
  \/ Effects \/ RouteFires \/ SearchFollows \/ StreamOpens \/ StreamDrops
  \/ \E q \in w.net : Serve(q) \/ \E ok \in BOOLEAN : Answer(q, ok)
  \/ \E r \in Run : RunEnds(r) \/ \E k \in Writes : Post(k, r)
  \/ \E l \in Links : Navigate(l) \/ Back(l)
  \/ \E c \in Case : PickCase(c)
  \/ \E yes \in BOOLEAN : AnswerDiscard(yes)
  \/ EditDraft \/ OpenEvidence \/ OpenAccept \/ ConfirmAccept

Spec == Init /\ [][Next]_vars
----------------------------------------------------------------------------
(* Properties *)
\* Type invariant.
TypeOK ==
  /\ w.case \in Selectable /\ w.run \in Run \cup {None}
  /\ Known(w) \subseteq Case /\ \A c \in Known(w) : w.reg[c] \in Run \cup {None}
  /\ {w.moved, w.loading, w.busy, w.failed, w.dirty, w.stream.open} \subseteq BOOLEAN
  /\ w.loc \in Link /\ w.asked \in Link /\ w.claimed \in Link \cup {None} /\ w.timer \in Timer \cup {None}
  /\ w.shown \in Shown \cup {None} /\ w.ask \in Question \cup {None} /\ w.net \subseteq Request
  /\ {w.view, w.drawer, w.intake} \subseteq Case \cup {None}
  /\ w.dialog \in Run \cup {None} /\ w.stream.run \in Run \cup {None} /\ w.lost \in Selectable
  /\ w.status \in {"idle", "loading", "ready", "error"} /\ w.action \in Kinds \cup {"none"}
  /\ head \in [Case -> Run \cup {None}] /\ done \subseteq Run /\ wish \in Case \cup {None}

\* What the tab shows belongs to what is selected: however the answers of earlier
\* selections are delayed and reordered, once its effects have run the tab shows no
\* authority, drawer, intake or run of another case or run.
ViewBelongsToSelection ==
  Settled(w) => /\ w.view \in {None, w.case} /\ w.drawer \in {None, w.case} /\ w.intake \in {None, w.case}
                /\ w.shown # None => w.shown.id = w.run /\ CaseOf[w.run] = w.case

\* When nothing is left to happen, the selected case is the one the analyst asked for
\* last: neither a stale query string nor a late answer takes the selection back.
Quiet == Settled(w) /\ w.ask = None /\ w.timer = None /\ w.asked = w.loc /\ w.net = {}
SelectionSticks == Quiet /\ wish \in Known(w) => w.case = wish

\* No link, late answer or history step throws a dirty draft away unasked; only an intake
\* answered for another case does, at a keystroke made while it was being sent.
DraftLeftAsked == w.dirty /\ ~w'.dirty => (w.ask # None /\ w'.ask = None) \/ w'.intake # w.intake

\* However the event stream drops and the refreshes it triggers are overtaken, once nothing
\* is left to happen a run that ended while it was selected is shown as ended, or an error is.
ShownAsEnded == w.failed \/ (w.shown # None /\ w.shown.id = w.run /\ w.shown.ended = "ended")
RunEndIsShown ==
  Quiet /\ (w.stream.run # None => w.stream.open) /\ w.run \in done /\ Authorized(w) => ShownAsEnded

\* However answers, links and drops overtake each other, the tab comes to show the
\* case asked for last, what belongs to it, and the end of its run.
TabIsCoherent == TypeOK /\ ViewBelongsToSelection /\ SelectionSticks /\ RunEndIsShown
=============================================================================
