---------------------------- MODULE ClientProofs ----------------------------
(***************************************************************************)
(* Proofs about the workspace's tab, for any cases, runs and links and any *)
(* number of gestures, drops and ends:                                     *)
(*                                                                         *)
(*   WorkspaceTypes   every variable has its type;                         *)
(*   ViewBelongs      what is shown belongs to what is selected;           *)
(*   TabDraftStays    a dirty draft is left only when the analyst said so; *)
(*   SelectionStays   the case asked for last is the one selected;         *)
(*   RunEndShown      the end of the selected run comes to be shown;       *)
(*   TabCoherent      all of it: the invariant that the run checks.        *)
(*                                                                         *)
(* Three layers.  Sane and Fitting say what an answer may still find: that *)
(* a request whose generation and counter are not overtaken is of the case *)
(* and run selected, and that there is one such of its kind.  Chosen says  *)
(* where the case asked for last is: selected, claimed, in the address, in *)
(* a link to be followed or in an answer.  Homed, RunRan, Begun and Seen   *)
(* say who will still load the selected run: an effect whose dependencies  *)
(* have changed, a request, or a stream that is open.                      *)
(***************************************************************************)
EXTENDS MCClient, TLAPS
-----------------------------------------------------------------------------
Fields == {"case", "run", "moved", "status", "reg", "loading", "loc", "asked", "claimed", "timer", "ran", "view",
           "shown", "busy", "failed", "action", "drawer", "dialog", "ask", "dirty", "lost", "intake", "stream", "net"}
Shaped(t) == DOMAIN t = Fields /\ DOMAIN t.ran = {"route", "gen", "url", "run", "stream"} /\ DOMAIN t.stream = {"run", "open"}
\* Two tabs that differ at most in the fields named.
AllBut(t, u, F) == \A f \in Fields \ F : u[f] = t[f]

Typed(t) ==
  /\ t.case \in Selectable /\ t.run \in Run \cup {None}
  /\ Known(t) \subseteq Case /\ \A c \in Known(t) : t.reg[c] \in Run \cup {None}
  /\ t.moved \in BOOLEAN /\ t.loading \in BOOLEAN /\ t.busy \in BOOLEAN /\ t.failed \in BOOLEAN /\ t.dirty \in BOOLEAN
  /\ t.loc \in Link /\ t.asked \in Link /\ t.claimed \in Link \cup {None} /\ t.timer \in Timer \cup {None}
  /\ t.shown \in Shown \cup {None} /\ t.ask \in Question \cup {None} /\ t.net \subseteq Request
  /\ t.view \in Case \cup {None} /\ t.drawer \in Case \cup {None} /\ t.intake \in Case \cup {None}
  /\ t.dialog \in Run \cup {None} /\ t.stream.run \in Run \cup {None} /\ t.stream.open \in BOOLEAN
  /\ t.lost \in Selectable
  /\ t.status \in {"idle", "loading", "ready", "error"} /\ t.action \in Kinds \cup {"none"}
Tab(t) == Shaped(t) /\ Typed(t)

\* One request is another, perhaps overtaken since.
Later(q, p) ==
  /\ p.kind = q.kind /\ p.case = q.case /\ p.run = q.run /\ p.of = q.of /\ p.arg = q.arg /\ p.saw = q.saw
  /\ p.fresh => q.fresh
  /\ p.last => q.last
\* At most one request for the cases, and one of the writes that start a given run.
Starts(q) == q.kind \in {"start", "intake"}
Distinct(N) ==
  \A p \in N, q \in N : (p.kind = "cases" /\ q.kind = "cases") \/ (Starts(p) /\ Starts(q) /\ p.arg = q.arg) => p = q
\* The requests of M are those of N, aged; and those with x.
Aged(N, M) == \A p \in M : \E q \in N : Later(q, p)
AgedWith(N, M, x) == \A p \in M : p = x \/ \E q \in N : Later(q, p)
Due(t) == \E q \in t.net : q.kind = "run" /\ q.last /\ Matches(t, q)
-----------------------------------------------------------------------------
\* A tab stays well typed if the fields that change do.
LEMMA TabOf ==
  ASSUME NEW t, Tab(t), NEW u, Shaped(u), NEW F, AllBut(t, u, F),
         "case" \in F => u.case \in Selectable, "run" \in F => u.run \in Run \cup {None},
         "reg" \in F => Known(u) \subseteq Case /\ \A c \in Known(u) : u.reg[c] \in Run \cup {None},
         "moved" \in F => u.moved \in BOOLEAN, "loading" \in F => u.loading \in BOOLEAN, "busy" \in F => u.busy \in BOOLEAN,
         "failed" \in F => u.failed \in BOOLEAN, "dirty" \in F => u.dirty \in BOOLEAN,
         "loc" \in F => u.loc \in Link, "asked" \in F => u.asked \in Link, "claimed" \in F => u.claimed \in Link \cup {None},
         "timer" \in F => u.timer \in Timer \cup {None}, "shown" \in F => u.shown \in Shown \cup {None},
         "ask" \in F => u.ask \in Question \cup {None}, "net" \in F => u.net \subseteq Request,
         "view" \in F => u.view \in Case \cup {None}, "drawer" \in F => u.drawer \in Case \cup {None},
         "intake" \in F => u.intake \in Case \cup {None}, "dialog" \in F => u.dialog \in Run \cup {None},
         "stream" \in F => u.stream.run \in Run \cup {None} /\ u.stream.open \in BOOLEAN,
         "lost" \in F => u.lost \in Selectable, "status" \in F => u.status \in {"idle", "loading", "ready", "error"},
         "action" \in F => u.action \in Kinds \cup {"none"}
  PROVE  Tab(u)
<1>1. /\ "case" \notin F => u.case = t.case
      /\ "run" \notin F => u.run = t.run
      /\ "reg" \notin F => u.reg = t.reg
      /\ "moved" \notin F => u.moved = t.moved
      /\ "loading" \notin F => u.loading = t.loading
      /\ "busy" \notin F => u.busy = t.busy
      /\ "failed" \notin F => u.failed = t.failed
      /\ "dirty" \notin F => u.dirty = t.dirty
  BY DEF AllBut, Fields
<1>2. /\ "loc" \notin F => u.loc = t.loc
      /\ "asked" \notin F => u.asked = t.asked
      /\ "claimed" \notin F => u.claimed = t.claimed
      /\ "timer" \notin F => u.timer = t.timer
      /\ "shown" \notin F => u.shown = t.shown
      /\ "ask" \notin F => u.ask = t.ask
      /\ "net" \notin F => u.net = t.net
  BY DEF AllBut, Fields
<1>3. /\ "view" \notin F => u.view = t.view
      /\ "drawer" \notin F => u.drawer = t.drawer
      /\ "intake" \notin F => u.intake = t.intake
      /\ "dialog" \notin F => u.dialog = t.dialog
      /\ "stream" \notin F => u.stream = t.stream
      /\ "lost" \notin F => u.lost = t.lost
      /\ "status" \notin F => u.status = t.status
      /\ "action" \notin F => u.action = t.action
  BY DEF AllBut, Fields
<1>4. u.case \in Selectable /\ u.run \in Run \cup {None}
  BY <1>1 DEF Tab, Typed
<1>5. Known(u) \subseteq Case /\ \A c \in Known(u) : u.reg[c] \in Run \cup {None}
  BY <1>1 DEF Tab, Typed, Known
<1>6. u.moved \in BOOLEAN /\ u.loading \in BOOLEAN /\ u.busy \in BOOLEAN /\ u.failed \in BOOLEAN /\ u.dirty \in BOOLEAN
  BY <1>1 DEF Tab, Typed
<1>7. u.loc \in Link /\ u.asked \in Link /\ u.claimed \in Link \cup {None} /\ u.timer \in Timer \cup {None}
  BY <1>2 DEF Tab, Typed
<1>8. u.shown \in Shown \cup {None} /\ u.ask \in Question \cup {None} /\ u.net \subseteq Request
  BY <1>2 DEF Tab, Typed
<1>9. /\ u.view \in Case \cup {None} /\ u.drawer \in Case \cup {None} /\ u.intake \in Case \cup {None}
      /\ u.dialog \in Run \cup {None} /\ u.stream.run \in Run \cup {None} /\ u.stream.open \in BOOLEAN
  BY <1>3 DEF Tab, Typed
<1>10. u.lost \in Selectable /\ u.status \in {"idle", "loading", "ready", "error"} /\ u.action \in Kinds \cup {"none"}
  BY <1>3 DEF Tab, Typed
<1> QED BY <1>4, <1>5, <1>6, <1>7, <1>8, <1>9, <1>10 DEF Tab, Typed

LEMMA BumpFields ==
  ASSUME NEW t, Tab(t), NEW kind, NEW u, u = Bump(t, kind)
  PROVE  /\ Tab(u) /\ AllBut(t, u, {"net"})
         /\ Aged(t.net, u.net) /\ (Distinct(t.net) => Distinct(u.net))
         /\ \A p \in u.net : p.kind = kind => ~p.last
         /\ kind # "run" /\ Due(t) => Due(u)
<1> DEFINE Old(q) == IF q.kind = kind THEN [q EXCEPT !.last = FALSE] ELSE q
<1>1. u = [t EXCEPT !.net = {Old(q) : q \in @}]
  BY DEF Bump
<1>2. Shaped(u) /\ AllBut(t, u, {"net"}) /\ u.net = {Old(q) : q \in t.net}
  BY <1>1 DEF Tab, Shaped, Fields, AllBut
<1>3. \A q \in t.net : Old(q) \in Request /\ Later(q, Old(q)) /\ (q.kind = kind => ~Old(q).last) /\ (q.kind # kind => Old(q) = q)
  BY DEF Tab, Typed, Request, Later
<1> HIDE DEF Old
<1>4. Tab(u)
  <2>1. u.net \subseteq Request
    BY <1>2, <1>3
  <2> QED BY <1>2, <2>1, TabOf
<1>5. Aged(t.net, u.net)
  BY <1>2, <1>3 DEF Aged
<1>6. Distinct(t.net) => Distinct(u.net)
  BY <1>2, <1>3 DEF Distinct, Starts, Later
<1>7. \A p \in u.net : p.kind = kind => ~p.last
  BY <1>2, <1>3 DEF Later
<1>8. kind # "run" /\ Due(t) => Due(u)
  BY <1>2, <1>3 DEF Due, Matches, AllBut, Fields
<1> QED BY <1>2, <1>4, <1>5, <1>6, <1>7, <1>8

LEMMA MovedFields ==
  ASSUME NEW t, Tab(t), NEW c \in Selectable, NEW r \in Run \cup {None}, NEW u, u = Moved(t, c, r)
  PROVE  /\ Tab(u) /\ AllBut(t, u, {"case", "run", "moved", "net", "status"})
         /\ u.case = c /\ u.run = r /\ u.moved
         /\ Aged(t.net, u.net) /\ (Distinct(t.net) => Distinct(u.net))
         /\ \A p \in u.net : ~p.fresh
<1> DEFINE Old(q) == [q EXCEPT !.fresh = FALSE]
           status == IF c = None THEN "idle" ELSE "loading"
<1>1. u = [t EXCEPT !.case = c, !.run = r, !.moved = TRUE, !.net = {Old(q) : q \in @}, !.status = status]
  BY DEF Moved
<1>3. \A q \in t.net : Old(q) \in Request /\ Later(q, Old(q)) /\ ~Old(q).fresh
  BY DEF Tab, Typed, Request, Later
<1>4. status \in {"idle", "loading"}
  OBVIOUS
<1> HIDE DEF Old, status
<1>2. /\ Shaped(u) /\ AllBut(t, u, {"case", "run", "moved", "net", "status"}) /\ u.net = {Old(q) : q \in t.net}
      /\ u.case = c /\ u.run = r /\ u.moved = TRUE /\ u.status = status
  BY <1>1 DEF Tab, Shaped, Fields, AllBut
<1>5. Tab(u)
  <2>1. u.net \subseteq Request
    BY <1>2, <1>3
  <2> QED BY <1>2, <1>4, <2>1, TabOf
<1>6. Aged(t.net, u.net)
  BY <1>2, <1>3 DEF Aged
<1>7. Distinct(t.net) => Distinct(u.net)
  BY <1>2, <1>3 DEF Distinct, Starts, Later
<1>8. \A p \in u.net : ~p.fresh
  BY <1>2, <1>3
<1> QED BY <1>2, <1>5, <1>6, <1>7, <1>8

LEMMA AgedTrans ==
  ASSUME NEW N, NEW M, NEW O, Aged(N, M), Aged(M, O)
  PROVE  Aged(N, O)
BY DEF Aged, Later

LEMMA AgedWithTrans ==
  ASSUME NEW N, NEW M, NEW O, NEW x, Aged(N, M), AgedWith(M, O, x)
  PROVE  AgedWith(N, O, x)
BY DEF Aged, AgedWith, Later

LEMMA SelectCaseEventFields ==
  ASSUME NEW t, Tab(t), NEW c \in Selectable, NEW u, u = SelectCaseEvent(t, c)
  PROVE  /\ Tab(u) /\ AllBut(t, u, {"case", "run", "moved", "net", "status"})
         /\ u.case = c /\ u.run = IF t.case = c THEN t.run ELSE None
         /\ Aged(t.net, u.net) /\ (Distinct(t.net) => Distinct(u.net))
         /\ t.case # c => \A p \in u.net : ~p.fresh
<1>1. CASE t.case = c
  BY <1>1 DEF SelectCaseEvent, AllBut, Aged, Later
<1>2. CASE t.case # c
  <2>1. u = Moved(t, c, None)
    BY <1>2 DEF SelectCaseEvent
  <2> QED BY <1>2, <2>1, MovedFields
<1> QED BY <1>1, <1>2

Reselects == {"run", "moved", "net", "status"}
RunSelected(t, c, r, u) ==
  /\ Tab(u) /\ AllBut(t, u, Reselects)
  /\ u.run = IF t.case = c THEN r ELSE t.run
  /\ Aged(t.net, u.net) /\ (Distinct(t.net) => Distinct(u.net))
  /\ u.run # t.run => \A p \in u.net : ~p.fresh
  /\ u.run = t.run => u = t

LEMMA SelectRunEventFields ==
  ASSUME NEW t, Tab(t), NEW c, NEW r \in Run \cup {None}, NEW u, u = SelectRunEvent(t, c, r)
  PROVE  RunSelected(t, c, r, u)
<1>1. CASE t.case # c \/ t.run = r
  BY <1>1 DEF SelectRunEvent, AllBut, Aged, Later, RunSelected
<1>2. CASE t.case = c /\ t.run # r
  <2>1. u = Moved(t, c, r) /\ c \in Selectable
    BY <1>2 DEF SelectRunEvent, Tab, Typed
  <2>2. /\ Tab(u) /\ AllBut(t, u, {"case", "run", "moved", "net", "status"}) /\ u.case = c /\ u.run = r
        /\ Aged(t.net, u.net) /\ (Distinct(t.net) => Distinct(u.net))
        /\ \A p \in u.net : ~p.fresh
    BY <2>1, MovedFields
  <2>3. AllBut(t, u, Reselects)
    BY <1>2, <2>2 DEF AllBut, Reselects, Fields
  <2>4. u.run = (IF t.case = c THEN r ELSE t.run) /\ u.run # t.run
    BY <1>2, <2>2
  <2> QED BY <2>2, <2>3, <2>4 DEF RunSelected
<1> QED BY <1>1, <1>2

LEMMA RequestStartedFields ==
  ASSUME NEW t, Tab(t), NEW u, u = RequestStarted(t)
  PROVE  /\ Tab(u) /\ AllBut(t, u, {"moved", "net", "status"})
         /\ Aged(t.net, u.net) /\ (Distinct(t.net) => Distinct(u.net))
         /\ t.case # None => \A p \in u.net : ~p.fresh
<1>1. CASE t.case = None
  BY <1>1 DEF RequestStarted, AllBut, Aged, Later
<1>2. CASE t.case # None
  <2>1. u = Moved(t, t.case, t.run) /\ t.case \in Selectable /\ t.run \in Run \cup {None}
    BY <1>2 DEF RequestStarted, Tab, Typed
  <2>2. /\ Tab(u) /\ AllBut(t, u, {"case", "run", "moved", "net", "status"}) /\ u.case = t.case /\ u.run = t.run
        /\ Aged(t.net, u.net) /\ (Distinct(t.net) => Distinct(u.net))
        /\ \A p \in u.net : ~p.fresh
    BY <2>1, MovedFields
  <2>3. AllBut(t, u, {"moved", "net", "status"})
    BY <2>2 DEF AllBut, Fields
  <2> QED BY <2>2, <2>3
<1> QED BY <1>1, <1>2

LEMMA InvalidateRunFields ==
  ASSUME NEW t, Tab(t), NEW r, NEW u, u = InvalidateRun(t, t.case, r)
  PROVE  /\ Tab(u) /\ AllBut(t, u, Reselects)
         /\ u.run = IF t.run = r THEN None ELSE t.run
         /\ Aged(t.net, u.net) /\ (Distinct(t.net) => Distinct(u.net))
         /\ t.run # r => u = t
<1>1. CASE t.run # r
  BY <1>1 DEF InvalidateRun, AllBut, Aged, Later
<1>2. CASE t.run = r
  <2>1. u = Moved(t, t.case, None) /\ t.case \in Selectable
    BY <1>2 DEF InvalidateRun, Tab, Typed
  <2>2. /\ Tab(u) /\ AllBut(t, u, {"case", "run", "moved", "net", "status"}) /\ u.case = t.case /\ u.run = None
        /\ Aged(t.net, u.net) /\ (Distinct(t.net) => Distinct(u.net))
    BY <2>1, MovedFields
  <2>3. AllBut(t, u, Reselects)
    BY <2>2 DEF AllBut, Reselects, Fields
  <2> QED BY <1>2, <2>2, <2>3
<1> QED BY <1>1, <1>2

\* The run a case is opened on, from a register.
OpenedOn(t, c, current) ==
  IF c \in DOMAIN current /\ current[c] # None THEN current[c] ELSE IF t.case = c THEN t.run ELSE None
Cleared == {"case", "run", "moved", "net", "status", "busy", "action", "drawer", "dialog", "view", "shown", "failed",
            "intake", "lost", "dirty"}
LEMMA CommitFields ==
  ASSUME NEW t, Tab(t), NEW c \in Selectable, NEW current, c \in DOMAIN current => current[c] \in Run \cup {None},
         NEW u, u = CommitCaseSelection(t, c, current)
  PROVE  /\ Tab(u) /\ AllBut(t, u, Cleared)
         /\ u.case = c /\ u.run = OpenedOn(t, c, current)
         /\ ~u.busy /\ u.action = "none" /\ u.drawer = None /\ u.dialog = None /\ u.view = None /\ u.shown = None
         /\ ~u.failed /\ u.intake = None /\ u.lost = None /\ ~u.dirty
         /\ Aged(t.net, u.net) /\ (Distinct(t.net) => Distinct(u.net))
         /\ t.case # c => \A p \in u.net : ~p.fresh
<1> DEFINE picked == SelectCaseEvent(t, c)
           run    == IF c \in DOMAIN current THEN current[c] ELSE None
           bound  == IF run = None THEN picked ELSE SelectRunEvent(picked, c, run)
           moved  == Bump(bound, "evidence")
<1>1. /\ Tab(picked) /\ AllBut(t, picked, {"case", "run", "moved", "net", "status"})
      /\ picked.case = c /\ picked.run = IF t.case = c THEN t.run ELSE None
      /\ Aged(t.net, picked.net) /\ (Distinct(t.net) => Distinct(picked.net))
      /\ t.case # c => \A p \in picked.net : ~p.fresh
  <2> HIDE DEF picked
  <2> QED BY SelectCaseEventFields DEF picked
<1> HIDE DEF picked
<1>2. run \in Run \cup {None}
  OBVIOUS
<1> HIDE DEF run
<1>3. /\ Tab(bound) /\ AllBut(picked, bound, Reselects)
      /\ bound.run = IF run = None THEN picked.run ELSE run
      /\ Aged(picked.net, bound.net) /\ (Distinct(picked.net) => Distinct(bound.net))
      /\ t.case # c => \A p \in bound.net : ~p.fresh
  <2>1. CASE run = None
    <3>1. bound = picked
      BY <2>1
    <3> QED BY <1>1, <2>1, <3>1 DEF AllBut, Aged, Later
  <2>2. CASE run # None
    <3>1. bound = SelectRunEvent(picked, c, run)
      BY <2>2
    <3> HIDE DEF bound
    <3>2. /\ Tab(bound) /\ AllBut(picked, bound, Reselects) /\ bound.run = run
          /\ Aged(picked.net, bound.net) /\ (Distinct(picked.net) => Distinct(bound.net))
          /\ bound.run # picked.run => \A p \in bound.net : ~p.fresh
          /\ bound.run = picked.run => bound = picked
      BY <1>1, <1>2, <3>1, SelectRunEventFields DEF RunSelected
    <3> QED BY <1>1, <2>2, <3>2
  <2> QED BY <2>1, <2>2
<1> HIDE DEF bound
<1>4. /\ Tab(moved) /\ AllBut(bound, moved, {"net"})
      /\ Aged(bound.net, moved.net) /\ (Distinct(bound.net) => Distinct(moved.net))
  BY <1>3, BumpFields
<1>5. u = [moved EXCEPT !.busy = FALSE, !.action = "none", !.drawer = None, !.dialog = None, !.view = None, !.shown = None,
                       !.failed = FALSE, !.intake = None, !.lost = None, !.dirty = FALSE]
  BY DEF CommitCaseSelection, picked, run, bound
<1> HIDE DEF moved
<1>6. /\ Shaped(u) /\ u.busy = FALSE /\ u.action = "none" /\ u.drawer = None /\ u.dialog = None /\ u.view = None /\ u.shown = None
      /\ u.failed = FALSE /\ u.intake = None /\ u.lost = None /\ u.dirty = FALSE
  BY <1>4, <1>5 DEF Tab, Shaped, Fields
<1> DEFINE F == {"busy", "action", "drawer", "dialog", "view", "shown", "failed", "intake", "lost", "dirty"}
<1>7. AllBut(moved, u, F)
  BY <1>5, <1>4 DEF Tab, Shaped, Fields, AllBut
<1>8. Tab(u)
  <2>1. None \in Selectable
    BY DEF Selectable
  <2> QED BY <1>4, <1>6, <1>7, <2>1, TabOf
<1>9. AllBut(t, u, Cleared)
  BY <1>1, <1>3, <1>4, <1>7 DEF AllBut, Reselects, Cleared
<1>10. u.net = moved.net /\ u.case = moved.case /\ u.run = moved.run
  BY <1>7 DEF AllBut, Reselects, Fields
<1>11. u.case = c /\ u.run = OpenedOn(t, c, current)
  <2>1. moved.case = bound.case /\ moved.run = bound.run /\ bound.case = picked.case
    BY <1>3, <1>4 DEF AllBut, Reselects, Fields
  <2>2. bound.run = OpenedOn(t, c, current)
    BY <1>1, <1>3 DEF run, OpenedOn
  <2> QED BY <1>1, <1>10, <2>1, <2>2
<1>12. Aged(t.net, u.net) /\ (Distinct(t.net) => Distinct(u.net))
  BY <1>1, <1>3, <1>4, <1>10, AgedTrans
<1>13. t.case # c => \A p \in u.net : ~p.fresh
  BY <1>3, <1>4, <1>10 DEF Aged, Later
<1> QED BY <1>6, <1>8, <1>9, <1>11, <1>12, <1>13

\* The request Sent adds.
Call(t, kind, of, arg) ==
  [kind |-> kind, case |-> t.case, run |-> t.run, fresh |-> TRUE, last |-> TRUE, of |-> of, arg |-> arg, saw |-> "unread"]
LEMMA SentFields ==
  ASSUME NEW t, Tab(t), NEW kind \in Kinds, NEW of \in Kinds \cup {"none"}, NEW arg \in Run \cup {None},
         NEW u, u = Sent(t, kind, of, arg)
  PROVE  /\ Tab(u) /\ AllBut(t, u, {"net"}) /\ u.net = t.net \cup {Call(t, kind, of, arg)}
         /\ AgedWith(t.net, u.net, Call(t, kind, of, arg))
         /\ kind # "cases" /\ kind \notin {"start", "intake"} => (Distinct(t.net) => Distinct(u.net))
         /\ Due(t) => Due(u)
<1> DEFINE call == Call(t, kind, of, arg)
<1>1. u = [t EXCEPT !.net = @ \cup {call}]
  BY DEF Sent, Call
<1>2. /\ call \in Request /\ call.kind = kind
  BY DEF Call, Request, Tab, Typed
<1> HIDE DEF call
<1>3. Shaped(u) /\ AllBut(t, u, {"net"}) /\ u.net = t.net \cup {call}
  BY <1>1 DEF Tab, Shaped, Fields, AllBut
<1>4. Tab(u)
  <2>1. u.net \subseteq Request
    BY <1>2, <1>3 DEF Tab, Typed
  <2> QED BY <1>3, <2>1, TabOf
<1>5. AgedWith(t.net, u.net, call)
  BY <1>3 DEF AgedWith, Later
<1>6. kind # "cases" /\ kind \notin {"start", "intake"} => (Distinct(t.net) => Distinct(u.net))
  BY <1>2, <1>3 DEF Distinct, Starts
<1>7. Due(t) => Due(u)
  BY <1>3 DEF Due, Matches, AllBut, Fields
<1> QED BY <1>3, <1>4, <1>5, <1>6, <1>7 DEF call

LEMMA RefreshCaseFields ==
  ASSUME NEW t, Tab(t), NEW of \in Kinds \cup {"none"}, NEW u, u = RefreshCase(t, of)
  PROVE  /\ Tab(u) /\ AllBut(t, u, {"net"})
         /\ AgedWith(t.net, u.net, Call(t, "case", of, None)) /\ (Distinct(t.net) => Distinct(u.net))
         /\ Due(t) => Due(u)
<1> DEFINE s == Bump(t, "case")
<1>2. u = Sent(s, "case", of, None) /\ "case" \in Kinds /\ None \in Run \cup {None} /\ s = Bump(t, "case")
  BY DEF RefreshCase, Kinds
<1> HIDE DEF s
<1>1. /\ Tab(s) /\ AllBut(t, s, {"net"}) /\ Aged(t.net, s.net) /\ (Distinct(t.net) => Distinct(s.net))
      /\ Due(t) => Due(s)
  <2>1. "case" # "run"
    OBVIOUS
  <2> QED BY <1>2, <2>1, BumpFields
<1>3. /\ Tab(u) /\ AllBut(s, u, {"net"}) /\ AgedWith(s.net, u.net, Call(s, "case", of, None))
      /\ Distinct(s.net) => Distinct(u.net)
      /\ Due(s) => Due(u)
  <2>1. "case" # "cases" /\ "case" \notin {"start", "intake"}
    OBVIOUS
  <2> QED BY <1>1, <1>2, <2>1, SentFields
<1>4. Call(s, "case", of, None) = Call(t, "case", of, None)
  BY <1>1 DEF Call, AllBut, Fields
<1> QED BY <1>1, <1>3, <1>4, AgedWithTrans DEF AllBut

\* A fresh read of the run is under way, and what it will see is open.
Asked(t) == Due(t) /\ \A p \in t.net : p.kind = "run" /\ p.last => p.saw = "unread"
LEMMA RefreshRunFields ==
  ASSUME NEW t, Tab(t), NEW of \in Kinds \cup {"none"}, NEW u, u = RefreshRun(t, of)
  PROVE  /\ Tab(u) /\ (Distinct(t.net) => Distinct(u.net))
         /\ t.run = None => AllBut(t, u, {"shown", "busy"}) /\ u.shown = None
         /\ t.run # None => /\ AllBut(t, u, {"net", "busy", "failed"}) /\ ~u.failed /\ Asked(u)
                            /\ AgedWith(t.net, u.net, Call(t, "run", of, t.run))
<1>1. CASE t.run = None
  <2>1. u = [t EXCEPT !.shown = None, !.busy = FALSE]
    BY <1>1 DEF RefreshRun
  <2>2. Shaped(u) /\ AllBut(t, u, {"shown", "busy"}) /\ u.shown = None /\ u.busy = FALSE
    BY <2>1 DEF Tab, Shaped, Fields, AllBut
  <2>3. u.net = t.net
    BY <2>2 DEF AllBut, Fields
  <2> QED BY <1>1, <2>2, <2>3, TabOf
<1>2. CASE t.run # None
  <2> DEFINE s == Bump(t, "run")
  <2>1. /\ Tab(s) /\ AllBut(t, s, {"net"}) /\ Aged(t.net, s.net) /\ (Distinct(t.net) => Distinct(s.net))
        /\ \A p \in s.net : p.kind = "run" => ~p.last
    BY BumpFields
  <2>3. u = Sent([s EXCEPT !.busy = TRUE, !.failed = FALSE], "run", of, t.run)
    BY <1>2 DEF RefreshRun
  <2> HIDE DEF s
  <2>2. PICK m : Shaped(m) /\ AllBut(s, m, {"busy", "failed"}) /\ m.busy = TRUE /\ m.failed = FALSE
                 /\ u = Sent(m, "run", of, t.run)
    BY <2>1, <2>3 DEF Tab, Shaped, Fields, AllBut
  <2>4. Tab(m) /\ m.net = s.net
    <3>1. m.net = s.net
      BY <2>2 DEF AllBut, Fields
    <3> QED BY <2>1, <2>2, <3>1, TabOf
  <2>5. /\ Tab(u) /\ AllBut(m, u, {"net"}) /\ u.net = m.net \cup {Call(m, "run", of, t.run)}
        /\ AgedWith(m.net, u.net, Call(m, "run", of, t.run)) /\ (Distinct(m.net) => Distinct(u.net))
    <3>1. "run" # "cases" /\ "run" \notin {"start", "intake"} /\ "run" \in Kinds /\ t.run \in Run \cup {None}
      BY DEF Kinds, Tab, Typed
    <3>2. Tab(m) /\ u = Sent(m, "run", of, t.run)
      BY <2>2, <2>4
    <3>3. Tab(u) /\ AgedWith(m.net, u.net, Call(m, "run", of, t.run))
      BY <3>1, <3>2, SentFields, SMTT(30)
    <3>7. AllBut(m, u, {"net"})
      BY <3>1, <3>2, SentFields, SMTT(30)
    <3>4. u.net = m.net \cup {Call(m, "run", of, t.run)}
      BY <3>1, <3>2, SentFields
    <3>6. Distinct(m.net) => Distinct(u.net)
      BY <3>1, <3>2, SentFields
    <3> QED BY <3>3, <3>4, <3>6, <3>7
  <2>6. Call(m, "run", of, t.run) = Call(t, "run", of, t.run)
    BY <2>1, <2>2 DEF Call, AllBut, Fields
  <2>7. AllBut(t, u, {"net", "busy", "failed"}) /\ u.failed = FALSE
    BY <2>1, <2>2, <2>5 DEF AllBut, Fields
  <2>8. Asked(u)
    <3>1. u.case = t.case /\ u.run = t.run
      BY <2>7 DEF AllBut, Fields
    <3>2. Call(t, "run", of, t.run) \in u.net
      BY <2>5, <2>6
    <3>3. Due(u)
      BY <3>1, <3>2 DEF Due, Matches, Call
    <3>4. \A p \in u.net : p.kind = "run" /\ p.last => p.saw = "unread"
      <4>1. m.net = s.net /\ Call(m, "run", of, t.run).saw = "unread"
        BY <2>4 DEF Call
      <4> QED BY <2>1, <2>5, <4>1
    <3> QED BY <3>3, <3>4 DEF Asked
  <2>9. AgedWith(t.net, u.net, Call(t, "run", of, t.run))
    <3>1. Aged(t.net, m.net) /\ AgedWith(m.net, u.net, Call(t, "run", of, t.run))
      BY <2>1, <2>4, <2>5, <2>6
    <3> QED BY <3>1, AgedWithTrans
  <2> QED BY <1>2, <2>1, <2>4, <2>5, <2>7, <2>8, <2>9
<1> QED BY <1>1, <1>2

LEMMA ReleaseFields ==
  ASSUME NEW t, Tab(t), NEW q, NEW u, u = Release(t, q)
  PROVE  Tab(u) /\ AllBut(t, u, {"action"})
<1>1. CASE u = t
  BY <1>1 DEF AllBut
<1>2. CASE u = [t EXCEPT !.action = "none"]
  <2>1. Shaped(u) /\ AllBut(t, u, {"action"}) /\ u.action = "none"
    BY <1>2 DEF Tab, Shaped, Fields, AllBut
  <2> QED BY <2>1, TabOf
<1> QED BY <1>1, <1>2 DEF Release

LEMMA ResumeFields ==
  ASSUME NEW t, Tab(t), NEW q, NEW u, u = Resume(t, q)
  PROVE  \/ Tab(u) /\ AllBut(t, u, {"action"})
         \/ /\ Tab(u) /\ (Distinct(t.net) => Distinct(u.net)) /\ t.run # None
            /\ AllBut(t, u, {"net", "busy", "failed"}) /\ ~u.failed /\ Asked(u)
            /\ \E of : AgedWith(t.net, u.net, Call(t, "run", of, t.run))
<1>1. CASE u = Release(t, q)
  BY <1>1, ReleaseFields
<1>2. CASE t.run # None /\ u = RefreshRun(t, IF Matches(t, q) THEN "accept" ELSE "none")
  <2>1. (IF Matches(t, q) THEN "accept" ELSE "none") \in Kinds \cup {"none"}
    BY DEF Kinds
  <2> QED BY <1>2, <2>1, RefreshRunFields
<1> QED BY <1>1, <1>2 DEF Resume

\* Two tabs whose effects have run for the same things, but those named.
RanBut(t, u, F) == \A f \in {"route", "gen", "url", "run", "stream"} \ F : u.ran[f] = t.ran[f]
Waits(t) == t.asked.case # None /\ t.asked.case \notin Known(t) /\ t.loading
NewTimer(t) == [under |-> t.claimed, asked |-> t.asked, case |-> t.case, run |-> t.run, known |-> Known(t)]
LEMMA RouteEffectFields ==
  ASSUME NEW t, Tab(t), NEW u, u = RouteEffect(t)
  PROVE  /\ Tab(u) /\ AllBut(t, u, {"ran", "timer"}) /\ RanBut(t, u, {"route"}) /\ u.ran.route = RouteDeps(t)
         /\ t.ran.route = RouteDeps(t) => u.timer = t.timer
         /\ t.ran.route # RouteDeps(t) => u.timer = IF t.claimed = t.asked \/ Waits(t) THEN None ELSE NewTimer(t)
<1>1. CASE t.ran.route = RouteDeps(t)
  BY <1>1 DEF RouteEffect, AllBut, RanBut
<1>2. CASE t.ran.route # RouteDeps(t)
  <2> DEFINE next == IF t.claimed = t.asked \/ Waits(t) THEN None ELSE NewTimer(t)
             deps == RouteDeps(t)
  <2>1. u = [t EXCEPT !.ran.route = deps, !.timer = next]
    BY <1>2 DEF RouteEffect, Waits, NewTimer
  <2>2. next \in Timer \cup {None}
    BY DEF NewTimer, Timer, Tab, Typed
  <2> HIDE DEF next, deps
  <2>a. Shaped(t)
    BY DEF Tab
  <2>b. Shaped(u) /\ u.timer = next
    BY <2>1, <2>a DEF Shaped, Fields
  <2>c. AllBut(t, u, {"ran", "timer"})
    BY <2>1, <2>a DEF Shaped, Fields, AllBut
  <2>d. RanBut(t, u, {"route"}) /\ u.ran.route = deps
    BY <2>1, <2>a DEF Shaped, Fields, RanBut
  <2>3. /\ Shaped(u) /\ AllBut(t, u, {"ran", "timer"}) /\ RanBut(t, u, {"route"}) /\ u.ran.route = deps /\ u.timer = next
    BY <2>b, <2>c, <2>d
  <2>4. Tab(u)
    BY <2>2, <2>3, TabOf
  <2> QED BY <1>2, <2>3, <2>4 DEF next, deps
<1> QED BY <1>1, <1>2

LEMMA GenerationEffectFields ==
  ASSUME NEW t, Tab(t), NEW u, u = GenerationEffect(t)
  PROVE  /\ Tab(u) /\ AllBut(t, u, {"net", "ran", "moved", "view", "drawer"}) /\ RanBut(t, u, {"gen"})
         /\ u.view \in {t.view, None} /\ u.drawer \in {t.drawer, None}
         /\ u.ran.gen = GenDeps(t) /\ ~u.moved
         /\ Aged(t.net, u.net) \/ (Authorized(t) /\ \E of : AgedWith(t.net, u.net, Call(t, "case", of, None)))
         /\ Distinct(t.net) => Distinct(u.net)
         /\ Due(t) => Due(u)
<1>1. CASE t.ran.gen = GenDeps(t) /\ ~t.moved
  BY <1>1 DEF GenerationEffect, AllBut, RanBut, Aged, Later
<1>2. CASE ~(t.ran.gen = GenDeps(t) /\ ~t.moved)
  <2> DEFINE b == Bump(t, "evidence")
             deps == GenDeps(t)
             s == [b EXCEPT !.ran.gen = deps, !.moved = FALSE, !.view = None, !.drawer = None]
  <2>1. /\ Tab(b) /\ AllBut(t, b, {"net"}) /\ Aged(t.net, b.net) /\ (Distinct(t.net) => Distinct(b.net))
        /\ Due(t) => Due(b)
    <3>1. "evidence" # "run"
      OBVIOUS
    <3> QED BY <3>1, BumpFields
  <2>2. u = IF Authorized(t) THEN RefreshCase(s, "none") ELSE s
    BY <1>2 DEF GenerationEffect
  <2> HIDE DEF b, deps
  <2>3. /\ Shaped(s) /\ AllBut(b, s, {"ran", "moved", "view", "drawer"}) /\ RanBut(b, s, {"gen"}) /\ s.ran.gen = deps
        /\ s.moved = FALSE /\ s.view = None /\ s.drawer = None
    BY <2>1 DEF Tab, Shaped, Fields, AllBut, RanBut
  <2>4. s.net = b.net /\ s.case = b.case /\ s.run = b.run /\ Tab(s)
    <3>1. s.net = b.net /\ s.case = b.case /\ s.run = b.run
      BY <2>3 DEF AllBut, Fields
    <3> HIDE DEF s
    <3> QED BY <2>1, <2>3, <3>1, TabOf
  <2> HIDE DEF s
  <2>5. AllBut(t, s, {"net", "ran", "moved", "view", "drawer"}) /\ RanBut(t, s, {"gen"})
    BY <2>1, <2>3 DEF AllBut, RanBut, Fields
  <2>6. Aged(t.net, s.net) /\ (Distinct(t.net) => Distinct(s.net)) /\ (Due(t) => Due(s))
    BY <2>1, <2>4 DEF Due, Matches
  <2>7. CASE ~Authorized(t)
    <3>1. u = s
      BY <2>2, <2>7
    <3> QED BY <2>3, <2>4, <2>5, <2>6, <3>1 DEF deps
  <2>8. CASE Authorized(t)
    <3>1. u = RefreshCase(s, "none") /\ "none" \in Kinds \cup {"none"}
      BY <2>2, <2>8
    <3>2. /\ Tab(u) /\ AllBut(s, u, {"net"})
          /\ AgedWith(s.net, u.net, Call(s, "case", "none", None)) /\ (Distinct(s.net) => Distinct(u.net))
      BY <2>4, <3>1, RefreshCaseFields
    <3>3. Due(s) => Due(u)
      BY <2>4, <3>1, RefreshCaseFields
    <3>4. Call(s, "case", "none", None) = Call(t, "case", "none", None)
      BY <2>1, <2>4 DEF Call, AllBut, Fields
    <3>5. AgedWith(t.net, u.net, Call(t, "case", "none", None))
      BY <2>6, <3>2, <3>4, AgedWithTrans
    <3>6. AllBut(t, u, {"net", "ran", "moved", "view", "drawer"}) /\ u.ran = s.ran /\ u.view = None /\ u.drawer = None /\ ~u.moved
      BY <2>3, <2>5, <3>2 DEF AllBut, Fields
    <3>7. RanBut(t, u, {"gen"}) /\ u.ran.gen = GenDeps(t)
      BY <2>3, <2>5, <3>6 DEF RanBut, deps
    <3> QED BY <2>6, <2>8, <3>2, <3>3, <3>5, <3>6, <3>7
  <2> QED BY <2>7, <2>8
<1> QED BY <1>1, <1>2

Here(t) == [case |-> t.case, run |-> t.run]
Unaddressed(t) == t.case = None /\ t.lost # None
LEMMA UrlEffectFields ==
  ASSUME NEW t, Tab(t), NEW u, u = UrlEffect(t)
  PROVE  /\ Tab(u) /\ AllBut(t, u, {"ran", "claimed", "loc"}) /\ RanBut(t, u, {"url"}) /\ u.ran.url = UrlDeps(t)
         /\ t.ran.url = UrlDeps(t) \/ Unaddressed(t) => u.claimed = t.claimed /\ u.loc = t.loc
         /\ t.ran.url # UrlDeps(t) /\ ~Unaddressed(t) => u.claimed = Here(t) /\ u.loc = Here(t)
<1> DEFINE deps == UrlDeps(t)
<1>1. CASE t.ran.url = deps
  BY <1>1 DEF UrlEffect, AllBut, RanBut
<1>2. CASE t.ran.url # deps /\ Unaddressed(t)
  <2>1. u = [t EXCEPT !.ran.url = deps]
    BY <1>2 DEF UrlEffect, Unaddressed
  <2> HIDE DEF deps
  <2>2. Shaped(u) /\ AllBut(t, u, {"ran"}) /\ RanBut(t, u, {"url"}) /\ u.ran.url = deps
    BY <2>1 DEF Tab, Shaped, Fields, AllBut, RanBut
  <2>3. Tab(u)
    BY <2>2, TabOf
  <2>4. AllBut(t, u, {"ran", "claimed", "loc"}) /\ u.claimed = t.claimed /\ u.loc = t.loc
    BY <2>2 DEF AllBut, Fields
  <2> QED BY <1>2, <2>2, <2>3, <2>4 DEF deps
<1>3. CASE t.ran.url # deps /\ ~Unaddressed(t)
  <2> DEFINE here == Here(t)
  <2>1. u = [t EXCEPT !.ran.url = deps, !.claimed = here, !.loc = here]
    BY <1>3 DEF UrlEffect, Unaddressed, Here
  <2>2. here \in Link
    BY DEF Here, Link, Tab, Typed
  <2> HIDE DEF deps, here
  <2>3. Shaped(u) /\ RanBut(t, u, {"url"}) /\ u.ran.url = deps /\ u.claimed = here /\ u.loc = here
    BY <2>1 DEF Tab, Shaped, Fields, RanBut
  <2>5. AllBut(t, u, {"ran", "claimed", "loc"})
    BY <2>1 DEF Tab, Shaped, Fields, AllBut
  <2>4. Tab(u)
    BY <2>2, <2>3, <2>5, TabOf
  <2> QED BY <1>3, <2>3, <2>4, <2>5 DEF deps, here
<1> QED BY <1>1, <1>2, <1>3

LEMMA RunEffectFields ==
  ASSUME NEW t, Tab(t), NEW u, u = RunEffect(t)
  PROVE  /\ Tab(u) /\ AllBut(t, u, {"ran", "net", "busy", "failed"}) /\ RanBut(t, u, {"run"}) /\ u.ran.run = RunDeps(t)
         /\ Distinct(t.net) => Distinct(u.net)
         /\ IF t.ran.run # RunDeps(t) /\ t.run # None /\ Authorized(t)
            THEN ~u.failed /\ Asked(u) /\ \E of : AgedWith(t.net, u.net, Call(t, "run", of, t.run))
            ELSE u.net = t.net /\ u.failed = t.failed
<1> DEFINE deps == RunDeps(t)
           s == [t EXCEPT !.ran.run = deps]
<1>1. CASE t.ran.run = deps
  BY <1>1 DEF RunEffect, AllBut, RanBut
<1>2. CASE t.ran.run # deps
  <2>1. u = IF t.run # None /\ Authorized(t) THEN RefreshRun(s, "none") ELSE s
    BY <1>2 DEF RunEffect
  <2> HIDE DEF deps
  <2>2. Shaped(s) /\ AllBut(t, s, {"ran"}) /\ RanBut(t, s, {"run"}) /\ s.ran.run = deps
    BY DEF Tab, Shaped, Fields, AllBut, RanBut
  <2> HIDE DEF s
  <2>3. Tab(s) /\ s.net = t.net /\ s.case = t.case /\ s.run = t.run /\ s.failed = t.failed
    <3>1. s.net = t.net /\ s.case = t.case /\ s.run = t.run /\ s.failed = t.failed
      BY <2>2 DEF AllBut, Fields
    <3> QED BY <2>2, <3>1, TabOf
  <2>4. CASE ~(t.run # None /\ Authorized(t))
    <3>1. u = s
      BY <2>1, <2>4
    <3>2. AllBut(t, u, {"ran", "net", "busy", "failed"})
      BY <2>2, <3>1 DEF AllBut
    <3> QED BY <2>2, <2>3, <2>4, <3>1, <3>2 DEF deps
  <2>5. CASE t.run # None /\ Authorized(t)
    <3>1. u = RefreshRun(s, "none") /\ "none" \in Kinds \cup {"none"}
      BY <2>1, <2>5
    <3>2. AllBut(s, u, {"net", "busy", "failed"}) /\ (Distinct(s.net) => Distinct(u.net)) /\ Tab(u)
      BY <2>3, <2>5, <3>1, RefreshRunFields
    <3>3. ~u.failed /\ Asked(u) /\ AgedWith(s.net, u.net, Call(s, "run", "none", s.run))
      BY <2>3, <2>5, <3>1, RefreshRunFields
    <3>4. Call(s, "run", "none", s.run) = Call(t, "run", "none", t.run)
      BY <2>3 DEF Call
    <3>5. AllBut(t, u, {"ran", "net", "busy", "failed"}) /\ u.ran = s.ran
      BY <2>2, <3>2 DEF AllBut, Fields
    <3>6. RanBut(t, u, {"run"}) /\ u.ran.run = RunDeps(t)
      BY <2>2, <3>5 DEF RanBut, deps
    <3>7. \E of : AgedWith(t.net, u.net, Call(t, "run", of, t.run))
      BY <2>3, <3>3, <3>4
    <3> QED BY <1>2, <2>3, <2>5, <3>2, <3>3, <3>5, <3>6, <3>7 DEF deps
  <2> QED BY <2>4, <2>5
<1> QED BY <1>1, <1>2

Followed(t) == IF ~Live(t) THEN [run |-> None, open |-> FALSE]
               ELSE IF t.stream.run = t.run THEN t.stream ELSE [run |-> t.run, open |-> FALSE]
LEMMA StreamEffectFields ==
  ASSUME NEW t, Tab(t), NEW u, u = StreamEffect(t)
  PROVE  /\ Tab(u) /\ AllBut(t, u, {"ran", "stream"}) /\ RanBut(t, u, {"stream"}) /\ u.ran.stream = StreamDeps(t)
         /\ u.stream = IF t.ran.stream = StreamDeps(t) THEN t.stream ELSE Followed(t)
<1> DEFINE deps == StreamDeps(t)
           next == Followed(t)
<1>1. CASE t.ran.stream = deps
  BY <1>1 DEF StreamEffect, AllBut, RanBut
<1>2. CASE t.ran.stream # deps
  <2>1. u = [t EXCEPT !.ran.stream = deps, !.stream = next]
    BY <1>2 DEF StreamEffect, Followed
  <2>2. next.run \in Run \cup {None} /\ next.open \in BOOLEAN /\ DOMAIN next = {"run", "open"}
    BY DEF Followed, Tab, Typed, Shaped
  <2> HIDE DEF deps, next
  <2>3. Shaped(u) /\ RanBut(t, u, {"stream"}) /\ u.ran.stream = deps /\ u.stream = next
    BY <2>1, <2>2 DEF Tab, Shaped, Fields, RanBut
  <2>4. AllBut(t, u, {"ran", "stream"})
    BY <2>1 DEF Tab, Shaped, Fields, AllBut
  <2>5. Tab(u)
    BY <2>2, <2>3, <2>4, TabOf
  <2> QED BY <1>2, <2>3, <2>4, <2>5 DEF deps, next
<1> QED BY <1>1, <1>2

\* A read that the effects of t start.
Started(t, p) ==
  /\ p.case = t.case /\ p.run = t.run /\ Authorized(t)
  /\ \/ p.kind = "case"
     \/ p.kind = "run" /\ p.arg = t.run /\ t.run # None /\ t.ran.run # RunDeps(t)
Flushes == {"ran", "timer", "net", "moved", "view", "drawer", "claimed", "loc", "busy", "failed", "stream"}
LEMMA FlushedFields ==
  ASSUME NEW t, Tab(t), NEW f, f = Flushed(t)
  PROVE  /\ Tab(f) /\ AllBut(t, f, Flushes)
         /\ f.ran.route = RouteDeps(f) /\ f.ran.url = UrlDeps(f) /\ f.ran.run = RunDeps(f) /\ f.ran.stream = StreamDeps(f)
         /\ t.ran.route = RouteDeps(t) => f.timer = t.timer
         /\ t.ran.route # RouteDeps(t) => f.timer = IF t.claimed = t.asked \/ Waits(t) THEN None ELSE NewTimer(t)
         /\ t.ran.url = UrlDeps(t) \/ Unaddressed(t) => f.claimed = t.claimed /\ f.loc = t.loc
         /\ t.ran.url # UrlDeps(t) /\ ~Unaddressed(t) => f.claimed = Here(t) /\ f.loc = Here(t)
         /\ f.view \in {t.view, None} /\ f.drawer \in {t.drawer, None}
         /\ \A p \in f.net : Started(t, p) \/ \E q \in t.net : Later(q, p)
         /\ Distinct(t.net) => Distinct(f.net)
         /\ IF t.ran.run # RunDeps(t) /\ t.run # None /\ Authorized(t)
            THEN ~f.failed /\ Asked(f)
            ELSE f.failed = t.failed /\ (Due(t) => Due(f))
         /\ f.stream = IF t.ran.stream = StreamDeps(t) THEN t.stream ELSE Followed(t)
<1> DEFINE a == RouteEffect(t)
           b == GenerationEffect(a)
           c == UrlEffect(b)
           d == RunEffect(c)
<1>1. f = StreamEffect(d)
  BY DEF Flushed
<1>2. /\ Tab(a) /\ AllBut(t, a, {"ran", "timer"}) /\ RanBut(t, a, {"route"}) /\ a.ran.route = RouteDeps(t)
      /\ t.ran.route = RouteDeps(t) => a.timer = t.timer
      /\ t.ran.route # RouteDeps(t) => a.timer = IF t.claimed = t.asked \/ Waits(t) THEN None ELSE NewTimer(t)
  BY RouteEffectFields
<1> HIDE DEF a
<1>3. /\ Tab(b) /\ AllBut(a, b, {"net", "ran", "moved", "view", "drawer"}) /\ RanBut(a, b, {"gen"})
      /\ b.view \in {a.view, None} /\ b.drawer \in {a.drawer, None}
      /\ Aged(a.net, b.net) \/ (Authorized(a) /\ \E of : AgedWith(a.net, b.net, Call(a, "case", of, None)))
      /\ Distinct(a.net) => Distinct(b.net)
      /\ Due(a) => Due(b)
  BY <1>2, GenerationEffectFields
<1> HIDE DEF b
<1>4. /\ Tab(c) /\ AllBut(b, c, {"ran", "claimed", "loc"}) /\ RanBut(b, c, {"url"}) /\ c.ran.url = UrlDeps(b)
      /\ b.ran.url = UrlDeps(b) \/ Unaddressed(b) => c.claimed = b.claimed /\ c.loc = b.loc
      /\ b.ran.url # UrlDeps(b) /\ ~Unaddressed(b) => c.claimed = Here(b) /\ c.loc = Here(b)
  BY <1>3, UrlEffectFields
<1> HIDE DEF c
<1>5. /\ Tab(d) /\ AllBut(c, d, {"ran", "net", "busy", "failed"}) /\ RanBut(c, d, {"run"}) /\ d.ran.run = RunDeps(c)
      /\ Distinct(c.net) => Distinct(d.net)
      /\ IF c.ran.run # RunDeps(c) /\ c.run # None /\ Authorized(c)
            THEN ~d.failed /\ Asked(d) /\ \E of : AgedWith(c.net, d.net, Call(c, "run", of, c.run))
            ELSE d.net = c.net /\ d.failed = c.failed
  BY <1>4, RunEffectFields
<1> HIDE DEF d
<1>6. /\ Tab(f) /\ AllBut(d, f, {"ran", "stream"}) /\ RanBut(d, f, {"stream"}) /\ f.ran.stream = StreamDeps(d)
      /\ f.stream = IF d.ran.stream = StreamDeps(d) THEN d.stream ELSE Followed(d)
  BY <1>1, <1>5, StreamEffectFields
<1>7. AllBut(t, f, Flushes)
  BY <1>2, <1>3, <1>4, <1>5, <1>6 DEF AllBut, Flushes
<1>8. /\ a.case = t.case /\ a.run = t.run /\ a.reg = t.reg /\ a.loading = t.loading /\ a.asked = t.asked /\ a.lost = t.lost
      /\ a.claimed = t.claimed /\ a.loc = t.loc /\ a.shown = t.shown /\ a.stream = t.stream /\ a.net = t.net /\ a.view = t.view
      /\ a.drawer = t.drawer /\ a.failed = t.failed
  BY <1>2 DEF AllBut, Fields
<1>9. /\ b.case = t.case /\ b.run = t.run /\ b.reg = t.reg /\ b.loading = t.loading /\ b.asked = t.asked /\ b.lost = t.lost
      /\ b.claimed = t.claimed /\ b.loc = t.loc /\ b.shown = t.shown /\ b.stream = t.stream /\ b.timer = a.timer
      /\ b.failed = t.failed
  BY <1>3, <1>8 DEF AllBut, Fields
<1>10. /\ c.case = t.case /\ c.run = t.run /\ c.reg = t.reg /\ c.loading = t.loading /\ c.asked = t.asked /\ c.lost = t.lost
       /\ c.shown = t.shown /\ c.stream = t.stream /\ c.timer = a.timer /\ c.net = b.net /\ c.view = b.view /\ c.drawer = b.drawer
       /\ c.failed = t.failed
  BY <1>4, <1>9 DEF AllBut, Fields
<1>11. /\ d.case = t.case /\ d.run = t.run /\ d.reg = t.reg /\ d.loading = t.loading /\ d.asked = t.asked /\ d.lost = t.lost
       /\ d.shown = t.shown /\ d.stream = t.stream /\ d.timer = a.timer /\ d.view = b.view /\ d.drawer = b.drawer
       /\ d.claimed = c.claimed /\ d.loc = c.loc
  BY <1>5, <1>10 DEF AllBut, Fields
<1>12. /\ f.case = t.case /\ f.run = t.run /\ f.reg = t.reg /\ f.loading = t.loading /\ f.asked = t.asked /\ f.lost = t.lost
       /\ f.shown = t.shown /\ f.timer = a.timer /\ f.view = b.view /\ f.drawer = b.drawer
       /\ f.claimed = c.claimed /\ f.loc = c.loc /\ f.net = d.net /\ f.failed = d.failed
  BY <1>6, <1>11 DEF AllBut, Fields
<1>13. /\ b.ran.url = t.ran.url /\ c.ran.run = t.ran.run /\ d.ran.stream = t.ran.stream
       /\ f.ran.route = a.ran.route /\ f.ran.url = c.ran.url /\ f.ran.run = d.ran.run
  BY <1>2, <1>3, <1>4, <1>5, <1>6 DEF RanBut
<1>14. f.ran.route = RouteDeps(f) /\ f.ran.url = UrlDeps(f) /\ f.ran.run = RunDeps(f) /\ f.ran.stream = StreamDeps(f)
  BY <1>2, <1>4, <1>5, <1>6, <1>9, <1>10, <1>11, <1>12, <1>13 DEF RouteDeps, UrlDeps, RunDeps, StreamDeps, Authorized, Known
<1>15. /\ t.ran.url = UrlDeps(t) \/ Unaddressed(t) => f.claimed = t.claimed /\ f.loc = t.loc
       /\ t.ran.url # UrlDeps(t) /\ ~Unaddressed(t) => f.claimed = Here(t) /\ f.loc = Here(t)
  BY <1>4, <1>9, <1>12, <1>13 DEF UrlDeps, Unaddressed, Here
<1>16. f.stream = IF t.ran.stream = StreamDeps(t) THEN t.stream ELSE Followed(t)
  BY <1>6, <1>11, <1>13 DEF StreamDeps, Followed, Live
<1>17. RunDeps(c) = RunDeps(t) /\ (Authorized(c) <=> Authorized(t)) /\ (Authorized(a) <=> Authorized(t))
  BY <1>8, <1>10 DEF RunDeps, Authorized, Known
<1>18. \A p \in c.net : Started(t, p) \/ \E q \in t.net : Later(q, p)
  BY <1>3, <1>8, <1>10, <1>17 DEF Aged, AgedWith, Call, Started
<1>19. \A p \in f.net : Started(t, p) \/ \E q \in t.net : Later(q, p)
  <2>1. CASE t.ran.run # RunDeps(t) /\ t.run # None /\ Authorized(t)
    <3>1. PICK of : AgedWith(c.net, d.net, Call(c, "run", of, c.run))
      BY <1>5, <1>10, <1>13, <1>17, <2>1
    <3>2. \A p \in d.net : p = Call(c, "run", of, c.run) \/ \E q \in c.net : Later(q, p)
      BY <3>1 DEF AgedWith
    <3>3. Started(t, Call(c, "run", of, c.run))
      BY <1>10, <2>1 DEF Started, Call
    <3>4. \A q \in c.net, p \in d.net : Later(q, p) => Started(t, p) \/ \E o \in t.net : Later(o, p)
      BY <1>18 DEF Later, Started
    <3> QED BY <1>12, <3>2, <3>3, <3>4
  <2>2. CASE ~(t.ran.run # RunDeps(t) /\ t.run # None /\ Authorized(t))
    BY <1>5, <1>10, <1>12, <1>13, <1>17, <1>18, <2>2
  <2> QED BY <2>1, <2>2
<1>20. Distinct(t.net) => Distinct(f.net)
  BY <1>3, <1>5, <1>8, <1>10, <1>12
<1>21. IF t.ran.run # RunDeps(t) /\ t.run # None /\ Authorized(t)
       THEN ~f.failed /\ Asked(f) ELSE f.failed = t.failed /\ (Due(t) => Due(f))
  <2>1. (Due(d) <=> Due(f)) /\ (Due(b) <=> Due(c)) /\ (Due(a) <=> Due(t))
    BY <1>8, <1>9, <1>10, <1>11, <1>12 DEF Due, Matches
  <2>2. CASE t.ran.run # RunDeps(t) /\ t.run # None /\ Authorized(t)
    BY <1>5, <1>10, <1>12, <1>13, <1>17, <2>1, <2>2 DEF Asked
  <2>3. CASE ~(t.ran.run # RunDeps(t) /\ t.run # None /\ Authorized(t))
    <3>1. d.net = c.net /\ d.failed = c.failed
      BY <1>5, <1>10, <1>13, <1>17, <2>3
    <3>2. Due(c) <=> Due(d)
      BY <1>10, <1>11, <3>1 DEF Due, Matches
    <3> QED BY <1>3, <1>10, <1>12, <2>1, <2>3, <3>1, <3>2
  <2> QED BY <2>2, <2>3
<1> QED BY <1>2, <1>3, <1>6, <1>7, <1>8, <1>12, <1>14, <1>15, <1>16, <1>19, <1>20, <1>21
-----------------------------------------------------------------------------
(* The handlers of answers *)
LEMMA SelectCaseFields ==
  ASSUME NEW t, Tab(t), NEW c \in Case \cup {None}, NEW current, c \in DOMAIN current => current[c] \in Run \cup {None},
         NEW u, u = SelectCase(t, c, current)
  PROVE  \/ c = t.case /\ u = t
         \/ /\ Blocked(t, c) /\ Tab(u) /\ AllBut(t, u, {"ask"})
            /\ u.ask = IF t.ask = None THEN [to |-> "case", case |-> c, run |-> None] ELSE t.ask
         \/ c # t.case /\ ~t.dirty /\ u = CommitCaseSelection(t, c, current)
<1>1. CASE c = t.case
  <2>1. u = t
    BY <1>1 DEF SelectCase, Blocked
  <2> QED BY <1>1, <2>1
<1>2. CASE Blocked(t, c)
  <2> DEFINE next == IF t.ask = None THEN [to |-> "case", case |-> c, run |-> None] ELSE t.ask
  <2>1. CASE t.ask # None
    <3>1. u = t
      BY <1>2, <2>1 DEF SelectCase, Blocked
    <3> QED BY <1>2, <2>1, <3>1 DEF AllBut
  <2>2. CASE t.ask = None
    <3>1. u = [t EXCEPT !.ask = next]
      BY <1>2, <2>2 DEF SelectCase, Blocked
    <3>2. next \in Question \cup {None}
      BY <2>2 DEF Question, Selectable
    <3> HIDE DEF next
    <3>3. Shaped(u) /\ AllBut(t, u, {"ask"}) /\ u.ask = next
      BY <3>1 DEF Tab, Shaped, Fields, AllBut
    <3>4. Tab(u)
      BY <3>2, <3>3, TabOf
    <3> QED BY <1>2, <3>3, <3>4 DEF next
  <2> QED BY <2>1, <2>2
<1>3. CASE c # t.case /\ ~Blocked(t, c)
  BY <1>3 DEF SelectCase, Blocked
<1> QED BY <1>1, <1>2, <1>3

LEMMA CaseAnsweredFields ==
  ASSUME NEW t, Tab(t), NEW q, q.case \in Case, NEW ok, head \in [Case -> Run \cup {None}],
         NEW u, u = CaseAnswered(t, q, ok)
  PROVE  /\ Tab(u) /\ AllBut(t, u, {"view", "reg", "status", "action", "net", "busy", "failed"})
         /\ u.view = t.view \/ (q.case = t.case /\ u.view = t.case)
         /\ Known(u) = Known(t) /\ \A c \in Known(t) : u.reg[c] \in {t.reg[c], head[c]}
         /\ Distinct(t.net) => Distinct(u.net)
         /\ \/ u.net = t.net /\ u.failed = t.failed
            \/ t.run # None /\ ~u.failed /\ Asked(u) /\ \E of : AgedWith(t.net, u.net, Call(t, "run", of, t.run))
<1> DEFINE next == [c \in Known(t) |-> IF c = q.case THEN head[c] ELSE t.reg[c]]
<1>1. PICK s : /\ Tab(s) /\ AllBut(t, s, {"view", "reg", "status"})
               /\ s.view = t.view \/ (q.case = t.case /\ s.view = t.case)
               /\ Known(s) = Known(t) /\ \A c \in Known(t) : s.reg[c] \in {t.reg[c], head[c]}
               /\ u = Resume(s, q)
  <2>1. CASE u = Resume(t, q)
    <3>1. AllBut(t, t, {"view", "reg", "status"}) /\ \A c \in Known(t) : t.reg[c] \in {t.reg[c], head[c]}
      BY DEF AllBut
    <3> QED BY <2>1, <3>1
  <2>2. CASE u = Resume([t EXCEPT !.status = "error"], q)
    <3> DEFINE s == [t EXCEPT !.status = "error"]
    <3>1. Shaped(s) /\ AllBut(t, s, {"status"}) /\ s.status = "error"
      BY DEF Tab, Shaped, Fields, AllBut
    <3>2. u = Resume(s, q)
      BY <2>2
    <3> HIDE DEF s
    <3>3. Tab(s)
      BY <3>1, TabOf
    <3>4. AllBut(t, s, {"view", "reg", "status"}) /\ s.view = t.view /\ s.reg = t.reg
      BY <3>1 DEF AllBut, Fields
    <3> QED BY <3>2, <3>3, <3>4 DEF Known
  <2>3. CASE q.case = t.case /\ u = Resume([[t EXCEPT !.view = q.case, !.reg = next] EXCEPT !.status = "ready"], q)
    <3> DEFINE v == [t EXCEPT !.view = q.case, !.reg = next]
               s == [v EXCEPT !.status = "ready"]
    <3>1. next \in [Known(t) -> Run \cup {None}] /\ \A c \in Known(t) : next[c] \in {t.reg[c], head[c]}
      BY DEF Tab, Typed
    <3> HIDE DEF next
    <3>2. Shaped(v) /\ AllBut(t, v, {"view", "reg"}) /\ v.view = q.case /\ v.reg = next
      BY DEF Tab, Shaped, Fields, AllBut
    <3> HIDE DEF v
    <3>3. Shaped(s) /\ AllBut(v, s, {"status"}) /\ s.status = "ready"
      BY <3>2 DEF Shaped, Fields, AllBut
    <3>4. u = Resume(s, q)
      BY <2>3 DEF v
    <3> HIDE DEF s
    <3>5. AllBut(t, s, {"view", "reg", "status"}) /\ s.view = q.case /\ s.reg = next
      BY <3>2, <3>3 DEF AllBut, Fields
    <3>6. Known(s) = Known(t) /\ \A c \in Known(t) : s.reg[c] \in Run \cup {None}
      BY <3>1, <3>5 DEF Known
    <3>7. Tab(s)
      <4>1. Known(t) \subseteq Case
        BY DEF Tab, Typed
      <4> QED BY <3>3, <3>5, <3>6, <4>1, TabOf
    <3> QED BY <2>3, <3>1, <3>4, <3>5, <3>6, <3>7
  <2> DEFINE v == [t EXCEPT !.view = q.case, !.reg = next]
  <2>4. v.case = t.case /\ v.run = t.run
    BY DEF Tab, Shaped, Fields
  <2>5. \/ u = Resume(t, q)
        \/ u = Resume(CaseSettled(t, q, "error"), q)
        \/ Matches(t, q) /\ u = Resume(CaseSettled(v, q, "ready"), q)
    <3>1. CASE ~(q.last /\ Matches(t, q))
      BY <3>1 DEF CaseAnswered
    <3>2. CASE q.last /\ Matches(t, q) /\ ok
      BY <3>2 DEF CaseAnswered
    <3>3. CASE q.last /\ Matches(t, q) /\ ~ok
      BY <3>3 DEF CaseAnswered
    <3> QED BY <3>1, <3>2, <3>3
  <2>6. CaseSettled(t, q, "error") \in {t, [t EXCEPT !.status = "error"]}
    BY DEF CaseSettled
  <2>7. Matches(t, q) => q.case = t.case /\ CaseSettled(v, q, "ready") = [v EXCEPT !.status = "ready"]
    <3>1. Matches(v, q) <=> Matches(t, q)
      BY <2>4 DEF Matches
    <3> HIDE DEF v
    <3> QED BY <3>1 DEF CaseSettled, Matches
  <2> QED BY <2>1, <2>2, <2>3, <2>5, <2>6, <2>7
<1> HIDE DEF next
<1>2. \/ Tab(u) /\ AllBut(s, u, {"action"})
      \/ /\ Tab(u) /\ (Distinct(s.net) => Distinct(u.net)) /\ s.run # None
         /\ AllBut(s, u, {"net", "busy", "failed"}) /\ ~u.failed /\ Asked(u)
         /\ \E of : AgedWith(s.net, u.net, Call(s, "run", of, s.run))
  BY <1>1, ResumeFields
<1>3. s.net = t.net /\ s.failed = t.failed /\ s.case = t.case /\ s.run = t.run
  BY <1>1 DEF AllBut, Fields
<1>4. \A of : Call(s, "run", of, s.run) = Call(t, "run", of, t.run)
  BY <1>3 DEF Call
<1>5. CASE Tab(u) /\ AllBut(s, u, {"action"})
  <2>1. u.view = s.view /\ u.reg = s.reg /\ u.net = s.net /\ u.failed = s.failed
    BY <1>5 DEF AllBut, Fields
  <2>2. AllBut(t, u, {"view", "reg", "status", "action", "net", "busy", "failed"})
    BY <1>1, <1>5 DEF AllBut
  <2> QED BY <1>1, <1>3, <1>5, <2>1, <2>2 DEF Known
<1>6. CASE /\ Tab(u) /\ (Distinct(s.net) => Distinct(u.net)) /\ s.run # None
           /\ AllBut(s, u, {"net", "busy", "failed"}) /\ ~u.failed /\ Asked(u)
           /\ \E of : AgedWith(s.net, u.net, Call(s, "run", of, s.run))
  <2>1. u.view = s.view /\ u.reg = s.reg
    BY <1>6 DEF AllBut, Fields
  <2>2. AllBut(t, u, {"view", "reg", "status", "action", "net", "busy", "failed"})
    BY <1>1, <1>6 DEF AllBut
  <2> QED BY <1>1, <1>3, <1>4, <1>6, <2>1, <2>2 DEF Known
<1> QED BY <1>2, <1>5, <1>6

LEMMA RunAnsweredFields ==
  ASSUME NEW t, Tab(t), NEW q, q.arg \in Run, q.saw \in {"live", "ended"}, NEW ok, NEW u, u = RunAnswered(t, q, ok)
  PROVE  /\ Tab(u)
         /\ \/ ~(q.last /\ Matches(t, q)) /\ AllBut(t, u, {"action"})
            \/ q.last /\ Matches(t, q) /\ AllBut(t, u, {"failed", "busy", "action"}) /\ u.failed
            \/ /\ q.last /\ Matches(t, q) /\ CaseOf[q.arg] # t.case
               /\ AllBut(t, u, {"shown", "busy", "failed", "run", "moved", "net", "status", "action"})
               /\ u.shown = None /\ u.failed /\ u.run = IF t.run = q.arg THEN None ELSE t.run
               /\ Aged(t.net, u.net) /\ (Distinct(t.net) => Distinct(u.net))
            \/ /\ q.last /\ Matches(t, q) /\ CaseOf[q.arg] = t.case
               /\ AllBut(t, u, {"shown", "busy", "action"}) /\ u.shown = [id |-> q.arg, ended |-> q.saw]
<1> DEFINE show == [id |-> q.arg, ended |-> q.saw]
<1>1. CASE ~(q.last /\ Matches(t, q))
  <2>1. u = Release(t, q)
    BY <1>1 DEF RunAnswered
  <2> QED BY <1>1, <2>1, ReleaseFields
<1>2. CASE q.last /\ Matches(t, q) /\ ~ok
  <2>1. u = Release([t EXCEPT !.failed = TRUE, !.busy = FALSE], q)
    BY <1>2 DEF RunAnswered
  <2>2. PICK s : Shaped(s) /\ AllBut(t, s, {"failed", "busy"}) /\ s.failed = TRUE /\ s.busy = FALSE /\ u = Release(s, q)
    BY <2>1 DEF Tab, Shaped, Fields, AllBut
  <2>3. Tab(s)
    BY <2>2, TabOf
  <2>4. Tab(u) /\ AllBut(s, u, {"action"})
    BY <2>2, <2>3, ReleaseFields
  <2>5. AllBut(t, u, {"failed", "busy", "action"}) /\ u.failed
    BY <2>2, <2>4 DEF AllBut, Reselects, Fields
  <2> QED BY <1>2, <2>4, <2>5
<1>3. CASE q.last /\ Matches(t, q) /\ ok /\ CaseOf[q.arg] # t.case
  <2>1. u = Release(InvalidateRun([t EXCEPT !.shown = None, !.busy = FALSE, !.failed = TRUE], t.case, q.arg), q)
    BY <1>3 DEF RunAnswered
  <2>2. PICK s : /\ Shaped(s) /\ AllBut(t, s, {"shown", "busy", "failed"}) /\ s.shown = None /\ s.busy = FALSE /\ s.failed = TRUE
                 /\ u = Release(InvalidateRun(s, t.case, q.arg), q)
    BY <2>1 DEF Tab, Shaped, Fields, AllBut
  <2>3. Tab(s)
    BY <2>2, TabOf
  <2>4. s.case = t.case /\ s.run = t.run /\ s.net = t.net
    BY <2>2 DEF AllBut, Reselects, Fields
  <2>5. PICK v : v = InvalidateRun(s, s.case, q.arg)
    OBVIOUS
  <2>6. /\ Tab(v) /\ AllBut(s, v, Reselects) /\ v.run = IF s.run = q.arg THEN None ELSE s.run
        /\ Aged(s.net, v.net) /\ (Distinct(s.net) => Distinct(v.net))
    BY <2>3, <2>5, InvalidateRunFields
  <2>7. Tab(u) /\ AllBut(v, u, {"action"})
    BY <2>2, <2>4, <2>5, <2>6, ReleaseFields
  <2>8. AllBut(t, u, {"shown", "busy", "failed", "run", "moved", "net", "status", "action"})
    BY <2>2, <2>6, <2>7 DEF AllBut, Reselects
  <2>9. u.shown = None /\ u.failed /\ u.run = v.run /\ u.net = v.net
    BY <2>2, <2>6, <2>7 DEF AllBut, Reselects, Fields
  <2> QED BY <1>3, <2>4, <2>6, <2>7, <2>8, <2>9
<1>4. CASE q.last /\ Matches(t, q) /\ ok /\ CaseOf[q.arg] = t.case
  <2>1. u = Release([t EXCEPT !.shown = show, !.busy = FALSE], q)
    BY <1>4 DEF RunAnswered
  <2>2. show \in Shown \cup {None}
    BY DEF Shown
  <2> HIDE DEF show
  <2>3. PICK s : Shaped(s) /\ AllBut(t, s, {"shown", "busy"}) /\ s.shown = show /\ s.busy = FALSE /\ u = Release(s, q)
    BY <2>1 DEF Tab, Shaped, Fields, AllBut
  <2>4. Tab(s)
    BY <2>2, <2>3, TabOf
  <2>5. Tab(u) /\ AllBut(s, u, {"action"})
    BY <2>3, <2>4, ReleaseFields
  <2>6. AllBut(t, u, {"shown", "busy", "action"}) /\ u.shown = show
    BY <2>3, <2>5 DEF AllBut, Reselects, Fields
  <2> QED BY <1>4, <2>5, <2>6 DEF show
<1> QED BY <1>1, <1>2, <1>3, <1>4

LEMMA EvidenceAnsweredFields ==
  ASSUME NEW t, Tab(t), NEW q, q.case \in Case, NEW ok, NEW u, u = EvidenceAnswered(t, q, ok)
  PROVE  Tab(u) /\ AllBut(t, u, {"drawer"}) /\ (u.drawer = t.drawer \/ u.drawer = t.case)
<1>1. CASE u = t
  BY <1>1 DEF AllBut
<1>2. CASE q.case = t.case /\ u = [t EXCEPT !.drawer = q.case]
  <2>1. Shaped(u) /\ AllBut(t, u, {"drawer"}) /\ u.drawer = q.case
    BY <1>2 DEF Tab, Shaped, Fields, AllBut
  <2>2. Tab(u)
    BY <2>1, TabOf
  <2> QED BY <1>2, <2>1, <2>2
<1> QED BY <1>1, <1>2 DEF EvidenceAnswered, Matches

\* startRun
LEMMA StartAnsweredFields ==
  ASSUME NEW t, Tab(t), NEW q, q.arg \in Run, q.kind = "start", NEW u, u = WriteAnswered(t, q, TRUE), Fits(t, q)
  PROVE  /\ Tab(u) /\ AllBut(t, u, {"shown", "action", "run", "moved", "net", "status"})
         /\ u.shown = [id |-> q.arg, ended |-> "live"] /\ u.run = q.arg
         /\ Aged(t.net, u.net) /\ (Distinct(t.net) => Distinct(u.net))
         /\ u.run # t.run => \A p \in u.net : ~p.fresh
         /\ u.run = t.run => u.net = t.net
<1> DEFINE show == [id |-> q.arg, ended |-> "live"]
           busy == IF t.action = "start" THEN "none" ELSE t.action
<1>1. u = SelectRunEvent([t EXCEPT !.shown = show, !.action = busy], t.case, q.arg)
  BY DEF WriteAnswered
<1>2. show \in Shown \cup {None} /\ busy \in Kinds \cup {"none"}
  BY DEF Shown, Tab, Typed
<1> HIDE DEF show, busy
<1>3. PICK s : /\ Shaped(s) /\ AllBut(t, s, {"shown", "action"}) /\ s.shown = show /\ s.action = busy
               /\ u = SelectRunEvent(s, t.case, q.arg)
  BY <1>1 DEF Tab, Shaped, Fields, AllBut
<1>4. Tab(s) /\ s.case = t.case /\ s.run = t.run /\ s.net = t.net
  <2>1. s.case = t.case /\ s.run = t.run /\ s.net = t.net
    BY <1>3 DEF AllBut, Reselects, Fields
  <2> QED BY <1>2, <1>3, <2>1, TabOf
<1>5. /\ Tab(u) /\ AllBut(s, u, Reselects) /\ u.run = q.arg
      /\ Aged(s.net, u.net) /\ (Distinct(s.net) => Distinct(u.net))
      /\ u.run # s.run => \A p \in u.net : ~p.fresh
      /\ u.run = s.run => u = s
  <2>1. q.arg \in Run \cup {None} /\ Tab(s) /\ u = SelectRunEvent(s, t.case, q.arg)
    BY <1>3, <1>4
  <2>2. /\ Tab(u) /\ AllBut(s, u, Reselects) /\ u.run = IF s.case = t.case THEN q.arg ELSE s.run
        /\ Aged(s.net, u.net) /\ (Distinct(s.net) => Distinct(u.net))
        /\ u.run # s.run => \A p \in u.net : ~p.fresh
        /\ u.run = s.run => u = s
    <3>1. RunSelected(s, t.case, q.arg, u)
      BY <2>1, SelectRunEventFields
    <3> QED BY <3>1 DEF RunSelected
  <2> QED BY <1>4, <2>2
<1>6. AllBut(t, u, {"shown", "action", "run", "moved", "net", "status"}) /\ u.shown = show
  BY <1>3, <1>5 DEF AllBut, Reselects, Fields
<1> QED BY <1>4, <1>5, <1>6 DEF show

\* submitIntake, for the case on show or for another.
Undisturbed == {"net", "action", "run", "moved", "status", "shown", "intake"}
IntakeHere(t, q, u) ==
  /\ AllBut(t, u, Undisturbed)
  /\ u.run # t.run => \A p \in u.net : ~p.fresh
IntakeElsewhere(t, q, u) ==
  /\ AllBut(t, u, Cleared \cup {"reg"})
  /\ u.drawer = None /\ u.dialog = None /\ u.view = None /\ u.lost = None /\ ~u.dirty
  /\ Known(u) = Known(t) \cup {CaseOf[q.arg]} /\ u.reg[CaseOf[q.arg]] = q.arg
  /\ \A c \in Known(t) \ {CaseOf[q.arg]} : u.reg[c] = t.reg[c]
  /\ \A p \in u.net : ~p.fresh
IntakeAdopted(t, q, u) ==
  /\ Tab(u) /\ u.case = CaseOf[q.arg] /\ u.run = q.arg
  /\ u.shown = [id |-> q.arg, ended |-> "live"] /\ u.intake = CaseOf[q.arg]
  /\ Aged(t.net, u.net) /\ (Distinct(t.net) => Distinct(u.net))
  /\ \A p \in u.net : p.kind = "cases" => ~p.last
  /\ IF CaseOf[q.arg] = t.case THEN IntakeHere(t, q, u) ELSE IntakeElsewhere(t, q, u)

LEMMA IntakeAnsweredFields ==
  ASSUME NEW t, Tab(t), NEW q, q.arg \in Run, q.kind = "intake", NEW u, u = WriteAnswered(t, q, TRUE), Fits(t, q)
  PROVE  IntakeAdopted(t, q, u)
<1> DEFINE home == CaseOf[q.arg]
           show == [id |-> q.arg, ended |-> "live"]
           register == [c \in Known(t) \cup {home} |-> IF c = home THEN q.arg ELSE t.reg[c]]
           current == [c \in {home} |-> q.arg]
           bumped == Bump(t, "cases")
           cleared == [bumped EXCEPT !.action = "none"]
           entered == [cleared EXCEPT !.reg = register]
           adopted == IF home # t.case THEN CommitCaseSelection(entered, home, current) ELSE SelectRunEvent(cleared, t.case, q.arg)
<1>1. u = [adopted EXCEPT !.shown = show, !.intake = home]
  BY DEF WriteAnswered
<1>2. home \in Case /\ show \in Shown /\ q.arg # None
  BY WorkspaceAssumption DEF Shown
<1>3. /\ DOMAIN register = Known(t) \cup {home} /\ register[home] = q.arg
      /\ \A c \in Known(t) \ {home} : register[c] = t.reg[c]
      /\ \A c \in Known(t) \cup {home} : register[c] \in Run \cup {None}
  BY <1>2 DEF Tab, Typed
<1>4. home \in DOMAIN current /\ current[home] = q.arg
  OBVIOUS
<1>5. /\ Tab(bumped) /\ AllBut(t, bumped, {"net"}) /\ Aged(t.net, bumped.net) /\ (Distinct(t.net) => Distinct(bumped.net))
      /\ \A p \in bumped.net : p.kind = "cases" => ~p.last
  BY BumpFields
<1> HIDE DEF bumped, register, current, show, home
<1>6. Shaped(cleared) /\ AllBut(bumped, cleared, {"action"}) /\ cleared.action = "none"
  BY <1>5 DEF Tab, Shaped, Fields, AllBut
<1>7. Tab(cleared) /\ cleared.net = bumped.net /\ AllBut(t, cleared, {"net", "action"})
  <2>1. cleared.net = bumped.net /\ AllBut(t, cleared, {"net", "action"})
    BY <1>5, <1>6 DEF AllBut, Fields
  <2> HIDE DEF cleared
  <2> QED BY <1>5, <1>6, <2>1, TabOf
<1> HIDE DEF cleared
<1>8. /\ Tab(adopted) /\ adopted.case = home /\ adopted.run = q.arg
      /\ Aged(cleared.net, adopted.net) /\ (Distinct(cleared.net) => Distinct(adopted.net))
      /\ IF home = t.case THEN AllBut(t, adopted, Undisturbed) /\ (adopted.run # t.run => \A p \in adopted.net : ~p.fresh)
         ELSE /\ AllBut(t, adopted, Cleared \cup {"reg"}) /\ adopted.reg = register
              /\ adopted.drawer = None /\ adopted.dialog = None /\ adopted.view = None /\ adopted.lost = None /\ ~adopted.dirty
              /\ \A p \in adopted.net : ~p.fresh
  <2>1. CASE home = t.case
    <3>1. adopted = SelectRunEvent(cleared, t.case, q.arg)
      BY <2>1
    <3> HIDE DEF adopted
    <3>2. RunSelected(cleared, t.case, q.arg, adopted)
      BY <1>7, <3>1, SelectRunEventFields
    <3>3. cleared.case = t.case /\ cleared.run = t.run
      BY <1>7 DEF AllBut, Fields
    <3>4. AllBut(t, adopted, Undisturbed) /\ adopted.case = home
      BY <1>7, <2>1, <3>2, <3>3 DEF RunSelected, AllBut, Undisturbed, Reselects, Fields
    <3> QED BY <2>1, <3>2, <3>3, <3>4 DEF RunSelected
  <2>2. CASE home # t.case
    <3>1. adopted = CommitCaseSelection(entered, home, current)
      BY <2>2
    <3>2. Shaped(entered) /\ AllBut(cleared, entered, {"reg"}) /\ entered.reg = register
      BY <1>7 DEF Tab, Shaped, Fields, AllBut
    <3> HIDE DEF adopted, entered
    <3>3. Known(entered) \subseteq Case /\ \A c \in Known(entered) : entered.reg[c] \in Run \cup {None}
      BY <1>2, <1>3, <3>2 DEF Known, Tab, Typed
    <3>4. Tab(entered)
      BY <1>7, <3>2, <3>3, TabOf
    <3>5. entered.case = t.case /\ entered.net = cleared.net
      BY <1>7, <3>2 DEF AllBut, Fields
    <3>6. home \in Selectable /\ (home \in DOMAIN current => current[home] \in Run \cup {None})
      BY <1>2, <1>4 DEF Selectable
    <3>7. /\ Tab(adopted) /\ AllBut(entered, adopted, Cleared)
          /\ adopted.case = home /\ adopted.run = OpenedOn(entered, home, current)
      BY <3>1, <3>4, <3>6, CommitFields
    <3>8. adopted.drawer = None /\ adopted.dialog = None /\ adopted.view = None /\ adopted.lost = None /\ ~adopted.dirty
      BY <3>1, <3>4, <3>6, CommitFields
    <3>9. /\ Aged(entered.net, adopted.net) /\ (Distinct(entered.net) => Distinct(adopted.net))
          /\ entered.case # home => \A p \in adopted.net : ~p.fresh
      BY <3>1, <3>4, <3>6, CommitFields
    <3>10. adopted.run = q.arg
      BY <1>2, <1>4, <3>7 DEF OpenedOn
    <3>11. AllBut(t, adopted, Cleared \cup {"reg"}) /\ adopted.reg = register
      BY <1>7, <3>2, <3>7 DEF AllBut, Cleared, Fields
    <3> QED BY <2>2, <3>5, <3>7, <3>8, <3>9, <3>10, <3>11
  <2> QED BY <2>1, <2>2
<1> HIDE DEF adopted, entered
<1>9. Shaped(u) /\ AllBut(adopted, u, {"shown", "intake"}) /\ u.shown = show /\ u.intake = home
  BY <1>1, <1>8, ZenonT(30) DEF Tab, Shaped, Fields, AllBut
<1>10. Tab(u)
  BY <1>2, <1>8, <1>9, TabOf
<1>11. /\ u.case = adopted.case /\ u.run = adopted.run /\ u.net = adopted.net /\ u.reg = adopted.reg /\ u.drawer = adopted.drawer
       /\ u.dialog = adopted.dialog /\ u.view = adopted.view /\ u.lost = adopted.lost /\ u.dirty = adopted.dirty
  BY <1>9 DEF AllBut, Fields
<1>12. /\ Aged(t.net, u.net) /\ (Distinct(t.net) => Distinct(u.net))
       /\ \A p \in u.net : p.kind = "cases" => ~p.last
  <2>1. Aged(t.net, u.net)
    BY <1>5, <1>7, <1>8, <1>11, AgedTrans
  <2>2. \A p \in u.net : p.kind = "cases" => ~p.last
    <3>1. \A p \in cleared.net : p.kind = "cases" => ~p.last
      BY <1>5, <1>7
    <3>2. Aged(cleared.net, u.net)
      BY <1>8, <1>11
    <3>3. \A p \in u.net : \E o \in cleared.net : Later(o, p)
      BY <3>2 DEF Aged
    <3>4. \A o \in cleared.net, p \in u.net : Later(o, p) /\ p.kind = "cases" => ~p.last
      BY <3>1 DEF Later
    <3> QED BY <3>3, <3>4
  <2> QED BY <1>5, <1>7, <1>8, <1>11, <2>1, <2>2
<1>13. CASE home = t.case
  <2>1. AllBut(t, u, Undisturbed)
    BY <1>8, <1>9, <1>13 DEF AllBut, Undisturbed
  <2>2. IntakeHere(t, q, u)
    BY <1>8, <1>11, <1>13, <2>1 DEF IntakeHere
  <2> QED BY <1>8, <1>9, <1>10, <1>11, <1>12, <1>13, <2>2 DEF IntakeAdopted, show, home
<1>14. CASE home # t.case
  <2>1. AllBut(t, u, Cleared \cup {"reg"})
    BY <1>8, <1>9, <1>14 DEF AllBut, Cleared
  <2>2. IntakeElsewhere(t, q, u)
    <3>1. /\ u.drawer = None /\ u.dialog = None /\ u.view = None /\ u.lost = None /\ ~u.dirty
          /\ \A p \in u.net : ~p.fresh
          /\ u.reg = register
      BY <1>8, <1>11, <1>14
    <3>2. Known(u) = Known(t) \cup {home} /\ u.reg[home] = q.arg /\ \A c \in Known(t) \ {home} : u.reg[c] = t.reg[c]
      BY <1>3, <3>1 DEF Known
    <3> QED BY <2>1, <3>1, <3>2 DEF IntakeElsewhere, home
  <2> QED BY <1>8, <1>9, <1>10, <1>11, <1>12, <1>14, <2>2 DEF IntakeAdopted, show, home
<1> QED BY <1>13, <1>14

\* resumeRun
RunResumed(t, q, u) ==
  /\ Tab(u) /\ AllBut(t, u, {"shown", "net", "busy", "failed"}) /\ u.shown = [id |-> q.run, ended |-> "live"]
  /\ ~u.failed /\ Asked(u) /\ (Distinct(t.net) => Distinct(u.net))
  /\ \E of : AgedWith(t.net, u.net, Call(t, "run", of, t.run))
LEMMA ResumeAnsweredFields ==
  ASSUME NEW t, Tab(t), NEW q, q.run \in Run, q.kind = "resume", NEW u, u = WriteAnswered(t, q, TRUE), Fits(t, q)
  PROVE  RunResumed(t, q, u)
<1> DEFINE show == [id |-> q.run, ended |-> "live"]
<1>1. u = RefreshRun([t EXCEPT !.shown = show], "resume") /\ t.run = q.run
  BY DEF WriteAnswered, Fits, Matches
<1>2. show \in Shown \cup {None} /\ q.run # None
  BY WorkspaceAssumption DEF Shown
<1> HIDE DEF show
<1>3. PICK s : Shaped(s) /\ AllBut(t, s, {"shown"}) /\ s.shown = show /\ u = RefreshRun(s, "resume")
  BY <1>1 DEF Tab, Shaped, Fields, AllBut
<1>4. Tab(s) /\ s.net = t.net /\ s.run = t.run /\ s.case = t.case
  <2>1. s.net = t.net /\ s.run = t.run /\ s.case = t.case
    BY <1>3 DEF AllBut, Fields
  <2> QED BY <1>2, <1>3, <2>1, TabOf
<1>5. "resume" \in Kinds \cup {"none"}
  BY DEF Kinds
<1>6. /\ Tab(u) /\ (Distinct(s.net) => Distinct(u.net))
      /\ s.run # None => /\ AllBut(s, u, {"net", "busy", "failed"}) /\ ~u.failed /\ Asked(u)
                         /\ AgedWith(s.net, u.net, Call(s, "run", "resume", s.run))
  BY <1>3, <1>4, <1>5, RefreshRunFields
<1>7. Call(s, "run", "resume", s.run) = Call(t, "run", "resume", t.run)
  BY <1>4 DEF Call
<1>8. AllBut(t, u, {"shown", "net", "busy", "failed"}) /\ u.shown = show
  BY <1>1, <1>2, <1>3, <1>4, <1>6 DEF AllBut, Fields
<1> QED BY <1>1, <1>2, <1>4, <1>6, <1>7, <1>8 DEF RunResumed, show

\* The first answer with the cases: what the tab is taken to, and how it gets there.
Bad(t) == t.loc.case # None /\ t.loc.case \notin Case
Target(t) == IF t.case \in Case THEN t.case ELSE IF t.loc.case \in Case THEN t.loc.case
             ELSE IF t.loc.case # None THEN None ELSE First(Case)
RegisterAsked(t, u) ==
  /\ t.dirty /\ Target(t) # t.case
  /\ AllBut(t, u, {"reg", "loading", "claimed", "ask"}) /\ u.claimed = IF Bad(t) THEN t.loc ELSE t.claimed
  /\ u.ask = IF t.ask = None THEN [to |-> "case", case |-> Target(t), run |-> None] ELSE t.ask
RegisterKept(t, u) ==
  /\ Target(t) = t.case
  /\ AllBut(t, u, {"reg", "loading", "lost", "run", "moved", "net", "status"})
  /\ u.run = IF t.run = None /\ t.loc.run = None /\ t.case # None THEN head[t.case] ELSE t.run
  /\ u.lost = IF Bad(t) THEN t.loc.case ELSE None
  /\ t.case # None => \A p \in u.net : ~p.fresh
RegisterOpened(t, u) ==
  /\ ~t.dirty /\ Target(t) # t.case
  /\ AllBut(t, u, Cleared \cup {"reg", "loading", "claimed"}) /\ u.claimed = IF Bad(t) THEN t.loc ELSE t.claimed
  /\ u.case = Target(t)
  /\ u.run = IF t.loc.run # None /\ ~Bad(t) THEN t.loc.run ELSE IF Target(t) # None THEN head[Target(t)] ELSE None
  /\ u.drawer = None /\ u.dialog = None /\ u.view = None /\ u.shown = None /\ ~u.failed /\ u.intake = None /\ ~u.dirty
  /\ u.lost = IF Bad(t) THEN t.loc.case ELSE None
  /\ \A p \in u.net : ~p.fresh
RegisterRead(t, u) ==
  /\ Tab(u) /\ u.reg = head /\ ~u.loading
  /\ Aged(t.net, u.net) /\ (Distinct(t.net) => Distinct(u.net))
  /\ RegisterAsked(t, u) \/ RegisterKept(t, u) \/ RegisterOpened(t, u)

LEMMA RegisterReadFields ==
  ASSUME NEW t, Tab(t), NEW q, q.last, Matches(t, q), head \in [Case -> Run \cup {None}],
         NEW u, u = CasesAnswered(t, q, TRUE)
  PROVE  RegisterRead(t, u)
<1> DEFINE link == t.loc
           bad == Bad(t)
           to == Target(t)
           loaded == [t EXCEPT !.reg = head, !.loading = FALSE]
           parked == IF to # t.case /\ bad THEN [loaded EXCEPT !.claimed = link] ELSE loaded
           chosen == SelectCase(parked, to, head)
           routed == IF to # t.case /\ link.run # None /\ ~bad THEN SelectRunEvent(chosen, to, link.run) ELSE chosen
           bound  == IF routed.run # None \/ link.run # None \/ to = None \/ head[to] = None THEN routed
                     ELSE SelectRunEvent(routed, to, head[to])
           lost == IF bad THEN link.case ELSE None
<1>1. to \in Case \cup {None}
  <2>1. First(Case) \in Case
    BY WorkspaceAssumption DEF First
  <2> QED BY <2>1 DEF Target
<1>2. u = IF Blocked(parked, to) THEN chosen ELSE [RequestStarted(bound) EXCEPT !.lost = lost]
  BY DEF CasesAnswered, Bad, Target
<1>3. to \in Case => head[to] \in Run \cup {None}
  OBVIOUS
<1>4. link \in Link /\ link.case \in Selectable /\ link.run \in Run \cup {None}
  BY DEF Tab, Typed, Link
<1>5. lost \in Selectable /\ None \in Selectable
  BY <1>4 DEF Selectable
<1>6. Shaped(loaded) /\ AllBut(t, loaded, {"reg", "loading"}) /\ loaded.reg = head /\ loaded.loading = FALSE
  BY DEF Tab, Shaped, Fields, AllBut
<1> HIDE DEF loaded, bad, to, link, lost
<1>7. /\ Tab(loaded) /\ loaded.net = t.net /\ loaded.case = t.case /\ loaded.run = t.run /\ loaded.dirty = t.dirty
      /\ loaded.ask = t.ask /\ loaded.claimed = t.claimed
  <2>1. Known(loaded) \subseteq Case /\ \A c \in Known(loaded) : loaded.reg[c] \in Run \cup {None}
    BY <1>6 DEF Known
  <2>2. /\ loaded.net = t.net /\ loaded.case = t.case /\ loaded.run = t.run /\ loaded.dirty = t.dirty
        /\ loaded.ask = t.ask /\ loaded.claimed = t.claimed
    BY <1>6 DEF AllBut, Fields
  <2> QED BY <1>6, <2>1, <2>2, TabOf
<1>8. /\ Tab(parked) /\ AllBut(loaded, parked, {"claimed"}) /\ parked.claimed = IF to # t.case /\ bad THEN link ELSE t.claimed
      /\ to = t.case => parked = loaded
  <2>1. CASE to # t.case /\ bad
    <3>1. parked = [loaded EXCEPT !.claimed = link]
      BY <2>1
    <3> HIDE DEF parked
    <3>2. Shaped(parked) /\ AllBut(loaded, parked, {"claimed"}) /\ parked.claimed = link
      BY <1>7, <3>1 DEF Tab, Shaped, Fields, AllBut
    <3>3. Tab(parked)
      BY <1>4, <1>7, <3>2, TabOf
    <3> QED BY <2>1, <3>2, <3>3
  <2>2. CASE ~(to # t.case /\ bad)
    <3>1. parked = loaded
      BY <2>2
    <3> HIDE DEF parked
    <3> QED BY <1>7, <2>2, <3>1 DEF AllBut
  <2> QED BY <2>1, <2>2
<1> HIDE DEF parked
<1>9. /\ parked.net = t.net /\ parked.case = t.case /\ parked.run = t.run /\ parked.dirty = t.dirty /\ parked.ask = t.ask
      /\ parked.reg = head /\ parked.loading = FALSE /\ AllBut(t, parked, {"reg", "loading", "claimed"})
  BY <1>6, <1>7, <1>8 DEF AllBut, Fields
<1>10. DOMAIN head = Case
  OBVIOUS
<1>11. \/ to = t.case /\ chosen = loaded /\ ~Blocked(parked, to)
       \/ /\ Blocked(parked, to) /\ Tab(chosen) /\ AllBut(parked, chosen, {"ask"})
          /\ chosen.ask = IF t.ask = None THEN [to |-> "case", case |-> to, run |-> None] ELSE t.ask
       \/ to # t.case /\ ~t.dirty /\ chosen = CommitCaseSelection(parked, to, head) /\ ~Blocked(parked, to)
  <2> HIDE DEF chosen
  <2>1. chosen = SelectCase(parked, to, head)
    BY DEF chosen
  <2>2. to \in DOMAIN head => head[to] \in Run \cup {None}
    BY <1>3, <1>10
  <2>3. \/ to = parked.case /\ chosen = parked
        \/ /\ Blocked(parked, to) /\ Tab(chosen) /\ AllBut(parked, chosen, {"ask"})
           /\ chosen.ask = IF parked.ask = None THEN [to |-> "case", case |-> to, run |-> None] ELSE parked.ask
        \/ to # parked.case /\ ~parked.dirty /\ chosen = CommitCaseSelection(parked, to, head)
    BY <1>1, <1>8, <2>1, <2>2, SelectCaseFields
  <2> QED BY <1>8, <1>9, <2>3 DEF Blocked
<1>12. CASE Blocked(parked, to)
  <2>1. u = chosen /\ to # t.case /\ t.dirty
    BY <1>2, <1>9, <1>12 DEF Blocked
  <2> HIDE DEF chosen
  <2>2. /\ Tab(u) /\ AllBut(parked, u, {"ask"})
        /\ u.ask = IF t.ask = None THEN [to |-> "case", case |-> to, run |-> None] ELSE t.ask
    BY <1>11, <1>12, <2>1
  <2>3. /\ AllBut(t, u, {"reg", "loading", "claimed", "ask"}) /\ u.claimed = parked.claimed /\ u.net = t.net /\ u.reg = head
        /\ u.loading = FALSE
    BY <1>9, <2>2 DEF AllBut, Fields
  <2>4. RegisterAsked(t, u)
    BY <1>8, <2>1, <2>2, <2>3 DEF RegisterAsked, to, bad, link
  <2>5. Aged(t.net, u.net) /\ (Distinct(t.net) => Distinct(u.net))
    BY <2>3 DEF Aged, Later
  <2> QED BY <2>2, <2>3, <2>4, <2>5 DEF RegisterRead
<1> DEFINE s == RequestStarted(bound)
           Rest(v) == /\ Tab(v) /\ Aged(bound.net, v.net) /\ (Distinct(bound.net) => Distinct(v.net))
                      /\ AllBut(bound, v, {"moved", "net", "status", "lost"}) /\ v.lost = lost
                      /\ bound.case # None => \A p \in v.net : ~p.fresh
<1>13. ASSUME ~Blocked(parked, to), Tab(bound) PROVE Rest(u)
  <2>1. u = [s EXCEPT !.lost = lost]
    BY <1>2, <1>13
  <2> HIDE DEF bound
  <2>2. /\ Tab(s) /\ AllBut(bound, s, {"moved", "net", "status"})
        /\ Aged(bound.net, s.net) /\ (Distinct(bound.net) => Distinct(s.net))
        /\ bound.case # None => \A p \in s.net : ~p.fresh
    BY <1>13, RequestStartedFields
  <2> HIDE DEF s
  <2>3. Shaped(u) /\ AllBut(s, u, {"lost"}) /\ u.lost = lost
    BY <2>1, <2>2 DEF Tab, Shaped, Fields, AllBut
  <2>4. Tab(u) /\ u.net = s.net
    <3>1. u.net = s.net
      BY <2>3 DEF AllBut, Fields
    <3> QED BY <1>5, <2>2, <2>3, <3>1, TabOf
  <2>5. AllBut(bound, u, {"moved", "net", "status", "lost"})
    BY <2>2, <2>3 DEF AllBut
  <2> QED BY <2>2, <2>3, <2>4, <2>5
<1>14. CASE to = t.case
  <2>1. chosen = loaded /\ ~Blocked(parked, to) /\ routed = chosen
    BY <1>11, <1>14, <1>9 DEF Blocked
  <2> HIDE DEF chosen
  <2>2. routed = loaded
    BY <2>1
  <2> HIDE DEF routed
  <2> DEFINE run == IF t.run = None /\ link.run = None /\ t.case # None THEN head[t.case] ELSE t.run
  <2>3. Tab(bound) /\ AllBut(loaded, bound, Reselects) /\ bound.run = run /\ Aged(loaded.net, bound.net) /\ (Distinct(loaded.net) => Distinct(bound.net))
    <3>1. CASE t.run # None \/ link.run # None \/ to = None \/ head[to] = None
      <4>1. bound = loaded
        BY <1>7, <2>2, <3>1
      <4> HIDE DEF bound
      <4>2. AllBut(loaded, loaded, Reselects) /\ Aged(loaded.net, loaded.net)
        BY DEF AllBut, Aged, Later
      <4>3. run = t.run
        BY <3>1, <1>14
      <4> QED BY <1>7, <4>1, <4>2, <4>3
    <3>2. CASE ~(t.run # None \/ link.run # None \/ to = None \/ head[to] = None)
      <4>1. bound = SelectRunEvent(loaded, to, head[to]) /\ to \in Case
        BY <1>1, <1>7, <2>2, <3>2
      <4> HIDE DEF bound
      <4>2. RunSelected(loaded, to, head[to], bound)
        BY <1>3, <1>7, <4>1, SelectRunEventFields
      <4>3. run = head[to]
        BY <3>2, <1>14
      <4> QED BY <1>7, <1>14, <4>2, <4>3 DEF RunSelected
    <3> QED BY <3>1, <3>2
  <2>4. Rest(u)
    BY <1>13, <2>1, <2>3
  <2> HIDE DEF bound, run
  <2>5. /\ AllBut(t, u, {"reg", "loading", "lost", "run", "moved", "net", "status"})
        /\ u.run = run /\ u.lost = lost /\ u.reg = head /\ u.loading = FALSE
    BY <1>6, <2>3, <2>4 DEF AllBut, Reselects, Fields
  <2>6. Aged(t.net, u.net) /\ (Distinct(t.net) => Distinct(u.net))
    BY <1>7, <2>3, <2>4, AgedTrans
  <2>7. t.case # None => \A p \in u.net : ~p.fresh
    <3>1. bound.case = loaded.case
      BY <2>3 DEF AllBut, Reselects, Fields
    <3> QED BY <1>7, <2>4, <3>1
  <2>8. RegisterKept(t, u)
    BY <1>14, <2>5, <2>7 DEF RegisterKept, to, run, lost, link, bad
  <2> QED BY <2>4, <2>5, <2>6, <2>8 DEF RegisterRead
<1>15. CASE to # t.case /\ ~Blocked(parked, to)
  <2>1. ~t.dirty /\ chosen = CommitCaseSelection(parked, to, head)
    BY <1>11, <1>15
  <2> HIDE DEF chosen
  <2>2. to \in Selectable /\ (to \in DOMAIN head => head[to] \in Run \cup {None})
    BY <1>1, <1>3, <1>10 DEF Selectable
  <2>3. Tab(chosen) /\ AllBut(parked, chosen, Cleared) /\ chosen.case = to /\ chosen.run = OpenedOn(parked, to, head)
    BY <1>8, <2>1, <2>2, CommitFields
  <2>4. /\ chosen.drawer = None /\ chosen.dialog = None /\ chosen.view = None /\ chosen.shown = None
        /\ ~chosen.failed /\ chosen.intake = None /\ ~chosen.dirty
    BY <1>8, <2>1, <2>2, CommitFields
  <2>5. /\ Aged(parked.net, chosen.net) /\ (Distinct(parked.net) => Distinct(chosen.net))
        /\ \A p \in chosen.net : ~p.fresh
    BY <1>8, <1>9, <1>15, <2>1, <2>2, CommitFields
  <2>6. chosen.run = IF to # None THEN head[to] ELSE None
    BY <1>1, <1>9, <1>10, <1>15, <2>3, WorkspaceAssumption DEF OpenedOn
  <2> DEFINE run == IF link.run # None /\ ~bad THEN link.run ELSE IF to # None THEN head[to] ELSE None
  <2>7. /\ Tab(routed) /\ AllBut(chosen, routed, Reselects) /\ routed.run = run
        /\ Aged(chosen.net, routed.net) /\ (Distinct(chosen.net) => Distinct(routed.net))
    <3>1. CASE link.run # None /\ ~bad
      <4>1. routed = SelectRunEvent(chosen, to, link.run)
        BY <1>15, <3>1
      <4> HIDE DEF routed
      <4>2. RunSelected(chosen, to, link.run, routed)
        BY <1>4, <2>3, <4>1, SelectRunEventFields
      <4> QED BY <2>3, <3>1, <4>2 DEF RunSelected
    <3>2. CASE ~(link.run # None /\ ~bad)
      <4>1. routed = chosen
        BY <3>2
      <4> HIDE DEF routed
      <4>2. AllBut(chosen, chosen, Reselects) /\ Aged(chosen.net, chosen.net)
        BY DEF AllBut, Aged, Later
      <4> QED BY <2>3, <2>6, <3>2, <4>1, <4>2
    <3> QED BY <3>1, <3>2
  <2> HIDE DEF routed
  <2>8. bound = routed
    BY <2>7, <1>15
  <2> HIDE DEF bound, run
  <2>9. Rest(u) /\ u.run = run /\ u.case = to
    <3>1. Rest(u)
      BY <1>13, <1>15, <2>7, <2>8
    <3> QED BY <2>3, <2>7, <2>8, <3>1 DEF AllBut, Reselects, Fields
  <2>10. AllBut(t, u, Cleared \cup {"reg", "loading", "claimed"}) /\ u.claimed = parked.claimed /\ u.reg = head /\ u.loading = FALSE
    <3>1. AllBut(bound, u, {"moved", "net", "status", "lost"})
      BY <2>9
    <3>2. AllBut(parked, u, Cleared)
      BY <2>3, <2>7, <2>8, <3>1 DEF AllBut, Cleared, Reselects, Fields
    <3> QED BY <1>9, <3>2 DEF AllBut, Cleared, Fields
  <2>11. /\ u.drawer = None /\ u.dialog = None /\ u.view = None /\ u.shown = None
         /\ ~u.failed /\ u.intake = None /\ ~u.dirty
    BY <2>4, <2>7, <2>8, <2>9, ZenonT(30) DEF AllBut, Reselects, Fields
  <2>12. Aged(t.net, u.net) /\ (Distinct(t.net) => Distinct(u.net))
    BY <1>9, <2>5, <2>7, <2>8, <2>9, AgedTrans
  <2>13. \A p \in u.net : ~p.fresh
    <3>1. \A p \in u.net : \E o \in chosen.net : Later(o, p)
      <4>1. Aged(chosen.net, routed.net) /\ Aged(routed.net, u.net)
        BY <2>7, <2>8, <2>9
      <4>2. Aged(chosen.net, u.net)
        BY <4>1, AgedTrans
      <4> QED BY <4>2 DEF Aged
    <3> QED BY <2>5, <3>1 DEF Later
  <2>14. u.lost = lost
    BY <2>9
  <2>15. RegisterOpened(t, u)
    BY <1>8, <1>15, <2>1, <2>9, <2>10, <2>11, <2>13, <2>14 DEF RegisterOpened, to, run, lost, link, bad
  <2> QED BY <2>9, <2>10, <2>12, <2>15 DEF RegisterRead
<1> QED BY <1>12, <1>14, <1>15
-----------------------------------------------------------------------------
(* What holds of the tab whatever the links and the server's cases *)
\* What a request in flight was asked for.
CallOK(q) ==
  /\ q.kind \in {"case", "evidence", "upload", "accept", "start"} => q.case \in Case
  /\ q.kind = "run" => q.run \in Run /\ q.arg = q.run
  /\ q.kind = "start" => q.arg = Fresh[q.case]
  /\ q.kind = "intake" => \E c \in Case : q.arg = Fresh[c]
  /\ q.kind = "resume" => q.run \in Run
Calls(N) == \A q \in N : CallOK(q)
Sane(t) == Tab(t) /\ Calls(t.net) /\ Distinct(t.net)

\* What the tab shows is of the selected case and run.
Belongs(t) ==
  /\ t.view \in {None, t.case} /\ t.drawer \in {None, t.case} /\ t.intake \in {None, t.case}
  /\ t.shown # None => t.shown.id = t.run /\ CaseOf[t.run] = t.case
\* A resume is of a run of the case.
Resumes(N) == \A q \in N : q.kind = "resume" => CaseOf[q.run] = q.case
\* A link that is being followed was read in the selection that is still on show.
Ticks(t) == t.timer # None => /\ t.ran.route = <<t.case, t.reg, t.loading, t.timer.asked, t.run>>
                              /\ t.timer.case = t.case /\ t.timer.run = t.run /\ t.timer.known = Known(t)
Fitting(t) == Belongs(t) /\ Resumes(t.net) /\ Ticks(t)

LEMMA AgedCalls ==
  ASSUME NEW N, NEW M, Aged(N, M)
  PROVE  /\ Calls(N) => Calls(M)
         /\ Resumes(N) => Resumes(M)
BY DEF Aged, Later, Calls, CallOK, Resumes

LEMMA AgedWithCalls ==
  ASSUME NEW N, NEW M, NEW x, AgedWith(N, M, x)
  PROVE  /\ Calls(N) /\ CallOK(x) => Calls(M)
         /\ Resumes(N) /\ x.kind # "resume" => Resumes(M)
BY DEF AgedWith, Later, Calls, CallOK, Resumes

LEMMA RunCalls ==
  ASSUME NEW t, Tab(t), t.run # None, NEW u, \E of : AgedWith(t.net, u.net, Call(t, "run", of, t.run))
  PROVE  /\ Calls(t.net) => Calls(u.net)
         /\ Resumes(t.net) => Resumes(u.net)
<1>1. PICK of : AgedWith(t.net, u.net, Call(t, "run", of, t.run))
  OBVIOUS
<1>2. CallOK(Call(t, "run", of, t.run)) /\ Call(t, "run", of, t.run).kind # "resume"
  BY DEF CallOK, Call, Tab, Typed
<1> QED BY <1>1, <1>2, AgedWithCalls

LEMMA CaseCalls ==
  ASSUME NEW t, Tab(t), t.case \in Case, NEW u, \E of : AgedWith(t.net, u.net, Call(t, "case", of, None))
  PROVE  /\ Calls(t.net) => Calls(u.net)
         /\ Resumes(t.net) => Resumes(u.net)
<1>1. PICK of : AgedWith(t.net, u.net, Call(t, "case", of, None))
  OBVIOUS
<1>2. CallOK(Call(t, "case", of, None)) /\ Call(t, "case", of, None).kind # "resume"
  BY DEF CallOK, Call
<1> QED BY <1>1, <1>2, AgedWithCalls

\* A tab stays fitting while its case, its run and its timer stand, and it shows no more.
LEMMA FittingKept ==
  ASSUME NEW t, NEW u, Fitting(t), Resumes(u.net), u.case = t.case, u.run = t.run,
         u.view \in {t.view, t.case, None}, u.drawer \in {t.drawer, t.case, None}, u.intake = t.intake,
         u.shown \in {t.shown, None},
         u.timer # None => u.timer = t.timer /\ u.ran.route = t.ran.route /\ u.reg = t.reg /\ u.loading = t.loading
  PROVE  Fitting(u)
<1>1. Belongs(u)
  BY DEF Fitting, Belongs
<1>2. Ticks(u)
  BY DEF Fitting, Ticks, Known
<1> QED BY <1>1, <1>2 DEF Fitting

\* What the effects keep: the tab they run on may have been moved by a gesture.
LEMMA FlushKeeps ==
  ASSUME NEW t, Tab(t), NEW f, f = Flushed(t)
  PROVE  /\ Tab(f) /\ AllBut(t, f, Flushes)
         /\ Calls(t.net) => Calls(f.net)
         /\ Distinct(t.net) => Distinct(f.net)
         /\ Resumes(t.net) => Resumes(f.net)
         /\ Belongs(t) => Belongs(f)
         /\ (t.ran.route = RouteDeps(t) => Ticks(t)) => Ticks(f)
<1>1. /\ Tab(f) /\ AllBut(t, f, Flushes) /\ f.ran.route = RouteDeps(f)
      /\ t.ran.route = RouteDeps(t) => f.timer = t.timer
      /\ t.ran.route # RouteDeps(t) => f.timer = IF t.claimed = t.asked \/ Waits(t) THEN None ELSE NewTimer(t)
      /\ f.view \in {t.view, None} /\ f.drawer \in {t.drawer, None}
      /\ \A p \in f.net : Started(t, p) \/ \E q \in t.net : Later(q, p)
      /\ Distinct(t.net) => Distinct(f.net)
  BY FlushedFields
<1>2. \A p : Started(t, p) => CallOK(p) /\ p.kind # "resume"
  BY DEF Started, CallOK, Authorized, Tab, Typed
<1>3. Calls(t.net) => Calls(f.net)
  BY <1>1, <1>2 DEF Calls, CallOK, Later
<1>4. Resumes(t.net) => Resumes(f.net)
  BY <1>1, <1>2 DEF Resumes, Later
<1>5. /\ f.case = t.case /\ f.run = t.run /\ f.reg = t.reg /\ f.loading = t.loading /\ f.asked = t.asked
      /\ f.shown = t.shown /\ f.intake = t.intake
  BY <1>1 DEF AllBut, Flushes, Fields
<1>6. Belongs(t) => Belongs(f)
  BY <1>1, <1>5 DEF Belongs
<1>7. ASSUME t.ran.route = RouteDeps(t) => Ticks(t) PROVE Ticks(f)
  <2>1. CASE t.ran.route = RouteDeps(t)
    BY <1>1, <1>5, <1>7, <2>1 DEF Ticks, RouteDeps, Known
  <2>2. CASE t.ran.route # RouteDeps(t) /\ f.timer # None
    <3>1. f.timer = NewTimer(t)
      BY <1>1, <2>2
    <3>2. f.timer.asked = f.asked /\ f.timer.case = f.case /\ f.timer.run = f.run /\ f.timer.known = Known(f)
      BY <1>5, <3>1 DEF NewTimer, Known
    <3> QED BY <1>1, <3>2 DEF Ticks, RouteDeps
  <2> QED BY <2>1, <2>2 DEF Ticks
<1> QED BY <1>1, <1>3, <1>4, <1>6, <1>7
-----------------------------------------------------------------------------
\* Following a link: the ways the route effect's timeout may end.
LinkStale(t, u)   == t.claimed # t.timer.under /\ AllBut(t, u, {"timer"})
LinkAsked(t, u)   ==
  /\ t.timer.asked.case \in t.timer.known /\ t.timer.asked.case # t.timer.case /\ t.timer.asked.case # t.case /\ t.dirty
  /\ AllBut(t, u, {"timer", "ask", "loc"}) /\ u.loc = [case |-> t.timer.case, run |-> t.timer.run]
  /\ u.ask = IF t.ask = None THEN [to |-> "case", case |-> t.timer.asked.case, run |-> None] ELSE t.ask
LinkOpened(t, u)  ==
  /\ t.timer.asked.case \in t.timer.known /\ t.timer.asked.case # t.case /\ ~t.dirty
  /\ AllBut(t, u, Cleared \cup {"timer", "claimed"}) /\ u.claimed = t.timer.asked
  /\ u.case = t.timer.asked.case
  /\ u.run = IF t.timer.asked.run # None THEN t.timer.asked.run
             ELSE IF u.case \in Known(t) THEN t.reg[u.case] ELSE None
  /\ u.drawer = None /\ u.dialog = None /\ u.view = None /\ u.shown = None /\ u.intake = None /\ u.lost = None /\ ~u.dirty
  /\ ~u.failed /\ \A p \in u.net : ~p.fresh
LinkMisread(t, u) == t.timer.case # t.case /\ AllBut(t, u, Reselects \cup {"timer", "claimed", "shown"})
LinkKept(t, u)    ==
  /\ AllBut(t, u, {"timer", "claimed"}) /\ u.claimed = t.timer.asked
  /\ t.timer.asked.case \notin t.timer.known \/ t.timer.asked.case = t.timer.case
  /\ t.timer.asked.run \in {None, t.timer.run}
LinkRerun(t, u)   ==
  /\ t.timer.case = t.case /\ t.timer.asked.run \notin {None, t.timer.run}
  /\ t.timer.asked.case \notin t.timer.known \/ t.timer.asked.case = t.timer.case
  /\ AllBut(t, u, Reselects \cup {"timer", "claimed", "shown"}) /\ u.claimed = t.timer.asked
  /\ u.run = t.timer.asked.run /\ u.shown = None
  /\ u.run # t.run => \A p \in u.net : ~p.fresh
LinkTaken(t, u) ==
  /\ Tab(u) /\ u.timer = None /\ Aged(t.net, u.net) /\ (Distinct(t.net) => Distinct(u.net))
  /\ \/ LinkStale(t, u) \/ LinkMisread(t, u)
     \/ t.claimed = t.timer.under /\ (LinkAsked(t, u) \/ LinkOpened(t, u) \/ LinkKept(t, u) \/ LinkRerun(t, u))

LEMMA RouteFiresFields ==
  ASSUME Tab(w), RouteFires
  PROVE  LinkTaken(w, w')
<1> DEFINE r == w.timer
           to == r.asked
           t == [w EXCEPT !.timer = None]
           followed == [t EXCEPT !.claimed = to]
<1>1. r \in Timer /\ w.timer # None
  BY DEF RouteFires, Tab, Typed
<1>2. to \in Link /\ to.case \in Selectable /\ to.run \in Run \cup {None} /\ r.known \subseteq Case /\ to = w.timer.asked
  BY <1>1 DEF Timer, Link
<1>3. w' = CASE w.claimed # r.under -> t
             [] w.claimed = r.under /\ to.case \in r.known /\ to.case # r.case ->
                  IF Blocked(t, to.case)
                  THEN [SelectCase(t, to.case, t.reg) EXCEPT !.loc = [case |-> r.case, run |-> r.run]]
                  ELSE LET u == SelectCase(followed, to.case, t.reg)
                       IN  IF to.run = None THEN u ELSE SelectRunEvent(u, to.case, to.run)
             [] OTHER ->
                  IF to.run = None \/ to.run = r.run THEN followed
                  ELSE SelectRunEvent([followed EXCEPT !.shown = None], r.case, to.run)
  BY DEF RouteFires
<1>4. Shaped(t) /\ AllBut(w, t, {"timer"}) /\ t.timer = None
  BY DEF Tab, Shaped, Fields, AllBut
<1>5. Shaped(followed) /\ AllBut(t, followed, {"claimed"}) /\ followed.claimed = to
  BY <1>4 DEF Shaped, Fields, AllBut
<1> HIDE DEF t, to
<1>6. /\ Tab(t) /\ t.net = w.net /\ t.case = w.case /\ t.run = w.run /\ t.reg = w.reg /\ t.dirty = w.dirty /\ t.ask = w.ask
  <2>1. t.net = w.net /\ t.case = w.case /\ t.run = w.run /\ t.reg = w.reg /\ t.dirty = w.dirty /\ t.ask = w.ask
    BY <1>4 DEF AllBut, Fields
  <2> QED BY <1>4, <2>1, TabOf
<1> HIDE DEF followed
<1>7. /\ Tab(followed) /\ followed.net = w.net /\ followed.case = w.case /\ followed.run = w.run /\ followed.reg = w.reg
      /\ followed.dirty = w.dirty /\ followed.ask = w.ask /\ followed.timer = None
      /\ AllBut(w, followed, {"timer", "claimed"})
  <2>1. /\ followed.net = w.net /\ followed.case = w.case /\ followed.run = w.run /\ followed.reg = w.reg
        /\ followed.dirty = w.dirty /\ followed.ask = w.ask /\ followed.timer = None
    BY <1>4, <1>5, <1>6 DEF AllBut, Fields
  <2>2. AllBut(w, followed, {"timer", "claimed"})
    BY <1>4, <1>5 DEF AllBut
  <2> QED BY <1>2, <1>5, <1>6, <2>1, <2>2, TabOf
<1> HIDE DEF r
<1>8. /\ \A c : c \in DOMAIN t.reg => t.reg[c] \in Run \cup {None}
      /\ DOMAIN t.reg = Known(w)
  BY <1>6 DEF Tab, Typed, Known
<1>9. Aged(w.net, w.net)
  BY DEF Aged, Later
<1>10. CASE w.claimed # r.under
  <2>1. w' = t
    BY <1>3, <1>10
  <2> QED BY <1>4, <1>6, <1>9, <1>10, <2>1 DEF LinkTaken, LinkStale, r
<1>11. CASE w.claimed = r.under /\ to.case \in r.known /\ to.case # r.case /\ Blocked(t, to.case)
  <2> DEFINE back == [case |-> r.case, run |-> r.run]
             chosen == SelectCase(t, to.case, t.reg)
  <2>1. w' = [chosen EXCEPT !.loc = back]
    BY <1>3, <1>11
  <2>2. back \in Link
    BY <1>1 DEF Timer, Link, r
  <2>3. to.case \in Case \cup {None} /\ to.case # t.case /\ t.dirty
    BY <1>2, <1>11 DEF Blocked
  <2> HIDE DEF chosen
  <2>4. /\ Tab(chosen) /\ AllBut(t, chosen, {"ask"})
        /\ chosen.ask = IF t.ask = None THEN [to |-> "case", case |-> to.case, run |-> None] ELSE t.ask
    <3>1. chosen = SelectCase(t, to.case, t.reg)
      BY DEF chosen
    <3> QED BY <1>6, <1>8, <2>3, <3>1, SelectCaseFields
  <2> HIDE DEF back
  <2>5. Shaped(w') /\ AllBut(chosen, w', {"loc"}) /\ w'.loc = back
    BY <2>1, <2>4 DEF Tab, Shaped, Fields, AllBut
  <2>6. Tab(w')
    BY <2>2, <2>4, <2>5, TabOf
  <2>7. AllBut(w, w', {"timer", "ask", "loc"}) /\ w'.ask = chosen.ask /\ w'.net = w.net /\ w'.timer = None
    BY <1>4, <1>6, <2>4, <2>5 DEF AllBut, Fields
  <2>8. LinkAsked(w, w')
    BY <1>2, <1>6, <1>11, <2>3, <2>4, <2>5, <2>7 DEF LinkAsked, r, back
  <2> QED BY <1>9, <1>11, <2>6, <2>7, <2>8 DEF LinkTaken, r
<1>12. CASE w.claimed = r.under /\ to.case \in r.known /\ to.case # r.case /\ ~Blocked(t, to.case)
  <2> DEFINE chosen == SelectCase(followed, to.case, t.reg)
  <2>1. w' = IF to.run = None THEN chosen ELSE SelectRunEvent(chosen, to.case, to.run)
    BY <1>3, <1>12
  <2>2. to.case \in Case \cup {None} /\ (to.case = w.case \/ ~w.dirty) /\ to.case \in Selectable
    BY <1>2, <1>6, <1>12 DEF Blocked
  <2> HIDE DEF chosen
  <2>3. \/ to.case = w.case /\ chosen = followed
        \/ to.case # w.case /\ chosen = CommitCaseSelection(followed, to.case, t.reg)
    <3>1. chosen = SelectCase(followed, to.case, t.reg)
      BY DEF chosen
    <3>2. to.case \in DOMAIN t.reg => t.reg[to.case] \in Run \cup {None}
      BY <1>8
    <3>3. \/ to.case = followed.case /\ chosen = followed
          \/ Blocked(followed, to.case)
          \/ to.case # followed.case /\ ~followed.dirty /\ chosen = CommitCaseSelection(followed, to.case, t.reg)
      <4>1. \/ to.case = followed.case /\ chosen = followed
            \/ /\ Blocked(followed, to.case) /\ Tab(chosen) /\ AllBut(followed, chosen, {"ask"})
               /\ chosen.ask = IF followed.ask = None THEN [to |-> "case", case |-> to.case, run |-> None] ELSE followed.ask
            \/ to.case # followed.case /\ ~followed.dirty /\ chosen = CommitCaseSelection(followed, to.case, t.reg)
        BY <1>7, <2>2, <3>1, <3>2, SelectCaseFields
      <4> QED BY <4>1
    <3>4. ~Blocked(followed, to.case)
      BY <1>7, <2>2 DEF Blocked
    <3> QED BY <1>7, <3>3, <3>4
  <2>4. /\ Tab(chosen) => (to.run # None /\ RunSelected(chosen, to.case, to.run, w')) \/ (to.run = None /\ w' = chosen)
        /\ Tab(chosen) => Tab(w')
    <3>1. CASE to.run = None
      <4>1. w' = chosen
        BY <2>1, <3>1
      <4> QED BY <3>1, <4>1
    <3>2. CASE to.run # None
      <4>1. w' = SelectRunEvent(chosen, to.case, to.run)
        BY <2>1, <3>2
      <4>2. Tab(chosen) => RunSelected(chosen, to.case, to.run, w')
        BY <1>2, <4>1, SelectRunEventFields
      <4> QED BY <3>2, <4>2 DEF RunSelected
    <3> QED BY <3>1, <3>2
  <2>5. CASE to.case = w.case
    <3>1. chosen = followed
      BY <2>3, <2>5
    <3>2. RunSelected(followed, to.case, to.run, w') \/ (to.run = None /\ w' = followed)
      BY <1>7, <2>4, <3>1
    <3>3. AllBut(w, w', Reselects \cup {"timer", "claimed", "shown"})
      BY <1>7, <3>2 DEF RunSelected, AllBut, Reselects
    <3>4. w'.timer = None
      BY <1>7, <3>2 DEF RunSelected, AllBut, Reselects, Fields
    <3>5. Tab(w') /\ Aged(w.net, w'.net) /\ (Distinct(w.net) => Distinct(w'.net))
      BY <1>7, <1>9, <3>2 DEF RunSelected
    <3>6. LinkMisread(w, w')
      BY <1>12, <2>5, <3>3 DEF LinkMisread, r
    <3> QED BY <3>4, <3>5, <3>6 DEF LinkTaken
  <2>6. CASE to.case # w.case
    <3>1. chosen = CommitCaseSelection(followed, to.case, t.reg) /\ (to.case \in DOMAIN t.reg => t.reg[to.case] \in Run \cup {None})
      BY <1>8, <2>3, <2>6
    <3>2. Tab(chosen) /\ AllBut(followed, chosen, Cleared) /\ chosen.case = to.case /\ chosen.run = OpenedOn(followed, to.case, t.reg)
      BY <1>7, <2>2, <3>1, CommitFields
    <3>3. /\ chosen.drawer = None /\ chosen.dialog = None /\ chosen.view = None /\ chosen.shown = None
          /\ ~chosen.failed /\ chosen.intake = None /\ ~chosen.dirty /\ chosen.lost = None
      BY <1>7, <2>2, <3>1, CommitFields
    <3>4. /\ Aged(followed.net, chosen.net) /\ (Distinct(followed.net) => Distinct(chosen.net))
          /\ \A p \in chosen.net : ~p.fresh
      BY <1>7, <2>2, <2>6, <3>1, CommitFields
    <3>5. chosen.run = IF to.case \in Known(w) THEN w.reg[to.case] ELSE None
      BY <1>6, <1>7, <1>8, <2>6, <3>2 DEF OpenedOn
    <3>6. Tab(w') /\ ((to.run # None /\ RunSelected(chosen, to.case, to.run, w')) \/ (to.run = None /\ w' = chosen))
      BY <2>4, <3>2
    <3>7. w'.run = IF to.run # None THEN to.run ELSE chosen.run
      BY <3>2, <3>6 DEF RunSelected
    <3>8. AllBut(chosen, w', Reselects) /\ Aged(chosen.net, w'.net) /\ (Distinct(chosen.net) => Distinct(w'.net))
      <4>1. AllBut(chosen, chosen, Reselects) /\ Aged(chosen.net, chosen.net)
        BY DEF AllBut, Aged, Later
      <4> QED BY <3>6, <4>1 DEF RunSelected
    <3>9. /\ w'.case = to.case /\ w'.drawer = None /\ w'.dialog = None /\ w'.view = None /\ w'.shown = None
          /\ ~w'.failed /\ w'.intake = None /\ ~w'.dirty /\ w'.lost = None /\ w'.timer = None /\ w'.claimed = to
      BY <1>5, <1>7, <3>2, <3>3, <3>8 DEF AllBut, Reselects, Cleared, Fields
    <3>10. Aged(w.net, w'.net) /\ (Distinct(w.net) => Distinct(w'.net))
      BY <1>7, <3>4, <3>8, AgedTrans
    <3>11. \A p \in w'.net : ~p.fresh
      BY <3>4, <3>8 DEF Aged, Later
    <3>12. AllBut(w, w', Cleared \cup {"timer", "claimed"})
      BY <1>7, <3>2, <3>8 DEF AllBut, Reselects, Cleared
    <3>13. LinkOpened(w, w')
      BY <1>2, <1>12, <2>2, <2>6, <3>5, <3>7, <3>9, <3>11, <3>12 DEF LinkOpened, r
    <3> QED BY <1>12, <3>6, <3>9, <3>10, <3>13 DEF LinkTaken, r
  <2> QED BY <2>5, <2>6
<1>13. CASE w.claimed = r.under /\ ~(to.case \in r.known /\ to.case # r.case) /\ to.run \in {None, r.run}
  <2>1. w' = followed
    BY <1>3, <1>13
  <2>2. LinkKept(w, w')
    BY <1>2, <1>5, <1>7, <1>13, <2>1 DEF LinkKept, r
  <2> QED BY <1>7, <1>9, <1>13, <2>1, <2>2 DEF LinkTaken, r
<1>14. CASE w.claimed = r.under /\ ~(to.case \in r.known /\ to.case # r.case) /\ to.run \notin {None, r.run}
  <2>1. w' = SelectRunEvent([followed EXCEPT !.shown = None], r.case, to.run)
    BY <1>3, <1>14
  <2>2. PICK s : Shaped(s) /\ AllBut(followed, s, {"shown"}) /\ s.shown = None /\ w' = SelectRunEvent(s, r.case, to.run)
    BY <1>7, <2>1 DEF Tab, Shaped, Fields, AllBut
  <2>3. /\ Tab(s) /\ s.net = w.net /\ s.case = w.case /\ s.run = w.run /\ s.timer = None /\ s.claimed = to
    <3>1. s.net = w.net /\ s.case = w.case /\ s.run = w.run /\ s.timer = None /\ s.claimed = to
      BY <1>5, <1>7, <2>2 DEF AllBut, Fields
    <3> QED BY <1>7, <2>2, <3>1, TabOf
  <2>4. RunSelected(s, r.case, to.run, w')
    BY <1>2, <2>2, <2>3, SelectRunEventFields
  <2>5. AllBut(w, w', Reselects \cup {"timer", "claimed", "shown"})
    BY <1>7, <2>2, <2>4 DEF RunSelected, AllBut, Reselects
  <2>6. w'.timer = None /\ w'.claimed = to /\ w'.shown = None
    BY <2>2, <2>3, <2>4 DEF RunSelected, AllBut, Reselects, Fields
  <2>7. Tab(w') /\ Aged(w.net, w'.net) /\ (Distinct(w.net) => Distinct(w'.net))
    BY <2>3, <2>4 DEF RunSelected
  <2>8. CASE r.case # w.case
    BY <2>5, <2>6, <2>7, <2>8 DEF LinkTaken, LinkMisread, r
  <2>9. CASE r.case = w.case
    <3>1. w'.run = to.run /\ (w'.run # w.run => \A p \in w'.net : ~p.fresh)
      BY <2>3, <2>4, <2>9 DEF RunSelected
    <3>2. LinkRerun(w, w')
      BY <1>2, <1>14, <2>5, <2>6, <2>9, <3>1 DEF LinkRerun, r
    <3> QED BY <1>14, <2>6, <2>7, <3>2 DEF LinkTaken, r
  <2> QED BY <2>8, <2>9
<1> QED BY <1>10, <1>11, <1>12, <1>13, <1>14
-----------------------------------------------------------------------------
(* Every step keeps the tab sane; while links are followed first, it keeps it fitting too. *)
ServerTyped == head \in [Case -> Run \cup {None}] /\ done \subseteq Run /\ wish \in Case \cup {None}
Stays == Sane(w') /\ (~RouteRaces /\ Fitting(w) => Fitting(w') /\ DraftLeftAsked)
Inner == {"moved", "status", "loc", "asked", "claimed", "busy", "failed", "action", "dialog", "ask", "dirty", "lost", "stream", "net"}

LEMMA StaysOutside ==
  ASSUME Sane(w), Tab(w'), AllBut(w, w', Inner), Calls(w'.net), Distinct(w'.net),
         Resumes(w.net) => Resumes(w'.net), w.dirty => w'.dirty
  PROVE  Stays
<1>1. /\ w'.case = w.case /\ w'.run = w.run /\ w'.view = w.view /\ w'.drawer = w.drawer /\ w'.intake = w.intake
      /\ w'.shown = w.shown /\ w'.timer = w.timer /\ w'.ran = w.ran /\ w'.reg = w.reg /\ w'.loading = w.loading
  BY DEF AllBut, Inner, Fields
<1>2. Fitting(w) => Fitting(w')
  BY <1>1, FittingKept DEF Fitting
<1> QED BY <1>2 DEF Stays, Sane, DraftLeftAsked

LEMMA EffectsStays ==
  ASSUME Sane(w), Effects
  PROVE  Stays
<1>1. w' = Flushed(w) /\ Tab(w)
  BY DEF Effects, Sane
<1>2. /\ Tab(w') /\ AllBut(w, w', Flushes)
      /\ Calls(w.net) => Calls(w'.net)
      /\ Distinct(w.net) => Distinct(w'.net)
      /\ Resumes(w.net) => Resumes(w'.net)
      /\ Belongs(w) => Belongs(w')
      /\ (w.ran.route = RouteDeps(w) => Ticks(w)) => Ticks(w')
  BY <1>1, FlushKeeps
<1>3. w'.dirty = w.dirty
  BY <1>2 DEF AllBut, Flushes, Fields
<1> QED BY <1>2, <1>3 DEF Stays, Sane, Fitting, DraftLeftAsked

LEMMA RouteFiresStays ==
  ASSUME Sane(w), RouteFires
  PROVE  Stays
<1>1. LinkTaken(w, w')
  BY RouteFiresFields DEF Sane
<1>2. Tab(w') /\ w'.timer = None /\ Aged(w.net, w'.net) /\ Distinct(w'.net) /\ Calls(w'.net)
  BY <1>1, AgedCalls DEF LinkTaken, Sane
<1>3. Sane(w')
  BY <1>2 DEF Sane
<1>4. Resumes(w.net) => Resumes(w'.net)
  BY <1>2, AgedCalls
<1>5. Ticks(w')
  BY <1>2 DEF Ticks
<1>6. w.timer # None
  BY DEF RouteFires
<1>7. ASSUME Fitting(w) PROVE Belongs(w') /\ DraftLeftAsked
  <2>1. w.timer.case = w.case /\ w.timer.run = w.run
    BY <1>6, <1>7 DEF Fitting, Ticks
  <2>2. CASE AllBut(w, w', {"timer"}) \/ AllBut(w, w', {"timer", "ask", "loc"}) \/ AllBut(w, w', {"timer", "claimed"})
    <3>1. /\ w'.case = w.case /\ w'.run = w.run /\ w'.view = w.view /\ w'.drawer = w.drawer /\ w'.intake = w.intake
          /\ w'.shown = w.shown /\ w'.dirty = w.dirty
      BY <2>2 DEF AllBut, Fields
    <3> QED BY <1>7, <3>1 DEF Fitting, Belongs, DraftLeftAsked
  <2>3. CASE LinkOpened(w, w')
    BY <2>3 DEF LinkOpened, Belongs, DraftLeftAsked
  <2>4. CASE LinkRerun(w, w')
    <3>1. /\ w'.case = w.case /\ w'.view = w.view /\ w'.drawer = w.drawer /\ w'.intake = w.intake
          /\ w'.shown = None /\ w'.dirty = w.dirty
      BY <2>4 DEF LinkRerun, AllBut, Reselects, Fields
    <3> QED BY <1>7, <3>1 DEF Fitting, Belongs, DraftLeftAsked
  <2>5. ~LinkMisread(w, w')
    BY <2>1 DEF LinkMisread
  <2> QED BY <1>1, <2>2, <2>3, <2>4, <2>5 DEF LinkTaken, LinkStale, LinkAsked, LinkKept
<1> QED BY <1>3, <1>4, <1>5, <1>7 DEF Stays, Fitting

LEMMA SearchFollowsStays ==
  ASSUME Sane(w), SearchFollows
  PROVE  Stays
<1>1. w' = [w EXCEPT !.asked = w.loc] /\ w.loc \in Link
  BY DEF SearchFollows, Sane, Tab, Typed
<1>2. Shaped(w') /\ AllBut(w, w', {"asked"}) /\ w'.asked = w.loc
  BY <1>1 DEF Sane, Tab, Shaped, Fields, AllBut
<1>3. Tab(w') /\ w'.net = w.net /\ w'.dirty = w.dirty /\ AllBut(w, w', Inner)
  <2>1. w'.net = w.net /\ w'.dirty = w.dirty /\ AllBut(w, w', Inner)
    BY <1>2 DEF AllBut, Inner, Fields
  <2> QED BY <1>1, <1>2, <2>1, TabOf DEF Sane
<1> QED BY <1>3, StaysOutside DEF Sane

\* A refresh of the selected run, whatever has become of its stream.
LEMMA RefreshStays ==
  ASSUME Sane(w), NEW t, Tab(t), AllBut(w, t, {"stream", "action", "busy", "failed", "moved", "status"}), t.run # None,
         w' = RefreshRun(t, "none")
  PROVE  Stays
<1>1. /\ Tab(w') /\ (Distinct(t.net) => Distinct(w'.net))
      /\ t.run # None => /\ AllBut(t, w', {"net", "busy", "failed"}) /\ ~w'.failed /\ Asked(w')
                         /\ AgedWith(t.net, w'.net, Call(t, "run", "none", t.run))
  BY RefreshRunFields
<1>2. t.net = w.net /\ t.dirty = w.dirty
  BY DEF AllBut, Fields
<1>3. (Calls(t.net) => Calls(w'.net)) /\ (Resumes(t.net) => Resumes(w'.net))
  BY <1>1, RunCalls
<1>4. AllBut(w, w', Inner) /\ w'.dirty = w.dirty
  BY <1>1, <1>2 DEF AllBut, Inner, Fields
<1> QED BY <1>1, <1>2, <1>3, <1>4, StaysOutside DEF Sane

LEMMA StreamOpensStays ==
  ASSUME Sane(w), StreamOpens
  PROVE  Stays
<1> DEFINE t == [w EXCEPT !.stream.open = TRUE]
<1>1. w' = IF Follows(w) THEN RefreshRun(t, "none") ELSE t
  BY DEF StreamOpens
<1>2. Shaped(t) /\ AllBut(w, t, {"stream"}) /\ t.stream.run = w.stream.run /\ t.stream.open = TRUE
  BY DEF Sane, Tab, Shaped, Fields, AllBut
<1> HIDE DEF t
<1>3. Tab(t) /\ t.net = w.net /\ t.run = w.run /\ t.dirty = w.dirty
  <2>1. t.net = w.net /\ t.run = w.run /\ t.dirty = w.dirty
    BY <1>2 DEF AllBut, Fields
  <2>2. t.stream.run \in Run \cup {None} /\ t.stream.open \in BOOLEAN
    BY <1>2 DEF Sane, Tab, Typed
  <2> QED BY <1>2, <2>1, <2>2, TabOf DEF Sane
<1>4. CASE Follows(w)
  <2>1. t.run # None /\ w' = RefreshRun(t, "none")
    BY <1>1, <1>3, <1>4 DEF Follows
  <2>2. AllBut(w, t, {"stream", "action", "busy", "failed", "moved", "status"})
    BY <1>2 DEF AllBut
  <2> QED BY <1>3, <2>1, <2>2, RefreshStays
<1>5. CASE ~Follows(w)
  <2>1. w' = t
    BY <1>1, <1>5
  <2>2. AllBut(w, w', Inner)
    BY <1>2, <2>1 DEF AllBut, Inner
  <2> QED BY <1>3, <2>1, <2>2, StaysOutside DEF Sane
<1> QED BY <1>4, <1>5

LEMMA StreamDropsStays ==
  ASSUME Sane(w), StreamDrops
  PROVE  Stays
<1>1. w' = [w EXCEPT !.stream.open = FALSE]
  BY DEF StreamDrops
<1>2. Shaped(w') /\ AllBut(w, w', {"stream"}) /\ w'.stream.run = w.stream.run /\ w'.stream.open = FALSE
  BY <1>1 DEF Sane, Tab, Shaped, Fields, AllBut
<1>3. Tab(w') /\ w'.net = w.net /\ w'.dirty = w.dirty /\ AllBut(w, w', Inner)
  <2>1. w'.net = w.net /\ w'.dirty = w.dirty /\ AllBut(w, w', Inner)
    BY <1>2 DEF AllBut, Inner, Fields
  <2>2. w'.stream.run \in Run \cup {None} /\ w'.stream.open \in BOOLEAN
    BY <1>2 DEF Sane, Tab, Typed
  <2> QED BY <1>2, <2>1, <2>2, TabOf DEF Sane
<1> QED BY <1>3, StaysOutside DEF Sane

LEMMA SameStays ==
  ASSUME Sane(w), w' = w
  PROVE  Stays
BY DEF Stays, DraftLeftAsked

LEMMA RunEndsStays ==
  ASSUME Sane(w), NEW r \in Run, RunEnds(r)
  PROVE  Stays
<1>1. CASE w.stream.run = r /\ w.stream.open /\ Follows(w)
  <2>1. w' = RefreshRun(w, "none") /\ w.run # None /\ Tab(w)
    BY <1>1 DEF RunEnds, Follows, Sane
  <2>2. AllBut(w, w, {"stream", "action", "busy", "failed", "moved", "status"})
    BY DEF AllBut
  <2> QED BY <2>1, <2>2, RefreshStays
<1>2. CASE w' = w
  BY <1>2, SameStays
<1> QED BY <1>1, <1>2 DEF RunEnds

\* The server reads the run; the request comes back as it was.
LEMMA ServeFields ==
  ASSUME Sane(w), NEW q \in w.net, Serve(q)
  PROVE  /\ Tab(w') /\ AllBut(w, w', {"net"})
         /\ \E s \in Request : /\ w'.net = (w.net \ {q}) \cup {s} /\ q.kind = "run"
                               /\ s.kind = q.kind /\ s.case = q.case /\ s.run = q.run /\ s.fresh = q.fresh /\ s.last = q.last
                               /\ s.of = q.of /\ s.arg = q.arg /\ s.saw = (IF q.arg \in done THEN "ended" ELSE "live")
<1> DEFINE saw == IF q.arg \in done THEN "ended" ELSE "live"
           s == [q EXCEPT !.saw = saw]
<1>1. saw \in {"live", "ended"} /\ q \in Request /\ q.kind = "run"
  BY DEF Sane, Tab, Typed, Serve
<1>2. w' = [w EXCEPT !.net = (@ \ {q}) \cup {s}]
  BY DEF Serve
<1> HIDE DEF saw
<1>3. /\ s \in Request /\ s.kind = q.kind /\ s.case = q.case /\ s.run = q.run /\ s.fresh = q.fresh /\ s.last = q.last
      /\ s.of = q.of /\ s.arg = q.arg /\ s.saw = saw
  BY <1>1 DEF Request
<1> HIDE DEF s
<1>4. Shaped(w') /\ AllBut(w, w', {"net"}) /\ w'.net = (w.net \ {q}) \cup {s}
  BY <1>2 DEF Sane, Tab, Shaped, Fields, AllBut
<1>5. Tab(w')
  <2>1. w'.net \subseteq Request
    BY <1>3, <1>4 DEF Sane, Tab, Typed
  <2> QED BY <1>4, <2>1, TabOf DEF Sane
<1> QED BY <1>1, <1>3, <1>4, <1>5 DEF saw

LEMMA ServeStays ==
  ASSUME Sane(w), NEW q \in w.net, Serve(q)
  PROVE  Stays
<1>1. /\ Tab(w') /\ AllBut(w, w', {"net"})
      /\ \E s \in Request : /\ w'.net = (w.net \ {q}) \cup {s} /\ q.kind = "run"
                            /\ s.kind = q.kind /\ s.case = q.case /\ s.run = q.run /\ s.fresh = q.fresh /\ s.last = q.last
                            /\ s.of = q.of /\ s.arg = q.arg /\ s.saw = (IF q.arg \in done THEN "ended" ELSE "live")
  BY ServeFields
<1>2. PICK s : /\ w'.net = (w.net \ {q}) \cup {s} /\ q.kind = "run"
               /\ s.kind = q.kind /\ s.case = q.case /\ s.run = q.run /\ s.arg = q.arg
  BY <1>1
<1>3. Calls(w'.net)
  <2>1. CallOK(s)
    BY <1>2 DEF Calls, CallOK, Sane
  <2> QED BY <1>2, <2>1 DEF Calls, Sane
<1>4. Distinct(w'.net) /\ (Resumes(w.net) => Resumes(w'.net))
  <2>1. ~Starts(s) /\ s.kind # "cases" /\ s.kind # "resume"
    BY <1>2 DEF Starts
  <2> QED BY <1>2, <2>1 DEF Distinct, Resumes, Sane
<1>5. AllBut(w, w', Inner) /\ w'.dirty = w.dirty
  BY <1>1 DEF AllBut, Inner, Fields
<1> QED BY <1>1, <1>3, <1>4, <1>5, StaysOutside

LEMMA TicksAlong ==
  ASSUME NEW t, Ticks(t), NEW u, u.ran = t.ran, u.timer = t.timer, u.ran.route = RouteDeps(u)
  PROVE  Ticks(u)
BY DEF Ticks, RouteDeps, Known

LEMMA NavigateStays ==
  ASSUME Sane(w), NEW l \in Links, Navigate(l) \/ Back(l)
  PROVE  Stays
<1> DEFINE ask == [to |-> "link", case |-> l.case, run |-> l.run]
<1>1. l \in Link /\ ask \in Question
  BY WorkspaceAssumption DEF Link, Question
<1> HIDE DEF ask
<1>2. CASE w' = [w EXCEPT !.loc = l]
  <2>1. Shaped(w') /\ AllBut(w, w', {"loc"}) /\ w'.loc = l
    BY <1>2 DEF Sane, Tab, Shaped, Fields, AllBut
  <2>2. Tab(w') /\ w'.net = w.net /\ w'.dirty = w.dirty /\ AllBut(w, w', Inner)
    <3>1. w'.net = w.net /\ w'.dirty = w.dirty /\ AllBut(w, w', Inner)
      BY <2>1 DEF AllBut, Inner, Fields
    <3> QED BY <1>1, <2>1, <3>1, TabOf DEF Sane
  <2> QED BY <2>2, StaysOutside DEF Sane
<1>3. CASE w' = [w EXCEPT !.ask = ask]
  <2>1. Shaped(w') /\ AllBut(w, w', {"ask"}) /\ w'.ask = ask
    BY <1>3 DEF Sane, Tab, Shaped, Fields, AllBut
  <2>2. Tab(w') /\ w'.net = w.net /\ w'.dirty = w.dirty /\ AllBut(w, w', Inner)
    <3>1. w'.net = w.net /\ w'.dirty = w.dirty /\ AllBut(w, w', Inner)
      BY <2>1 DEF AllBut, Inner, Fields
    <3> QED BY <1>1, <2>1, <3>1, TabOf DEF Sane
  <2> QED BY <2>2, StaysOutside DEF Sane
<1> QED BY <1>2, <1>3 DEF Navigate, Back, ask

\* A case chosen, by the picker or by an answered question: the tab before its effects run.
Committed(t, c, u) ==
  /\ AllBut(t, u, Cleared \cup {"ask"}) /\ u.case = c
  /\ u.run = (IF c \in Known(t) /\ t.reg[c] # None THEN t.reg[c] ELSE IF t.case = c THEN t.run ELSE None)
  /\ u.drawer = None /\ u.dialog = None /\ u.view = None /\ u.shown = None /\ ~u.failed /\ u.intake = None /\ u.lost = None /\ ~u.dirty
  /\ Aged(t.net, u.net) /\ (Distinct(t.net) => Distinct(u.net))
  /\ t.case # c => \A p \in u.net : ~p.fresh

LEMMA CommittedFields ==
  ASSUME NEW t, Tab(t), NEW s, Tab(s), AllBut(t, s, {"ask"}), NEW c \in Selectable, NEW u, u = CommitCaseSelection(s, c, s.reg)
  PROVE  Tab(u) /\ Committed(t, c, u) /\ u.ask = s.ask
<1>1. s.case = t.case /\ s.run = t.run /\ s.net = t.net /\ s.reg = t.reg
  BY DEF AllBut, Fields
<1>2. c \in DOMAIN s.reg => s.reg[c] \in Run \cup {None}
  BY DEF Tab, Typed, Known
<1>3. Tab(u) /\ AllBut(s, u, Cleared) /\ u.case = c /\ u.run = OpenedOn(s, c, s.reg)
  BY <1>2, CommitFields
<1>4. u.drawer = None /\ u.dialog = None /\ u.view = None /\ u.shown = None /\ ~u.failed /\ u.intake = None /\ u.lost = None /\ ~u.dirty
  BY <1>2, CommitFields
<1>5. /\ Aged(s.net, u.net) /\ (Distinct(s.net) => Distinct(u.net))
      /\ s.case # c => \A p \in u.net : ~p.fresh
  BY <1>2, CommitFields
<1>6. AllBut(t, u, Cleared \cup {"ask"}) /\ u.ask = s.ask
  BY <1>3 DEF AllBut, Cleared, Fields
<1>7. u.run = (IF c \in Known(t) /\ t.reg[c] # None THEN t.reg[c] ELSE IF t.case = c THEN t.run ELSE None)
  BY <1>1, <1>3 DEF OpenedOn, Known
<1> QED BY <1>1, <1>3, <1>4, <1>5, <1>6, <1>7 DEF Committed

\* The effects of a committed selection keep the tab sane and fitting.
LEMMA CommittedStays ==
  ASSUME Sane(w), NEW c, NEW u, Tab(u), Committed(w, c, u), w' = Flushed(u),
         ~w.dirty \/ (w.ask # None /\ u.ask = None)
  PROVE  Stays
<1>1. /\ Tab(w') /\ AllBut(u, w', Flushes)
      /\ Calls(u.net) => Calls(w'.net)
      /\ Distinct(u.net) => Distinct(w'.net)
      /\ Resumes(u.net) => Resumes(w'.net)
      /\ Belongs(u) => Belongs(w')
      /\ (u.ran.route = RouteDeps(u) => Ticks(u)) => Ticks(w')
  BY FlushKeeps
<1>2. Aged(w.net, u.net) /\ (Distinct(w.net) => Distinct(u.net)) /\ u.ran = w.ran /\ u.timer = w.timer
  BY DEF Committed, AllBut, Cleared, Fields
<1>3. /\ Calls(w.net) => Calls(u.net)
      /\ Resumes(w.net) => Resumes(u.net)
  BY <1>2, AgedCalls
<1>4. Sane(w')
  BY <1>1, <1>2, <1>3 DEF Sane
<1>5. Belongs(u)
  BY DEF Committed, Belongs
<1>6. Ticks(w) => (u.ran.route = RouteDeps(u) => Ticks(u))
  BY <1>2, TicksAlong
<1>7. DraftLeftAsked
  <2>1. w'.ask = u.ask
    BY <1>1 DEF AllBut, Flushes, Fields
  <2> QED BY <2>1 DEF DraftLeftAsked
<1> QED BY <1>1, <1>3, <1>4, <1>5, <1>6, <1>7 DEF Stays, Fitting

LEMMA PickCaseFields ==
  ASSUME Sane(w), NEW c \in Case, PickCase(c)
  PROVE  \E u : /\ Tab(u) /\ w' = Flushed(u) /\ c \in Known(w) /\ c # w.case /\ w.ask = None
                /\ \/ w.dirty /\ AllBut(w, u, {"ask"}) /\ u.ask = [to |-> "case", case |-> c, run |-> None]
                   \/ ~w.dirty /\ Committed(w, c, u) /\ u.ask = None
<1> DEFINE u == SelectCase(w, c, w.reg)
           ask == [to |-> "case", case |-> c, run |-> None]
<1>1. w' = Flushed(u) /\ c \in Known(w) /\ c # w.case /\ w.ask = None /\ Tab(w) /\ c \in Selectable
  BY DEF PickCase, Modal, Sane, Selectable
<1>2. c \in DOMAIN w.reg => w.reg[c] \in Run \cup {None}
  BY <1>1 DEF Tab, Typed, Known
<1> HIDE DEF u, ask
<1>3. CASE w.dirty
  <2>1. u = [w EXCEPT !.ask = ask]
    BY <1>1, <1>3 DEF u, ask, SelectCase, Blocked
  <2>2. Shaped(u) /\ AllBut(w, u, {"ask"}) /\ u.ask = ask
    BY <1>1, <2>1 DEF Tab, Shaped, Fields, AllBut
  <2>3. ask \in Question
    BY <1>1 DEF ask, Question
  <2>4. Tab(u)
    BY <1>1, <2>2, <2>3, TabOf
  <2> QED BY <1>1, <1>3, <2>2, <2>4 DEF ask
<1>4. CASE ~w.dirty
  <2>1. u = CommitCaseSelection(w, c, w.reg)
    BY <1>1, <1>4 DEF u, SelectCase, Blocked
  <2>2. AllBut(w, w, {"ask"})
    BY DEF AllBut
  <2>3. Tab(u) /\ Committed(w, c, u) /\ u.ask = w.ask
    BY <1>1, <2>1, <2>2, CommittedFields
  <2> QED BY <1>1, <1>4, <2>3
<1> QED BY <1>3, <1>4

LEMMA PickCaseStays ==
  ASSUME Sane(w), NEW c \in Case, PickCase(c)
  PROVE  Stays
<1>1. PICK u : /\ Tab(u) /\ w' = Flushed(u)
               /\ \/ w.dirty /\ AllBut(w, u, {"ask"})
                  \/ ~w.dirty /\ Committed(w, c, u)
  BY PickCaseFields
<1>2. CASE ~w.dirty /\ Committed(w, c, u)
  BY <1>1, <1>2, CommittedStays
<1>3. CASE w.dirty /\ AllBut(w, u, {"ask"})
  <2>1. /\ Tab(w') /\ AllBut(u, w', Flushes)
        /\ Calls(u.net) => Calls(w'.net)
        /\ Distinct(u.net) => Distinct(w'.net)
        /\ Resumes(u.net) => Resumes(w'.net)
        /\ Belongs(u) => Belongs(w')
        /\ (u.ran.route = RouteDeps(u) => Ticks(u)) => Ticks(w')
    BY <1>1, FlushKeeps
  <2>2. /\ u.net = w.net /\ u.ran = w.ran /\ u.timer = w.timer /\ u.case = w.case /\ u.run = w.run /\ u.view = w.view
        /\ u.drawer = w.drawer /\ u.intake = w.intake /\ u.shown = w.shown /\ u.dirty = w.dirty
    BY <1>3 DEF AllBut, Fields
  <2>3. w'.dirty = w.dirty
    BY <2>1, <2>2 DEF AllBut, Flushes, Fields
  <2>4. Ticks(w) => (u.ran.route = RouteDeps(u) => Ticks(u))
    BY <2>2, TicksAlong
  <2>5. Belongs(w) => Belongs(u)
    BY <2>2 DEF Belongs
  <2> QED BY <2>1, <2>2, <2>3, <2>4, <2>5 DEF Stays, Sane, Fitting, DraftLeftAsked
<1> QED BY <1>1, <1>2, <1>3

\* The analyst's answer to the question about the draft.
DiscardKept(t, u)   == AllBut(t, u, {"ask"}) /\ u.ask = None
DiscardLinked(t, u) ==
  /\ t.ask.to = "link" /\ t.asked = t.loc /\ t.timer = None
  /\ AllBut(t, u, {"ask", "loc", "dirty"}) /\ u.ask = None /\ ~u.dirty /\ u.loc = [case |-> t.ask.case, run |-> t.ask.run]
DiscardOpened(t, u, f) == t.ask.to = "case" /\ Tab(u) /\ Committed(t, t.ask.case, u) /\ u.ask = None /\ f = Flushed(u)
LEMMA AnswerDiscardFields ==
  ASSUME Sane(w), NEW yes, AnswerDiscard(yes)
  PROVE  \/ ~yes /\ Tab(w') /\ DiscardKept(w, w')
         \/ yes /\ Tab(w') /\ DiscardLinked(w, w')
         \/ yes /\ \E u : DiscardOpened(w, u, w')
<1> DEFINE t == [w EXCEPT !.ask = None]
           to == [case |-> w.ask.case, run |-> w.ask.run]
<1>1. /\ w' = IF ~yes THEN t
              ELSE IF w.ask.to = "case" THEN Flushed(CommitCaseSelection(t, w.ask.case, t.reg))
              ELSE [t EXCEPT !.loc = to, !.dirty = FALSE]
      /\ w.ask \in Question
      /\ yes /\ w.ask.to = "link" => w.asked = w.loc /\ w.timer = None
  BY DEF AnswerDiscard, LinkFollowed, Sane, Tab, Typed
<1>2. w.ask.case \in Selectable /\ w.ask.to \in {"case", "link"} /\ to \in Link
  BY <1>1 DEF Question, Link
<1>3. Shaped(t) /\ AllBut(w, t, {"ask"}) /\ t.ask = None
  BY DEF Sane, Tab, Shaped, Fields, AllBut
<1> HIDE DEF t, to
<1>4. Tab(t)
  BY <1>3, TabOf DEF Sane
<1>5. CASE ~yes
  <2>1. w' = t
    BY <1>1, <1>5
  <2> QED BY <1>3, <1>4, <1>5, <2>1 DEF DiscardKept
<1>6. CASE yes /\ w.ask.to = "case"
  <2> DEFINE u == CommitCaseSelection(t, w.ask.case, t.reg)
  <2>1. w' = Flushed(u)
    BY <1>1, <1>6
  <2> HIDE DEF u
  <2>2. Tab(u) /\ Committed(w, w.ask.case, u) /\ u.ask = t.ask
    <3>1. u = CommitCaseSelection(t, w.ask.case, t.reg)
      BY DEF u
    <3> QED BY <1>2, <1>3, <1>4, <3>1, CommittedFields DEF Sane
  <2>3. DiscardOpened(w, u, w')
    BY <1>3, <1>6, <2>1, <2>2 DEF DiscardOpened
  <2> QED BY <1>6, <2>3
<1>7. CASE yes /\ w.ask.to = "link"
  <2>1. w' = [t EXCEPT !.loc = to, !.dirty = FALSE]
    BY <1>1, <1>7
  <2>2. Shaped(w') /\ AllBut(t, w', {"loc", "dirty"}) /\ w'.loc = to /\ w'.dirty = FALSE
    BY <1>3, <2>1 DEF Shaped, Fields, AllBut
  <2>3. Tab(w')
    BY <1>2, <1>4, <2>2, TabOf
  <2>4. AllBut(w, w', {"ask", "loc", "dirty"}) /\ w'.ask = None
    BY <1>3, <2>2 DEF AllBut, Fields
  <2> QED BY <1>1, <1>7, <2>2, <2>3, <2>4 DEF DiscardLinked, to
<1> QED BY <1>1, <1>2, <1>5, <1>6, <1>7

LEMMA AnswerDiscardStays ==
  ASSUME Sane(w), NEW yes, AnswerDiscard(yes)
  PROVE  Stays
<1>1. w.ask # None
  BY DEF AnswerDiscard
<1>2. CASE yes /\ \E u : DiscardOpened(w, u, w')
  <2>1. PICK u : DiscardOpened(w, u, w')
    BY <1>2
  <2> QED BY <1>1, <2>1, CommittedStays DEF DiscardOpened
<1>3. CASE Tab(w') /\ (DiscardKept(w, w') \/ DiscardLinked(w, w'))
  <2>1. /\ w'.case = w.case /\ w'.run = w.run /\ w'.view = w.view /\ w'.drawer = w.drawer /\ w'.intake = w.intake
        /\ w'.shown = w.shown /\ w'.timer = w.timer /\ w'.ran = w.ran /\ w'.reg = w.reg /\ w'.loading = w.loading /\ w'.net = w.net
        /\ w'.ask = None
    BY <1>3 DEF DiscardKept, DiscardLinked, AllBut, Fields
  <2>2. Fitting(w) => Fitting(w')
    BY <2>1, FittingKept DEF Fitting
  <2> QED BY <1>1, <1>3, <2>1, <2>2 DEF Stays, Sane, DraftLeftAsked
<1> QED BY <1>2, <1>3, AnswerDiscardFields

LEMMA EditDraftStays ==
  ASSUME Sane(w), EditDraft
  PROVE  Stays
<1>1. w' = [w EXCEPT !.dirty = TRUE]
  BY DEF EditDraft
<1>2. Shaped(w') /\ AllBut(w, w', {"dirty"}) /\ w'.dirty = TRUE
  BY <1>1 DEF Sane, Tab, Shaped, Fields, AllBut
<1>3. Tab(w') /\ w'.net = w.net /\ AllBut(w, w', Inner)
  <2>1. w'.net = w.net /\ AllBut(w, w', Inner)
    BY <1>2 DEF AllBut, Inner, Fields
  <2> QED BY <1>2, <2>1, TabOf DEF Sane
<1> QED BY <1>2, <1>3, StaysOutside DEF Sane

LEMMA OpenAcceptStays ==
  ASSUME Sane(w), OpenAccept
  PROVE  Stays
<1>1. w' = [w EXCEPT !.dialog = w.run] /\ w.run \in Run \cup {None}
  BY DEF OpenAccept, Sane, Tab, Typed
<1>2. Shaped(w') /\ AllBut(w, w', {"dialog"}) /\ w'.dialog = w.run
  BY <1>1 DEF Sane, Tab, Shaped, Fields, AllBut
<1>3. Tab(w') /\ w'.net = w.net /\ AllBut(w, w', Inner) /\ w'.dirty = w.dirty
  <2>1. w'.net = w.net /\ AllBut(w, w', Inner) /\ w'.dirty = w.dirty
    BY <1>2 DEF AllBut, Inner, Fields
  <2> QED BY <1>1, <1>2, <2>1, TabOf DEF Sane
<1> QED BY <1>3, StaysOutside DEF Sane

\* A request sent by a gesture, after the earlier ones of its kind were overtaken.
SentBy(t, u, kind, of, arg) ==
  /\ Tab(u) /\ AllBut(t, u, {"net", "action", "dialog"})
  /\ AgedWith(t.net, u.net, Call(t, kind, of, arg)) /\ (Due(t) => Due(u))
LEMMA DueAlong ==
  ASSUME NEW t, NEW u, AllBut(t, u, {"action", "dialog"}), Due(t)
  PROVE  Due(u)
BY DEF Due, Matches, AllBut, Fields
LEMMA SendFields ==
  ASSUME NEW t, Tab(t), NEW kind \in Kinds, NEW of \in Kinds \cup {"none"}, NEW arg \in Run \cup {None},
         NEW s, Tab(s), AllBut(t, s, {"net", "action", "dialog"}), Aged(t.net, s.net), Distinct(t.net) => Distinct(s.net), Due(t) => Due(s),
         NEW u, u = Sent(s, kind, of, arg),
         kind # "cases", kind \in {"start", "intake"} => \A q \in t.net : Starts(q) => q.arg # arg
  PROVE  SentBy(t, u, kind, of, arg) /\ (Distinct(t.net) => Distinct(u.net))
<1>1. Call(s, kind, of, arg) = Call(t, kind, of, arg)
  BY DEF Call, AllBut, Fields
<1>2. Tab(u) /\ AllBut(s, u, {"net"}) /\ u.net = s.net \cup {Call(s, kind, of, arg)}
  BY SentFields
<1>3. AgedWith(s.net, u.net, Call(s, kind, of, arg))
  BY SentFields
<1>4. AllBut(t, u, {"net", "action", "dialog"})
  BY <1>2 DEF AllBut
<1>5. AgedWith(t.net, u.net, Call(t, kind, of, arg))
  BY <1>1, <1>3, AgedWithTrans
<1>6. Distinct(t.net) => Distinct(u.net)
  <2> DEFINE call == Call(t, kind, of, arg)
  <2>1. call.kind = kind /\ call.arg = arg
    BY DEF Call
  <2> HIDE DEF call
  <2>2. \A q \in s.net : Starts(q) /\ kind \in {"start", "intake"} => q.arg # arg
    <3>1. \A p \in s.net : \E q \in t.net : Later(q, p)
      BY DEF Aged
    <3> QED BY <3>1 DEF Starts, Later
  <2>3. u.net = s.net \cup {call}
    BY <1>1, <1>2 DEF call
  <2>4. ASSUME Distinct(s.net) PROVE Distinct(u.net)
    <3> SUFFICES ASSUME NEW p \in u.net, NEW q \in u.net, (p.kind = "cases" /\ q.kind = "cases") \/ (Starts(p) /\ Starts(q) /\ p.arg = q.arg)
                 PROVE  p = q
      BY DEF Distinct
    <3>1. CASE p \in s.net /\ q \in s.net
      BY <2>4, <3>1 DEF Distinct
    <3>2. CASE p = call \/ q = call
      BY <2>1, <2>2, <2>3, <3>2 DEF Starts
    <3> QED BY <2>3, <3>1, <3>2
  <2> QED BY <2>4
<1>7. Due(s) => Due(u)
  BY SentFields
<1> QED BY <1>2, <1>4, <1>5, <1>6, <1>7 DEF SentBy

LEMMA SendStays ==
  ASSUME Sane(w), NEW kind, NEW of, NEW arg, SentBy(w, w', kind, of, arg), Distinct(w'.net), CallOK(Call(w, kind, of, arg)),
         kind # "resume" \/ (~RouteRaces /\ Fitting(w) => CaseOf[w.run] = w.case)
  PROVE  Stays
<1>1. Tab(w') /\ AllBut(w, w', {"net", "action", "dialog"}) /\ AgedWith(w.net, w'.net, Call(w, kind, of, arg))
  BY DEF SentBy
<1>2. Calls(w'.net)
  BY <1>1, AgedWithCalls DEF Sane
<1>3. /\ w'.case = w.case /\ w'.run = w.run /\ w'.view = w.view /\ w'.drawer = w.drawer /\ w'.intake = w.intake
      /\ w'.shown = w.shown /\ w'.timer = w.timer /\ w'.ran = w.ran /\ w'.reg = w.reg /\ w'.loading = w.loading /\ w'.dirty = w.dirty
  BY <1>1 DEF AllBut, Fields
<1>4. ASSUME Fitting(w), ~RouteRaces PROVE Resumes(w'.net)
  <2>1. Call(w, kind, of, arg).kind = kind /\ Call(w, kind, of, arg).run = w.run /\ Call(w, kind, of, arg).case = w.case
    BY DEF Call
  <2> QED BY <1>1, <1>4, <2>1 DEF Fitting, Resumes, AgedWith, Later
<1>5. Fitting(w) /\ ~RouteRaces => Fitting(w')
  BY <1>3, <1>4, FittingKept
<1> QED BY <1>1, <1>2, <1>3, <1>5 DEF Stays, Sane, DraftLeftAsked

LEMMA OpenEvidenceFields ==
  ASSUME Sane(w), OpenEvidence
  PROVE  /\ SentBy(w, w', "evidence", "none", None) /\ Distinct(w'.net)
         /\ CallOK(Call(w, "evidence", "none", None))
<1> DEFINE s == Bump(w, "evidence")
<1>1. w' = Sent(s, "evidence", "none", None) /\ w.case \in Case /\ Tab(w)
  BY DEF OpenEvidence, Sane, Authorized, Tab, Typed
<1>2. Tab(s) /\ AllBut(w, s, {"net"}) /\ Aged(w.net, s.net) /\ (Distinct(w.net) => Distinct(s.net)) /\ (Due(w) => Due(s))
  BY <1>1, BumpFields
<1> HIDE DEF s
<1>3. AllBut(w, s, {"net", "action", "dialog"})
  BY <1>2 DEF AllBut
<1>4. SentBy(w, w', "evidence", "none", None) /\ (Distinct(w.net) => Distinct(w'.net))
  <2>1. "evidence" \in Kinds /\ "none" \in Kinds \cup {"none"} /\ "evidence" # "cases" /\ "evidence" \notin {"start", "intake"}
    BY DEF Kinds
  <2> QED BY <1>1, <1>2, <1>3, <2>1, SendFields
<1>5. CallOK(Call(w, "evidence", "none", None))
  BY <1>1 DEF CallOK, Call
<1> QED BY <1>4, <1>5 DEF Sane

LEMMA OpenEvidenceStays ==
  ASSUME Sane(w), OpenEvidence
  PROVE  Stays
BY OpenEvidenceFields, SendStays

LEMMA PostFields ==
  ASSUME Sane(w), NEW kind \in Writes, NEW r \in Run, Post(kind, r)
  PROVE  /\ SentBy(w, w', kind, kind, r) /\ Distinct(w'.net) /\ CallOK(Call(w, kind, kind, r))
         /\ kind \in Kinds \ {"accept", "evidence", "cases", "case", "run"}
         /\ kind = "resume" /\ Fitting(w) => CaseOf[w.run] = w.case
<1> DEFINE b == Bump(w, kind)
           s == [b EXCEPT !.action = kind]
<1>1. /\ w' = Sent(s, kind, kind, r) /\ Tab(w)
      /\ kind \in Kinds \ {"accept", "evidence", "cases", "case", "run"}
      /\ kind \in {"upload", "start"} => w.case \in Case
      /\ kind = "resume" => w.shown # None /\ w.shown.id = w.run
      /\ IF kind = "intake" THEN \E c \in Case : r = Fresh[c] ELSE w.case \in Case /\ r = Fresh[w.case]
      /\ kind \in {"start", "intake"} => \A q \in w.net : Starts(q) => q.arg # r
  BY WorkspaceAssumption DEF Post, Sane, Authorized, Tab, Typed, Starts
<1>2. Tab(b) /\ AllBut(w, b, {"net"}) /\ Aged(w.net, b.net) /\ (Distinct(w.net) => Distinct(b.net)) /\ (Due(w) => Due(b))
  BY <1>1, BumpFields
<1> HIDE DEF b
<1>3. Shaped(s) /\ AllBut(b, s, {"action"}) /\ s.action = kind
  BY <1>2 DEF Tab, Shaped, Fields, AllBut
<1> HIDE DEF s
<1>4. Tab(s) /\ s.net = b.net
  <2>1. s.net = b.net
    BY <1>3 DEF AllBut, Fields
  <2> QED BY <1>1, <1>2, <1>3, <2>1, TabOf
<1>5. AllBut(w, s, {"net", "action", "dialog"}) /\ (Due(w) => Due(s))
  <2>1. AllBut(b, s, {"action", "dialog"})
    BY <1>3 DEF AllBut
  <2> QED BY <1>2, <1>3, <2>1, DueAlong DEF AllBut
<1>6. SentBy(w, w', kind, kind, r) /\ (Distinct(w.net) => Distinct(w'.net))
  BY <1>1, <1>2, <1>4, <1>5, SendFields
<1>7. CallOK(Call(w, kind, kind, r))
  <2>1. w.shown # None => w.shown.id \in Run
    BY <1>1 DEF Tab, Typed, Shown
  <2> QED BY <1>1, <2>1 DEF CallOK, Call
<1>8. kind = "resume" /\ Fitting(w) => CaseOf[w.run] = w.case
  BY <1>1 DEF Fitting, Belongs
<1> QED BY <1>1, <1>6, <1>7, <1>8 DEF Sane

LEMMA PostStays ==
  ASSUME Sane(w), NEW kind \in Writes, NEW r \in Run, Post(kind, r)
  PROVE  Stays
BY PostFields, SendStays

LEMMA ConfirmAcceptFields ==
  ASSUME Sane(w), ConfirmAccept
  PROVE  \/ /\ Tab(w') /\ AllBut(w, w', {"dialog", "failed"}) /\ w'.failed
         \/ /\ SentBy(w, w', "accept", "accept", w.run) /\ Distinct(w'.net)
            /\ CallOK(Call(w, "accept", "accept", w.run))
<1> DEFINE t == [w EXCEPT !.dialog = None]
           b == Bump(t, "accept")
           s == [b EXCEPT !.action = "accept"]
           bound == w.shown # None /\ w.run # None /\ w.shown.id = w.run /\ CaseOf[w.run] = w.case
<1>1. w' = (IF bound THEN Sent(s, "accept", "accept", w.run) ELSE [t EXCEPT !.failed = TRUE]) /\ Tab(w)
  BY DEF ConfirmAccept, Sane
<1>2. Shaped(t) /\ AllBut(w, t, {"dialog"}) /\ t.dialog = None
  BY <1>1 DEF Tab, Shaped, Fields, AllBut
<1> HIDE DEF t
<1>3. Tab(t) /\ t.net = w.net /\ t.dirty = w.dirty
  <2>1. t.net = w.net /\ t.dirty = w.dirty
    BY <1>2 DEF AllBut, Fields
  <2> QED BY <1>1, <1>2, <2>1, TabOf
<1>4. CASE ~bound
  <2>1. w' = [t EXCEPT !.failed = TRUE]
    BY <1>1, <1>4
  <2>2. Shaped(w') /\ AllBut(t, w', {"failed"}) /\ w'.failed = TRUE
    BY <1>3, <2>1 DEF Tab, Shaped, Fields, AllBut
  <2>3. AllBut(w, w', {"dialog", "failed"})
    BY <1>2, <2>2 DEF AllBut
  <2>4. Tab(w')
    BY <1>3, <2>2, TabOf
  <2> QED BY <2>2, <2>3, <2>4
<1>5. CASE bound
  <2>1. w' = Sent(s, "accept", "accept", w.run) /\ w.case \in Case /\ w.run \in Run
    BY <1>1, <1>5, WorkspaceAssumption DEF Tab, Typed
  <2>2. Tab(b) /\ AllBut(t, b, {"net"}) /\ Aged(t.net, b.net) /\ (Distinct(t.net) => Distinct(b.net)) /\ (Due(t) => Due(b))
    BY <1>3, BumpFields
  <2> HIDE DEF b
  <2>3. Shaped(s) /\ AllBut(b, s, {"action"}) /\ s.action = "accept"
    BY <2>2 DEF Tab, Shaped, Fields, AllBut
  <2> HIDE DEF s
  <2>4. Tab(s) /\ s.net = b.net
    <3>1. s.net = b.net /\ "accept" \in Kinds
      BY <2>3 DEF AllBut, Fields, Kinds
    <3> QED BY <2>2, <2>3, <3>1, TabOf
  <2>5. AllBut(w, s, {"net", "action", "dialog"}) /\ (Due(w) => Due(s))
    <3>1. AllBut(w, t, {"action", "dialog"}) /\ AllBut(b, s, {"action", "dialog"})
      BY <1>2, <2>3 DEF AllBut
    <3>2. AllBut(w, s, {"net", "action", "dialog"})
      BY <1>2, <2>2, <2>3 DEF AllBut
    <3> QED BY <2>2, <3>1, <3>2, DueAlong
  <2>6. SentBy(w, w', "accept", "accept", w.run) /\ (Distinct(w.net) => Distinct(w'.net))
    <3>1. "accept" \in Kinds /\ "accept" # "cases" /\ "accept" \notin {"start", "intake"} /\ w.run \in Run \cup {None}
      BY <2>1 DEF Kinds
    <3>2. Aged(w.net, s.net) /\ (Distinct(w.net) => Distinct(s.net))
      BY <1>3, <2>2, <2>4
    <3> QED BY <1>1, <2>1, <2>4, <2>5, <3>1, <3>2, SendFields
  <2>7. CallOK(Call(w, "accept", "accept", w.run))
    BY <2>1 DEF CallOK, Call
  <2> QED BY <2>6, <2>7 DEF Sane
<1> QED BY <1>4, <1>5

LEMMA ConfirmAcceptStays ==
  ASSUME Sane(w), ConfirmAccept
  PROVE  Stays
<1>1. CASE /\ SentBy(w, w', "accept", "accept", w.run) /\ Distinct(w'.net)
           /\ CallOK(Call(w, "accept", "accept", w.run))
  BY <1>1, SendStays
<1>2. CASE Tab(w') /\ AllBut(w, w', {"dialog", "failed"})
  <2>1. w'.net = w.net /\ w'.dirty = w.dirty /\ AllBut(w, w', Inner)
    BY <1>2 DEF AllBut, Inner, Fields
  <2> QED BY <1>2, <2>1, StaysOutside DEF Sane
<1> QED BY <1>1, <1>2, ConfirmAcceptFields
-----------------------------------------------------------------------------
\* An answer is taken: the tab, without its request.
Taken(t, q) == /\ Tab(t) /\ AllBut(w, t, {"net"}) /\ t.net = w.net \ {q}
LEMMA TakenFields ==
  ASSUME Sane(w), NEW q \in w.net, NEW t, t = [w EXCEPT !.net = @ \ {q}]
  PROVE  /\ Taken(t, q) /\ Sane(t) /\ (Fitting(w) => Fitting(t)) /\ Aged(w.net, t.net)
         /\ CallOK(q) /\ q \in Request /\ (Fitting(w) => (q.kind = "resume" => CaseOf[q.run] = q.case))
<1>1. Shaped(t) /\ AllBut(w, t, {"net"}) /\ t.net = w.net \ {q}
  BY DEF Sane, Tab, Shaped, Fields, AllBut
<1>2. Tab(t)
  <2>1. t.net \subseteq Request
    BY <1>1 DEF Sane, Tab, Typed
  <2> QED BY <1>1, <2>1, TabOf DEF Sane
<1>3. Aged(w.net, t.net)
  BY <1>1 DEF Aged, Later
<1>4. Sane(t)
  BY <1>1, <1>2 DEF Sane, Calls, Distinct
<1>5. /\ t.case = w.case /\ t.run = w.run /\ t.view = w.view /\ t.drawer = w.drawer /\ t.intake = w.intake
      /\ t.shown = w.shown /\ t.timer = w.timer /\ t.ran = w.ran /\ t.reg = w.reg /\ t.loading = w.loading
  BY <1>1 DEF AllBut, Fields
<1>6. Resumes(w.net) => Resumes(t.net)
  BY <1>3, AgedCalls
<1>7. Fitting(w) => Fitting(t)
  BY <1>5, <1>6, FittingKept DEF Fitting
<1>8. CallOK(q) /\ q \in Request /\ (Fitting(w) => (q.kind = "resume" => CaseOf[q.run] = q.case))
  BY DEF Sane, Calls, Tab, Typed, Fitting, Resumes
<1> QED BY <1>1, <1>2, <1>3, <1>4, <1>7, <1>8 DEF Taken

\* What an answer must keep, from the tab without its request.
StaysFrom(t, q, u) ==
  /\ Sane(u) /\ u.timer = t.timer
  /\ ~RouteRaces /\ Fitting(t) /\ (q.kind = "resume" => CaseOf[q.run] = q.case) =>
       Belongs(u) /\ Resumes(u.net) /\ (t.dirty /\ ~u.dirty => u.intake # t.intake)
LEMMA CasesAnsweredStays ==
  ASSUME NEW t, Sane(t), ServerTyped, NEW q, NEW ok \in BOOLEAN, NEW u, u = CasesAnswered(t, q, ok)
  PROVE  StaysFrom(t, q, u)
<1>0. Tab(t)
  BY DEF Sane
<1>1. CASE ~(Matches(t, q) /\ q.last)
  <2>1. u = t
    BY <1>1 DEF CasesAnswered
  <2> QED BY <2>1 DEF StaysFrom, Fitting
<1>2. CASE Matches(t, q) /\ q.last /\ ~ok
  <2>1. u = [t EXCEPT !.loading = FALSE]
    BY <1>2 DEF CasesAnswered
  <2>2. Shaped(u) /\ AllBut(t, u, {"loading"}) /\ u.loading = FALSE
    BY <1>0, <2>1 DEF Tab, Shaped, Fields, AllBut
  <2>3. Tab(u)
    BY <1>0, <2>2, TabOf
  <2>4. /\ u.case = t.case /\ u.timer = t.timer /\ u.run = t.run /\ u.view = t.view /\ u.drawer = t.drawer /\ u.intake = t.intake
        /\ u.shown = t.shown /\ u.dirty = t.dirty /\ u.net = t.net
    BY <2>2 DEF AllBut, Fields
  <2> QED BY <2>3, <2>4 DEF StaysFrom, Sane, Fitting, Belongs
<1>3. CASE Matches(t, q) /\ q.last /\ ok
  <2>1. RegisterRead(t, u)
    <3>1. u = CasesAnswered(t, q, TRUE)
      BY <1>3
    <3> QED BY <1>0, <1>3, <3>1, RegisterReadFields DEF ServerTyped
  <2>2. Sane(u) /\ (Resumes(t.net) => Resumes(u.net))
    BY <2>1, AgedCalls DEF RegisterRead, Sane
  <2>3. CASE RegisterAsked(t, u)
    <3>1. /\ u.case = t.case /\ u.timer = t.timer /\ u.run = t.run /\ u.view = t.view /\ u.drawer = t.drawer /\ u.intake = t.intake
          /\ u.shown = t.shown /\ u.dirty = t.dirty
      BY <2>3 DEF RegisterAsked, AllBut, Fields
    <3> QED BY <2>2, <3>1 DEF StaysFrom, Fitting, Belongs
  <2>4. CASE RegisterKept(t, u)
    <3>1. /\ u.case = t.case /\ u.timer = t.timer /\ u.view = t.view /\ u.drawer = t.drawer /\ u.intake = t.intake
          /\ u.shown = t.shown /\ u.dirty = t.dirty
      BY <2>4 DEF RegisterKept, AllBut, Fields
    <3>2. u.run = t.run \/ t.run = None
      BY <2>4 DEF RegisterKept
    <3>3. t.shown # None => t.shown.id # None
      BY <1>0, WorkspaceAssumption DEF Tab, Typed, Shown
    <3> QED BY <2>2, <3>1, <3>2, <3>3 DEF StaysFrom, Fitting, Belongs
  <2>5. CASE RegisterOpened(t, u)
    <3>1. u.timer = t.timer
      BY <2>5 DEF RegisterOpened, AllBut, Cleared, Fields
    <3> QED BY <2>2, <2>5, <3>1 DEF StaysFrom, Fitting, Belongs, RegisterOpened
  <2> QED BY <2>1, <2>3, <2>4, <2>5 DEF RegisterRead
<1> QED BY <1>1, <1>2, <1>3

LEMMA CaseAnsweredStays ==
  ASSUME NEW t, Sane(t), ServerTyped, NEW q, q.case \in Case, NEW ok, NEW u, u = CaseAnswered(t, q, ok)
  PROVE  StaysFrom(t, q, u)
<1>0. Tab(t)
  BY DEF Sane
<1>1. /\ Tab(u) /\ AllBut(t, u, {"view", "reg", "status", "action", "net", "busy", "failed"})
      /\ u.view = t.view \/ (q.case = t.case /\ u.view = t.case)
      /\ Known(u) = Known(t) /\ \A c \in Known(t) : u.reg[c] \in {t.reg[c], head[c]}
      /\ Distinct(t.net) => Distinct(u.net)
      /\ \/ u.net = t.net /\ u.failed = t.failed
         \/ t.run # None /\ ~u.failed /\ Asked(u) /\ \E of : AgedWith(t.net, u.net, Call(t, "run", of, t.run))
  BY <1>0, CaseAnsweredFields DEF ServerTyped
<1>2. (Calls(t.net) => Calls(u.net)) /\ (Resumes(t.net) => Resumes(u.net))
  BY <1>0, <1>1, RunCalls
<1>3. /\ u.case = t.case /\ u.timer = t.timer /\ u.run = t.run /\ u.drawer = t.drawer /\ u.intake = t.intake
      /\ u.shown = t.shown /\ u.dirty = t.dirty
  BY <1>1 DEF AllBut, Fields
<1> QED BY <1>1, <1>2, <1>3 DEF StaysFrom, Sane, Fitting, Belongs

LEMMA RunAnsweredStays ==
  ASSUME NEW t, Sane(t), NEW q, q \in Request, q.kind = "run", CallOK(q), q.saw # "unread", NEW ok, NEW u, u = RunAnswered(t, q, ok)
  PROVE  StaysFrom(t, q, u)
<1>0. Tab(t) /\ q.arg \in Run /\ q.saw \in {"live", "ended"} /\ q.arg = q.run
  BY DEF Sane, CallOK, Request
<1>1. /\ Tab(u)
      /\ \/ ~(q.last /\ Matches(t, q)) /\ AllBut(t, u, {"action"})
         \/ q.last /\ Matches(t, q) /\ AllBut(t, u, {"failed", "busy", "action"}) /\ u.failed
         \/ /\ q.last /\ Matches(t, q) /\ CaseOf[q.arg] # t.case
            /\ AllBut(t, u, {"shown", "busy", "failed", "run", "moved", "net", "status", "action"})
            /\ u.shown = None /\ u.failed /\ u.run = IF t.run = q.arg THEN None ELSE t.run
            /\ Aged(t.net, u.net) /\ (Distinct(t.net) => Distinct(u.net))
         \/ /\ q.last /\ Matches(t, q) /\ CaseOf[q.arg] = t.case
            /\ AllBut(t, u, {"shown", "busy", "action"}) /\ u.shown = [id |-> q.arg, ended |-> q.saw]
  BY <1>0, RunAnsweredFields
<1>2. CASE AllBut(t, u, {"action"}) \/ AllBut(t, u, {"failed", "busy", "action"})
  <2>1. /\ u.case = t.case /\ u.timer = t.timer /\ u.run = t.run /\ u.view = t.view /\ u.drawer = t.drawer /\ u.intake = t.intake
        /\ u.shown = t.shown /\ u.dirty = t.dirty /\ u.net = t.net
    BY <1>2 DEF AllBut, Fields
  <2> QED BY <1>1, <2>1 DEF StaysFrom, Sane, Fitting, Belongs
<1>3. CASE /\ AllBut(t, u, {"shown", "busy", "failed", "run", "moved", "net", "status", "action"})
           /\ u.shown = None /\ Aged(t.net, u.net) /\ (Distinct(t.net) => Distinct(u.net))
  <2>1. /\ u.case = t.case /\ u.timer = t.timer /\ u.view = t.view /\ u.drawer = t.drawer /\ u.intake = t.intake /\ u.dirty = t.dirty
    BY <1>3 DEF AllBut, Fields
  <2>2. (Calls(t.net) => Calls(u.net)) /\ (Resumes(t.net) => Resumes(u.net))
    BY <1>3, AgedCalls
  <2> QED BY <1>1, <1>3, <2>1, <2>2 DEF StaysFrom, Sane, Fitting, Belongs
<1>4. CASE /\ Matches(t, q) /\ CaseOf[q.arg] = t.case
           /\ AllBut(t, u, {"shown", "busy", "action"}) /\ u.shown = [id |-> q.arg, ended |-> q.saw]
  <2>1. /\ u.case = t.case /\ u.timer = t.timer /\ u.run = t.run /\ u.view = t.view /\ u.drawer = t.drawer /\ u.intake = t.intake
        /\ u.dirty = t.dirty /\ u.net = t.net
    BY <1>4 DEF AllBut, Fields
  <2>2. u.shown.id = u.run /\ CaseOf[u.run] = u.case
    BY <1>0, <1>4, <2>1 DEF Matches
  <2> QED BY <1>1, <2>1, <2>2 DEF StaysFrom, Sane, Fitting, Belongs
<1> QED BY <1>1, <1>2, <1>3, <1>4

LEMMA EvidenceAnsweredStays ==
  ASSUME NEW t, Sane(t), NEW q, q.case \in Case, NEW ok, NEW u, u = EvidenceAnswered(t, q, ok)
  PROVE  StaysFrom(t, q, u)
<1>1. Tab(u) /\ AllBut(t, u, {"drawer"}) /\ (u.drawer = t.drawer \/ u.drawer = t.case)
  BY EvidenceAnsweredFields DEF Sane
<1>2. /\ u.case = t.case /\ u.timer = t.timer /\ u.run = t.run /\ u.view = t.view /\ u.intake = t.intake /\ u.shown = t.shown
      /\ u.dirty = t.dirty /\ u.net = t.net
  BY <1>1 DEF AllBut, Fields
<1> QED BY <1>1, <1>2 DEF StaysFrom, Sane, Fitting, Belongs

LEMMA WriteAnsweredStays ==
  ASSUME NEW t, Sane(t), NEW q, q \in Request, q.kind \in {"start", "intake", "upload", "resume", "accept"}, CallOK(q),
         NEW ok \in BOOLEAN, NEW u, u = WriteAnswered(t, q, ok)
  PROVE  StaysFrom(t, q, u)
<1>0. Tab(t)
  BY DEF Sane
<1>1. CASE ~Fits(t, q)
  <2>1. u = t
    BY <1>1 DEF WriteAnswered
  <2> QED BY <2>1 DEF StaysFrom, Fitting
<1>2. CASE Fits(t, q) /\ ~ok
  <2>1. u = Release(t, q)
    BY <1>2 DEF WriteAnswered
  <2>2. Tab(u) /\ AllBut(t, u, {"action"})
    BY <1>0, <2>1, ReleaseFields
  <2>3. /\ u.case = t.case /\ u.timer = t.timer /\ u.run = t.run /\ u.view = t.view /\ u.drawer = t.drawer /\ u.intake = t.intake /\ u.shown = t.shown
        /\ u.dirty = t.dirty /\ u.net = t.net
    BY <2>2 DEF AllBut, Fields
  <2> QED BY <2>2, <2>3 DEF StaysFrom, Sane, Fitting, Belongs
<1>3. CASE Fits(t, q) /\ ok /\ q.kind = "start"
  <2>1. q.case \in Case /\ q.arg = Fresh[q.case] /\ q.case = t.case
    BY <1>3 DEF CallOK, Fits, Matches
  <2>2. q.arg \in Run /\ CaseOf[q.arg] = t.case
    BY <2>1, WorkspaceAssumption
  <2>3. u = WriteAnswered(t, q, TRUE)
    BY <1>3
  <2>4. /\ Tab(u) /\ AllBut(t, u, {"shown", "action", "run", "moved", "net", "status"})
        /\ u.shown = [id |-> q.arg, ended |-> "live"] /\ u.run = q.arg
        /\ Aged(t.net, u.net) /\ (Distinct(t.net) => Distinct(u.net))
    BY <1>0, <1>3, <2>2, <2>3, StartAnsweredFields
  <2>5. /\ u.case = t.case /\ u.timer = t.timer /\ u.view = t.view /\ u.drawer = t.drawer /\ u.intake = t.intake /\ u.dirty = t.dirty
    BY <2>4 DEF AllBut, Fields
  <2>6. (Calls(t.net) => Calls(u.net)) /\ (Resumes(t.net) => Resumes(u.net))
    BY <2>4, AgedCalls
  <2>7. u.shown.id = u.run /\ CaseOf[u.run] = u.case
    BY <2>2, <2>4, <2>5
  <2> QED BY <2>4, <2>5, <2>6, <2>7 DEF StaysFrom, Sane, Fitting, Belongs
<1>4. CASE Fits(t, q) /\ ok /\ q.kind = "intake"
  <2>1. q.arg \in Run
    BY <1>4, WorkspaceAssumption DEF CallOK
  <2>2. IntakeAdopted(t, q, u)
    <3>1. u = WriteAnswered(t, q, TRUE)
      BY <1>4
    <3> QED BY <1>0, <1>4, <2>1, <3>1, IntakeAnsweredFields
  <2>3. Sane(u) /\ (Resumes(t.net) => Resumes(u.net))
    BY <2>2, AgedCalls DEF IntakeAdopted, Sane
  <2>4. u.case = CaseOf[q.arg] /\ u.run = q.arg /\ u.shown.id = q.arg /\ u.intake = CaseOf[q.arg]
    BY <2>2 DEF IntakeAdopted
  <2>5. CASE CaseOf[q.arg] = t.case
    <3>1. AllBut(t, u, Undisturbed)
      BY <2>2, <2>5 DEF IntakeAdopted, IntakeHere
    <3>2. u.view = t.view /\ u.drawer = t.drawer /\ u.dirty = t.dirty /\ u.timer = t.timer
      BY <3>1 DEF AllBut, Undisturbed, Fields
    <3> QED BY <2>3, <2>4, <2>5, <3>2 DEF StaysFrom, Fitting, Belongs
  <2>6. CASE CaseOf[q.arg] # t.case
    <3>1. u.drawer = None /\ u.view = None
      BY <2>2, <2>6 DEF IntakeAdopted, IntakeElsewhere
    <3>2. Belongs(u)
      BY <2>4, <3>1 DEF Belongs
    <3>3. CaseOf[q.arg] # None
      BY <2>1, WorkspaceAssumption
    <3>4. Fitting(t) => u.intake # t.intake
      BY <2>4, <2>6, <3>3 DEF Fitting, Belongs
    <3>5. u.timer = t.timer
      BY <2>2, <2>6 DEF IntakeAdopted, IntakeElsewhere, AllBut, Cleared, Fields
    <3> QED BY <2>3, <3>2, <3>4, <3>5 DEF StaysFrom, Fitting
  <2> QED BY <2>5, <2>6
<1>5. CASE Fits(t, q) /\ ok /\ q.kind = "resume"
  <2>1. q.run \in Run /\ q.run = t.run /\ q.case = t.case
    BY <1>5 DEF CallOK, Fits, Matches
  <2>2. RunResumed(t, q, u)
    <3>1. u = WriteAnswered(t, q, TRUE)
      BY <1>5
    <3> QED BY <1>0, <1>5, <2>1, <3>1, ResumeAnsweredFields
  <2>3. /\ u.case = t.case /\ u.timer = t.timer /\ u.run = t.run /\ u.view = t.view /\ u.drawer = t.drawer /\ u.intake = t.intake /\ u.dirty = t.dirty
        /\ u.shown.id = q.run
    BY <2>2 DEF RunResumed, AllBut, Fields
  <2>4. (Calls(t.net) => Calls(u.net)) /\ (Resumes(t.net) => Resumes(u.net))
    <3>1. t.run # None
      BY <2>1, WorkspaceAssumption
    <3> QED BY <1>0, <2>2, <3>1, RunCalls DEF RunResumed
  <2>5. Sane(u)
    BY <2>2, <2>4 DEF RunResumed, Sane
  <2> QED BY <1>5, <2>1, <2>3, <2>4, <2>5 DEF StaysFrom, Fitting, Belongs
<1>6. CASE Fits(t, q) /\ ok /\ q.kind \in {"upload", "accept"}
  <2>1. u = RefreshCase(t, q.kind) /\ q.kind \in Kinds \cup {"none"} /\ t.case \in Case
    BY <1>6 DEF WriteAnswered, Kinds, CallOK, Fits, Matches
  <2>2. /\ Tab(u) /\ AllBut(t, u, {"net"})
        /\ AgedWith(t.net, u.net, Call(t, "case", q.kind, None)) /\ (Distinct(t.net) => Distinct(u.net))
    BY <1>0, <2>1, RefreshCaseFields
  <2>3. (Calls(t.net) => Calls(u.net)) /\ (Resumes(t.net) => Resumes(u.net))
    BY <1>0, <2>1, <2>2, CaseCalls
  <2>4. /\ u.case = t.case /\ u.timer = t.timer /\ u.run = t.run /\ u.view = t.view /\ u.drawer = t.drawer /\ u.intake = t.intake /\ u.shown = t.shown
        /\ u.dirty = t.dirty
    BY <2>2 DEF AllBut, Fields
  <2> QED BY <2>2, <2>3, <2>4 DEF StaysFrom, Sane, Fitting, Belongs
<1> QED BY <1>1, <1>2, <1>3, <1>4, <1>5, <1>6

LEMMA AnswerStays ==
  ASSUME Sane(w), ServerTyped, NEW q \in w.net, NEW ok \in BOOLEAN, Answer(q, ok)
  PROVE  Stays
<1> DEFINE t == [w EXCEPT !.net = @ \ {q}]
<1>1. /\ Taken(t, q) /\ Sane(t) /\ (Fitting(w) => Fitting(t))
      /\ CallOK(q) /\ q \in Request /\ (Fitting(w) => (q.kind = "resume" => CaseOf[q.run] = q.case))
  BY TakenFields
<1>2. /\ w' = CASE q.kind = "cases" -> CasesAnswered(t, q, ok)
                [] q.kind = "case"  -> CaseAnswered(t, q, ok)
                [] q.kind = "run"   -> RunAnswered(t, q, ok)
                [] q.kind = "evidence" -> EvidenceAnswered(t, q, ok)
                [] OTHER            -> WriteAnswered(t, q, ok)
      /\ RouteRaces \/ w.timer = None
      /\ q.kind = "run" => q.saw # "unread"
      /\ q.kind \in Kinds
  BY <1>1 DEF Answer, LinkFollowed, Served, Request
<1> HIDE DEF t
<1>3. t.intake = w.intake /\ t.dirty = w.dirty /\ t.timer = w.timer
  BY <1>1 DEF Taken, AllBut, Fields
<1>4. StaysFrom(t, q, w')
  <2>1. CASE q.kind = "cases"
    <3>1. w' = CasesAnswered(t, q, ok)
      BY <1>2, <2>1
    <3> QED BY <1>1, <3>1, CasesAnsweredStays
  <2>2. CASE q.kind = "case"
    <3>1. w' = CaseAnswered(t, q, ok) /\ q.case \in Case
      BY <1>1, <1>2, <2>2 DEF CallOK
    <3> QED BY <1>1, <3>1, CaseAnsweredStays
  <2>3. CASE q.kind = "run"
    <3>1. w' = RunAnswered(t, q, ok)
      BY <1>2, <2>3
    <3> QED BY <1>1, <1>2, <2>3, <3>1, RunAnsweredStays
  <2>4. CASE q.kind = "evidence"
    <3>1. w' = EvidenceAnswered(t, q, ok) /\ q.case \in Case
      BY <1>1, <1>2, <2>4 DEF CallOK
    <3> QED BY <1>1, <3>1, EvidenceAnsweredStays
  <2>5. CASE q.kind \in {"start", "intake", "upload", "resume", "accept"}
    <3>1. w' = WriteAnswered(t, q, ok)
      BY <1>2, <2>5
    <3> QED BY <1>1, <2>5, <3>1, WriteAnsweredStays
  <2> QED BY <1>2, <2>1, <2>2, <2>3, <2>4, <2>5 DEF Kinds
<1>5. ASSUME ~RouteRaces, Fitting(w) PROVE Fitting(w') /\ DraftLeftAsked
  <2>1. w'.timer = None
    BY <1>2, <1>3, <1>4, <1>5 DEF StaysFrom
  <2>2. Belongs(w') /\ Resumes(w'.net) /\ (t.dirty /\ ~w'.dirty => w'.intake # t.intake)
    BY <1>1, <1>4, <1>5 DEF StaysFrom
  <2> QED BY <1>3, <2>1, <2>2 DEF Fitting, Ticks, DraftLeftAsked
<1> QED BY <1>4, <1>5 DEF StaysFrom, Stays

LEMMA NextStays ==
  ASSUME Sane(w), ServerTyped, Next
  PROVE  Stays
<1>1. CASE Effects
  BY <1>1, EffectsStays
<1>2. CASE RouteFires
  BY <1>2, RouteFiresStays
<1>3. CASE SearchFollows
  BY <1>3, SearchFollowsStays
<1>4. CASE StreamOpens
  BY <1>4, StreamOpensStays
<1>5. CASE StreamDrops
  BY <1>5, StreamDropsStays
<1>6. ASSUME NEW q \in w.net, Serve(q) PROVE Stays
  BY <1>6, ServeStays
<1>7. ASSUME NEW q \in w.net, NEW ok \in BOOLEAN, Answer(q, ok) PROVE Stays
  BY <1>7, AnswerStays
<1>8. ASSUME NEW r \in Run, RunEnds(r) PROVE Stays
  BY <1>8, RunEndsStays
<1>9. ASSUME NEW r \in Run, NEW k \in Writes, Post(k, r) PROVE Stays
  BY <1>9, PostStays
<1>10. ASSUME NEW l \in Links, Navigate(l) \/ Back(l) PROVE Stays
  BY <1>10, NavigateStays
<1>11. ASSUME NEW c \in Case, PickCase(c) PROVE Stays
  BY <1>11, PickCaseStays
<1>12. ASSUME NEW yes \in BOOLEAN, AnswerDiscard(yes) PROVE Stays
  BY <1>12, AnswerDiscardStays
<1>13. CASE EditDraft
  BY <1>13, EditDraftStays
<1>14. CASE OpenEvidence
  BY <1>14, OpenEvidenceStays
<1>15. CASE OpenAccept
  BY <1>15, OpenAcceptStays
<1>16. CASE ConfirmAccept
  BY <1>16, ConfirmAcceptStays
<1> QED BY <1>1, <1>2, <1>3, <1>4, <1>5, <1>6, <1>7, <1>8, <1>9, <1>10, <1>11, <1>12, <1>13, <1>14, <1>15, <1>16 DEF Next

LEMMA ServerStays ==
  ASSUME Sane(w), ServerTyped, Next
  PROVE  ServerTyped'
<1>1. ASSUME NEW q \in w.net, NEW ok \in BOOLEAN, Answer(q, ok) PROVE ServerTyped'
  <2>1. q.kind \in {"start", "intake"} => q.arg \in Run /\ CaseOf[q.arg] \in Case
    BY WorkspaceAssumption DEF Sane, Calls, CallOK
  <2> QED BY <1>1, <2>1 DEF Answer, ServerTyped
<1>2. ASSUME NEW l \in Links, Navigate(l) \/ Back(l) PROVE ServerTyped'
  BY <1>2 DEF Navigate, Back, Server, ServerTyped
<1>3. ASSUME NEW c \in Case, PickCase(c) PROVE ServerTyped'
  BY <1>3 DEF PickCase, Server, ServerTyped
<1>4. ASSUME NEW yes \in BOOLEAN, AnswerDiscard(yes) PROVE ServerTyped'
  BY <1>4 DEF AnswerDiscard, Server, ServerTyped
<1>5. ASSUME NEW r \in Run, RunEnds(r) PROVE ServerTyped'
  BY <1>5 DEF RunEnds, ServerTyped
<1>6. ASSUME NEW q \in w.net, Serve(q) PROVE ServerTyped'
  BY <1>6 DEF Serve, ServerTyped
<1>7. ASSUME NEW r \in Run, NEW k \in Writes, Post(k, r) PROVE ServerTyped'
  BY <1>7 DEF Post, Server, ServerTyped
<1>8. CASE Effects \/ RouteFires \/ SearchFollows \/ StreamOpens \/ StreamDrops
  BY <1>8 DEF Effects, RouteFires, SearchFollows, StreamOpens, StreamDrops, ServerTyped
<1>9. CASE EditDraft \/ OpenEvidence \/ OpenAccept \/ ConfirmAccept
  BY <1>9 DEF EditDraft, OpenEvidence, OpenAccept, ConfirmAccept, Server, ServerTyped
<1> QED BY <1>1, <1>2, <1>3, <1>4, <1>5, <1>6, <1>7, <1>8, <1>9 DEF Next

\* The tab before it asks for the cases.
Opened(l) ==
  [case |-> l.case, run |-> IF l.case = None THEN None ELSE l.run, moved |-> FALSE, status |-> IF l.case = None THEN "idle" ELSE "loading",
   reg |-> NoCases, loading |-> TRUE, loc |-> l, asked |-> l, claimed |-> None, timer |-> None,
   ran |-> [route |-> <<>>, gen |-> <<>>, url |-> <<>>, run |-> <<>>, stream |-> <<>>],
   view |-> None, shown |-> None, busy |-> FALSE, failed |-> FALSE, action |-> "none",
   drawer |-> None, dialog |-> None, ask |-> None, dirty |-> FALSE, lost |-> None,
   intake |-> None, stream |-> [run |-> None, open |-> FALSE], net |-> {}]
LEMMA OpenedFields ==
  ASSUME NEW l \in Links, NEW u, u = Sent(Opened(l), "cases", "none", None)
  PROVE  /\ Sane(u) /\ Fitting(u) /\ AllBut(Opened(l), u, {"net"}) /\ u.net = {Call(Opened(l), "cases", "none", None)}
<1> DEFINE t == Opened(l)
<1>1. l \in Link /\ l.case \in Selectable /\ l.run \in Run \cup {None} /\ None \in Selectable
  BY WorkspaceAssumption DEF Link, Selectable
<1>2. Shaped(t)
  BY DEF Opened, Shaped, Fields
<1>3. Known(t) = {}
  BY DEF Opened, Known, NoCases
<1>4. Tab(t) /\ t.net = {} /\ t.shown = None /\ t.timer = None /\ t.view = None /\ t.drawer = None /\ t.intake = None
  BY <1>1, <1>2, <1>3 DEF Opened, Tab, Typed
<1> HIDE DEF t
<1>5. Tab(u) /\ AllBut(t, u, {"net"}) /\ u.net = t.net \cup {Call(t, "cases", "none", None)}
  <2>1. "cases" \in Kinds /\ "none" \in Kinds \cup {"none"} /\ None \in Run \cup {None} /\ u = Sent(t, "cases", "none", None)
    BY DEF Kinds, t
  <2> QED BY <1>4, <2>1, SentFields
<1>6. CallOK(Call(t, "cases", "none", None)) /\ Call(t, "cases", "none", None).kind = "cases"
  BY DEF CallOK, Call
<1>7. Sane(u) /\ Resumes(u.net)
  BY <1>4, <1>5, <1>6 DEF Sane, Calls, Distinct, Resumes
<1>8. u.shown = None /\ u.timer = None /\ u.view = None /\ u.drawer = None /\ u.intake = None
  BY <1>4, <1>5 DEF AllBut, Fields
<1> QED BY <1>4, <1>5, <1>7, <1>8 DEF Fitting, Belongs, Ticks, t

LEMMA InitFields ==
  ASSUME Init
  PROVE  /\ \E l \in Links : w = Sent(Opened(l), "cases", "none", None)
         /\ head = Opening /\ done = Over /\ wish = None
BY DEF Init, Opened

\* Type correctness, and while links are followed first what the tab shows is its own.
TabSane == part = "tab" => Sane(w) /\ ServerTyped /\ (~RouteRaces => Fitting(w))

LEMMA TabSaneKept == MCSpec => []TabSane
<1>1. MCInit => TabSane
  <2>1. ASSUME Init PROVE Sane(w) /\ ServerTyped /\ Fitting(w)
    <3>1. PICK l \in Links : w = Sent(Opened(l), "cases", "none", None)
      BY <2>1, InitFields
    <3>2. Sane(w) /\ Fitting(w)
      BY <3>1, OpenedFields
    <3>3. ServerTyped
      BY <2>1, InitFields, WorkspaceAssumption DEF ServerTyped
    <3> QED BY <3>2, <3>3
  <2> QED BY <2>1 DEF MCInit, TabSane
<1>2. TabSane /\ [MCNext]_<<part, vars, reportVars>> => TabSane'
  <2> SUFFICES ASSUME TabSane, [MCNext]_<<part, vars, reportVars>> PROVE TabSane'
    OBVIOUS
  <2>1. CASE part = "tab" /\ Next /\ UNCHANGED <<part, reportVars>>
    <3>1. Stays /\ ServerTyped'
      BY <2>1, NextStays, ServerStays DEF TabSane
    <3> QED BY <2>1, <3>1 DEF TabSane, Stays
  <2>2. CASE part = "report" /\ part' = part
    BY <2>2 DEF TabSane
  <2>3. CASE UNCHANGED <<part, vars>>
    BY <2>3 DEF TabSane, vars, ServerTyped
  <2> QED BY <2>1, <2>2, <2>3 DEF MCNext
<1> QED BY <1>1, <1>2, PTL DEF MCSpec

LEMMA SaneIsTypeOK ==
  ASSUME Sane(w), ServerTyped
  PROVE  TypeOK
BY DEF Sane, Tab, Typed, ServerTyped, TypeOK

\* Type correctness: whatever is answered, followed, dropped or posted, the tab stays a tab.
THEOREM WorkspaceTypes == MCSpec => [](part = "tab" => TypeOK)
<1>1. TabSane => (part = "tab" => TypeOK)
  BY SaneIsTypeOK DEF TabSane
<1> QED BY <1>1, TabSaneKept, PTL

\* What the tab shows belongs to what is selected, provided no answer overtakes a link
\* that is being followed: no late answer of another selection is put on show.
THEOREM ViewBelongs ==
  ASSUME ~RouteRaces
  PROVE  MCSpec => [](part = "tab" => ViewBelongsToSelection)
<1>1. TabSane => (part = "tab" => ViewBelongsToSelection)
  BY DEF TabSane, Fitting, Belongs, ViewBelongsToSelection
<1> QED BY <1>1, TabSaneKept, PTL

\* No link, late answer or history step throws a dirty draft away unasked.
THEOREM TabDraftStays ==
  ASSUME ~RouteRaces
  PROVE  MCSpec => TabDraftKept
<1>1. TabSane /\ [MCNext]_<<part, vars, reportVars>> => [part = "tab" => DraftLeftAsked]_vars
  <2> SUFFICES ASSUME TabSane, part = "tab", [MCNext]_<<part, vars, reportVars>>, vars' # vars PROVE DraftLeftAsked
    OBVIOUS
  <2>1. Next
    BY DEF MCNext, vars
  <2>2. Stays
    BY <2>1, NextStays DEF TabSane
  <2> QED BY <2>2 DEF Stays, TabSane
<1> QED BY <1>1, TabSaneKept, PTL DEF MCSpec, TabDraftKept
-----------------------------------------------------------------------------
(* The selection: links are followed before answers, questions are settled before an intake,  *)
(* and Back is not pressed before the register has loaded.                                     *)
\* The route effect has run for this selection, whatever was asked.
Routed(t) == \E a : t.ran.route = <<t.case, t.reg, t.loading, a, t.run>>
Addressed(t) == t.ran.url = UrlDeps(t)
\* Where the route effect has run, the url effect has.
UrlRan(t) == Routed(t) => Addressed(t)
\* Before the register has loaded the tab stands at the address it claims.
Early(t) == /\ t.loading /\ t.ran.url # <<>> => t.claimed = t.loc /\ (Addressed(t) => t.claimed = Here(t))
            /\ t.lost # None => ~t.loading
\* A link being followed is the address bar's, and not the tab's own.
Aims(t) == t.timer # None /\ t.timer.under = t.claimed => t.timer.asked = t.loc /\ t.timer.asked # t.claimed
\* With nothing to follow, the tab claims the address it stands at.
Rests(t) == (t.timer = None \/ t.timer.under # t.claimed) /\ t.asked = t.loc /\ t.ran.route = RouteDeps(t) => t.claimed = t.loc
\* The address bar moves ahead of the router only while the effects have run.
Trails(t) == t.asked # t.loc => t.ran.route = RouteDeps(t)
\* An address about to be written is not claimed already, unless the tab stands there.
Parts(t) == ~Addressed(t) => t.claimed = t.loc \/ t.claimed # Here(t)
\* The claimed address names the selected case, or none the tab knows.
Names(t) == Addressed(t) => t.claimed # None /\ (t.claimed.case \notin Known(t) \/ t.claimed.case = t.case)
Strays(t) == Unaddressed(t) => t.claimed # None /\ t.claimed.case \notin Known(t)
\* Until the cases are answered nothing has been asked for.
Unread(t, want) == (\E q \in t.net : q.kind = "cases" /\ q.last) => t.loading /\ Known(t) = {} /\ want = None
\* A question is open only over a draft, and what it asks about can still be opened.
Asks(t) ==
  /\ t.dirty => Known(t) # {}
  /\ t.ask # None => t.dirty /\ (t.ask.to = "case" => t.ask.case \in Known(t) \ {t.case}) /\ (t.ask.to = "link" => ~t.loading)
\* The case asked for last is selected, or is where the address bar leads.
Wanted(t, want) ==
  want \in Known(t) /\ t.ask = None => IF ~Addressed(t) \/ t.claimed = t.loc THEN t.case = want ELSE t.loc.case = want

Chosen(t, want) ==
  /\ UrlRan(t) /\ Early(t) /\ Aims(t) /\ Rests(t) /\ Trails(t) /\ Parts(t) /\ Names(t) /\ Strays(t)
  /\ Unread(t, want) /\ Asks(t) /\ Wanted(t, want)
\* As much, of a selection whose effects are about to run.
Choosing(t, want) ==
  /\ t.ran.route = RouteDeps(t) => Addressed(t) /\ Aims(t)
  /\ t.asked = t.loc \/ t.ran.route = RouteDeps(t) \/ (~Addressed(t) /\ ~Unaddressed(t))
  /\ ~Addressed(t) => t.claimed # Here(t) \/ t.claimed = t.asked
  /\ Early(t) /\ Rests(t) /\ Names(t) /\ Strays(t) /\ Unread(t, want) /\ Asks(t) /\ Wanted(t, want)

LEMMA ChosenIsChoosing ==
  ASSUME NEW t, NEW want, Chosen(t, want)
  PROVE  Choosing(t, want)
<1>1. t.ran.route = RouteDeps(t) => Addressed(t)
  BY DEF Chosen, UrlRan, Routed, RouteDeps
<1> QED BY <1>1 DEF Chosen, Choosing, Trails, Parts

\* The cases are asked for once.
LEMMA UnreadKept ==
  ASSUME NEW t, NEW u, NEW want, Unread(t, want), \A p \in u.net : p.kind = "cases" => \E q \in t.net : Later(q, p),
         u.loading = t.loading, u.reg = t.reg
  PROVE  Unread(u, want)
BY DEF Unread, Later, Known

LEMMA FlushedChosen ==
  ASSUME NEW t, Tab(t), NEW want, Choosing(t, want), NEW f, f = Flushed(t)
  PROVE  Chosen(f, want)
<1>1. /\ Tab(f) /\ AllBut(t, f, Flushes)
      /\ f.ran.route = RouteDeps(f) /\ f.ran.url = UrlDeps(f)
      /\ t.ran.route = RouteDeps(t) => f.timer = t.timer
      /\ t.ran.route # RouteDeps(t) => f.timer = IF t.claimed = t.asked \/ Waits(t) THEN None ELSE NewTimer(t)
      /\ t.ran.url = UrlDeps(t) \/ Unaddressed(t) => f.claimed = t.claimed /\ f.loc = t.loc
      /\ t.ran.url # UrlDeps(t) /\ ~Unaddressed(t) => f.claimed = Here(t) /\ f.loc = Here(t)
      /\ \A p \in f.net : Started(t, p) \/ \E q \in t.net : Later(q, p)
  BY FlushedFields
<1>2. /\ f.case = t.case /\ f.run = t.run /\ f.reg = t.reg /\ f.loading = t.loading /\ f.asked = t.asked
      /\ f.lost = t.lost /\ f.ask = t.ask /\ f.dirty = t.dirty
  BY <1>1 DEF AllBut, Flushes, Fields
<1>3. Known(f) = Known(t) /\ Here(f) = Here(t) /\ (Unaddressed(f) <=> Unaddressed(t)) /\ Addressed(f)
  BY <1>1, <1>2 DEF Known, Here, Unaddressed, Addressed
<1>4. /\ t.ran.route = RouteDeps(t) => Addressed(t) /\ Aims(t)
      /\ t.asked = t.loc \/ t.ran.route = RouteDeps(t) \/ (~Addressed(t) /\ ~Unaddressed(t))
      /\ ~Addressed(t) => t.claimed # Here(t) \/ t.claimed = t.asked
      /\ Early(t) /\ Rests(t) /\ Names(t) /\ Strays(t) /\ Unread(t, want) /\ Asks(t) /\ Wanted(t, want)
  BY DEF Choosing
<1>5. Addressed(t) <=> t.ran.url = UrlDeps(t)
  BY DEF Addressed
<1>6. UrlDeps(t) # <<>> /\ Here(t).case = t.case
  BY DEF UrlDeps, Here
<1>7. Unaddressed(t) => ~t.loading /\ t.case \notin Known(t)
  BY <1>4, WorkspaceAssumption DEF Early, Unaddressed, Tab, Typed
<1>8. UrlRan(f) /\ Trails(f) /\ Parts(f)
  BY <1>1, <1>3 DEF UrlRan, Trails, Parts
<1>9. Early(f)
  BY <1>1, <1>2, <1>3, <1>4, <1>5, <1>6, <1>7 DEF Early, Unaddressed
<1>10. Aims(f)
  <2>1. CASE t.ran.route = RouteDeps(t)
    BY <1>1, <1>4, <1>5, <2>1 DEF Aims
  <2>2. CASE t.ran.route # RouteDeps(t) /\ f.timer # None
    <3>1. f.timer.under = t.claimed /\ f.timer.asked = t.asked /\ t.claimed # t.asked
      BY <1>1, <2>2 DEF NewTimer
    <3>2. CASE Addressed(t) \/ Unaddressed(t)
      BY <1>1, <1>4, <1>5, <2>2, <3>1, <3>2 DEF Aims
    <3>3. CASE ~Addressed(t) /\ ~Unaddressed(t)
      BY <1>1, <1>4, <1>5, <3>1, <3>3 DEF Aims
    <3> QED BY <3>2, <3>3
  <2> QED BY <2>1, <2>2 DEF Aims
<1>11. Rests(f)
  <2>1. CASE ~Addressed(t) /\ ~Unaddressed(t)
    BY <1>1, <1>5, <2>1 DEF Rests
  <2>2. CASE t.ran.route = RouteDeps(t)
    BY <1>1, <1>2, <1>4, <1>5, <2>2 DEF Rests
  <2>3. CASE t.ran.route # RouteDeps(t) /\ (Addressed(t) \/ Unaddressed(t))
    <3>1. f.claimed = t.claimed /\ f.loc = t.loc
      BY <1>1, <1>5, <2>3
    <3>2. CASE t.claimed = t.asked
      BY <1>2, <3>1, <3>2 DEF Rests
    <3>3. CASE Waits(t)
      BY <1>4, <1>5, <1>6, <1>7, <2>3, <3>1, <3>3 DEF Rests, Early, Waits
    <3>4. CASE f.timer = NewTimer(t)
      <4>1. f.timer.under = t.claimed
        BY <3>4 DEF NewTimer
      <4>2. f.timer # None
        BY <1>1, <3>4, WorkspaceAssumption DEF NewTimer, Timer, Tab, Typed
      <4> QED BY <3>1, <4>1, <4>2 DEF Rests
    <3> QED BY <1>1, <2>3, <3>2, <3>3, <3>4
  <2> QED BY <2>1, <2>2, <2>3
<1>12. Names(f) /\ Strays(f)
  <2>1. CASE ~Addressed(t) /\ ~Unaddressed(t)
    <3>1. f.claimed = Here(t) /\ Here(t) \in Link /\ ~Unaddressed(f)
      BY <1>1, <1>3, <1>5, <2>1 DEF Here, Link, Tab, Typed
    <3>2. f.claimed # None
      BY <3>1, WorkspaceAssumption
    <3> QED BY <1>2, <1>6, <3>1, <3>2 DEF Names, Strays
  <2>2. CASE Addressed(t) \/ Unaddressed(t)
    BY <1>1, <1>2, <1>3, <1>4, <1>5, <2>2 DEF Names, Strays
  <2> QED BY <2>1, <2>2
<1>13. Unread(f, want)
  <2>1. \A p \in f.net : p.kind = "cases" => \E q \in t.net : Later(q, p)
    BY <1>1 DEF Started
  <2> QED BY <1>2, <1>4, <2>1, UnreadKept
<1>14. Asks(f)
  BY <1>2, <1>3, <1>4 DEF Asks
<1>15. Wanted(f, want)
  BY <1>1, <1>2, <1>3, <1>4, <1>5, <1>7 DEF Wanted
<1> QED BY <1>8, <1>9, <1>10, <1>11, <1>12, <1>13, <1>14, <1>15 DEF Chosen

\* What stands still.
Steady(t, u) ==
  /\ u.case = t.case /\ u.run = t.run /\ u.reg = t.reg /\ u.loading = t.loading /\ u.loc = t.loc /\ u.asked = t.asked
  /\ u.claimed = t.claimed /\ u.timer = t.timer /\ u.ran = t.ran /\ u.ask = t.ask /\ u.lost = t.lost
  /\ u.dirty = t.dirty
  /\ \A p \in u.net : p.kind = "cases" => \E q \in t.net : Later(q, p)
LEMMA SteadyChosen ==
  ASSUME NEW t, NEW u, NEW want, Chosen(t, want), Steady(t, u)
  PROVE  Chosen(u, want)
<1>1. Known(u) = Known(t) /\ Here(u) = Here(t) /\ RouteDeps(u) = RouteDeps(t) /\ UrlDeps(u) = UrlDeps(t)
  BY DEF Known, Here, RouteDeps, UrlDeps, Steady
<1>2. UrlRan(u) /\ Early(u) /\ Aims(u) /\ Rests(u) /\ Trails(u) /\ Parts(u) /\ Names(u) /\ Strays(u)
  BY <1>1 DEF Steady, Chosen, UrlRan, Routed, Addressed, Unaddressed, Early, Aims, Rests, Trails, Parts, Names, Strays
<1>3. Unread(u, want)
  BY UnreadKept DEF Chosen, Steady
<1>4. Asks(u) /\ Wanted(u, want)
  BY <1>1 DEF Steady, Chosen, Asks, Wanted, Addressed
<1> QED BY <1>2, <1>3, <1>4 DEF Chosen

\* Rereading the selected run, and the event stream.
Reread(t, u) ==
  /\ Tab(u) /\ t.run # None /\ ~u.failed /\ Asked(u) /\ \E of : AgedWith(t.net, u.net, Call(t, "run", of, t.run))
LEMMA RereadFields ==
  ASSUME NEW t, Tab(t), t.run # None, NEW u, u = RefreshRun(t, "none")
  PROVE  Reread(t, u) /\ AllBut(t, u, {"net", "busy", "failed"})
<1>1. "none" \in Kinds \cup {"none"}
  OBVIOUS
<1> QED BY <1>1, RefreshRunFields DEF Reread

LEMMA StreamOpensFields ==
  ASSUME Sane(w), StreamOpens
  PROVE  /\ w'.stream.run = w.stream.run /\ w'.stream.open
         /\ \/ Follows(w) /\ Reread(w, w') /\ AllBut(w, w', {"net", "busy", "failed", "stream"})
            \/ ~Follows(w) /\ AllBut(w, w', {"stream"})
<1> DEFINE t == [w EXCEPT !.stream.open = TRUE]
<1>1. w' = IF Follows(w) THEN RefreshRun(t, "none") ELSE t
  BY DEF StreamOpens
<1>2. Shaped(t) /\ AllBut(w, t, {"stream"}) /\ t.stream.run = w.stream.run /\ t.stream.open = TRUE
  BY DEF Sane, Tab, Shaped, Fields, AllBut
<1> HIDE DEF t
<1>3. Tab(t) /\ t.net = w.net /\ t.run = w.run /\ t.case = w.case
  <2>1. t.net = w.net /\ t.run = w.run /\ t.case = w.case
    BY <1>2 DEF AllBut, Fields
  <2>2. t.stream.run \in Run \cup {None} /\ t.stream.open \in BOOLEAN
    BY <1>2 DEF Sane, Tab, Typed
  <2> QED BY <1>2, <2>1, <2>2, TabOf DEF Sane
<1>4. CASE Follows(w)
  <2>1. t.run # None /\ w' = RefreshRun(t, "none")
    BY <1>1, <1>3, <1>4 DEF Follows
  <2>2. Reread(t, w') /\ AllBut(t, w', {"net", "busy", "failed"})
    BY <1>3, <2>1, RereadFields
  <2>3. \A of : Call(t, "run", of, t.run) = Call(w, "run", of, w.run)
    BY <1>3 DEF Call
  <2>4. Reread(w, w')
    BY <1>3, <2>2, <2>3 DEF Reread
  <2>5. AllBut(w, w', {"net", "busy", "failed", "stream"}) /\ w'.stream = t.stream
    BY <1>2, <2>2 DEF AllBut, Fields
  <2> QED BY <1>2, <1>4, <2>4, <2>5
<1>5. CASE ~Follows(w)
  BY <1>1, <1>2, <1>5
<1> QED BY <1>4, <1>5

LEMMA RunEndsFields ==
  ASSUME Sane(w), NEW r \in Run, RunEnds(r)
  PROVE  \/ w.stream.run = r /\ w.stream.open /\ Follows(w) /\ Reread(w, w') /\ AllBut(w, w', {"net", "busy", "failed"})
         \/ ~(w.stream.run = r /\ w.stream.open /\ Follows(w)) /\ w' = w
<1>1. CASE w.stream.run = r /\ w.stream.open /\ Follows(w)
  <2>1. w' = RefreshRun(w, "none") /\ w.run # None /\ Tab(w)
    BY <1>1 DEF RunEnds, Follows, Sane
  <2> QED BY <1>1, <2>1, RereadFields
<1> QED BY <1>1 DEF RunEnds

LEMMA AgedWithCases ==
  ASSUME NEW N, NEW M, NEW x, AgedWith(N, M, x), x.kind # "cases"
  PROVE  \A p \in M : p.kind = "cases" => \E q \in N : Later(q, p)
BY DEF AgedWith, Later

\* The steps that leave the selection alone.
LEMMA StreamOpensSteady == ASSUME Sane(w), StreamOpens PROVE Steady(w, w')
<1>1. CASE Reread(w, w') /\ AllBut(w, w', {"net", "busy", "failed", "stream"})
  <2>1. PICK of : AgedWith(w.net, w'.net, Call(w, "run", of, w.run))
    BY <1>1 DEF Reread
  <2>2. Call(w, "run", of, w.run).kind # "cases"
    BY DEF Call
  <2>3. \A p \in w'.net : p.kind = "cases" => \E q \in w.net : Later(q, p)
    BY <2>1, <2>2, AgedWithCases
  <2> QED BY <1>1, <2>3 DEF AllBut, Fields, Steady
<1>2. CASE AllBut(w, w', {"stream"})
  BY <1>2 DEF AllBut, Fields, Steady, Later
<1> QED BY <1>1, <1>2, StreamOpensFields

LEMMA RunEndsSteady == ASSUME Sane(w), NEW r \in Run, RunEnds(r) PROVE Steady(w, w')
<1>1. CASE Reread(w, w') /\ AllBut(w, w', {"net", "busy", "failed"})
  <2>1. PICK of : AgedWith(w.net, w'.net, Call(w, "run", of, w.run))
    BY <1>1 DEF Reread
  <2>2. Call(w, "run", of, w.run).kind # "cases"
    BY DEF Call
  <2>3. \A p \in w'.net : p.kind = "cases" => \E q \in w.net : Later(q, p)
    BY <2>1, <2>2, AgedWithCases
  <2> QED BY <1>1, <2>3 DEF AllBut, Fields, Steady
<1>2. CASE w' = w
  BY <1>2 DEF Steady, Later
<1> QED BY <1>1, <1>2, RunEndsFields

LEMMA StreamDropsFields ==
  ASSUME Sane(w), StreamDrops
  PROVE  AllBut(w, w', {"stream"}) /\ w'.stream.run = w.stream.run /\ ~w'.stream.open
<1>1. w' = [w EXCEPT !.stream.open = FALSE]
  BY DEF StreamDrops
<1> QED BY <1>1 DEF Sane, Tab, Shaped, Fields, AllBut

LEMMA SentSteady ==
  ASSUME NEW kind, NEW of, NEW arg, SentBy(w, w', kind, of, arg), kind # "cases"
  PROVE  Steady(w, w')
<1>1. AllBut(w, w', {"net", "action", "dialog"}) /\ AgedWith(w.net, w'.net, Call(w, kind, of, arg))
  BY DEF SentBy
<1>2. Call(w, kind, of, arg).kind # "cases"
  BY DEF Call
<1>3. \A p \in w'.net : p.kind = "cases" => \E q \in w.net : Later(q, p)
  BY <1>1, <1>2, AgedWithCases
<1> QED BY <1>1, <1>3 DEF AllBut, Fields, Steady

LEMMA SteadySteps ==
  ASSUME Sane(w),
         \/ StreamOpens \/ StreamDrops \/ OpenEvidence \/ OpenAccept \/ ConfirmAccept
         \/ \E q \in w.net : Serve(q)
         \/ \E r \in Run : RunEnds(r) \/ \E k \in Writes : Post(k, r)
  PROVE  Steady(w, w') /\ wish' = wish
<1>1. CASE StreamOpens
  BY <1>1, StreamOpensSteady DEF StreamOpens
<1>2. CASE StreamDrops
  <2>1. AllBut(w, w', {"stream"})
    BY <1>2, StreamDropsFields
  <2> QED BY <1>2, <2>1 DEF AllBut, Fields, Steady, Later, StreamDrops
<1>3. CASE OpenEvidence
  <2>1. SentBy(w, w', "evidence", "none", None) /\ "evidence" # "cases"
    BY <1>3, OpenEvidenceFields
  <2> QED BY <1>3, <2>1, SentSteady DEF OpenEvidence
<1>4. CASE OpenAccept
  <2>1. w' = [w EXCEPT !.dialog = w.run]
    BY <1>4 DEF OpenAccept
  <2>2. AllBut(w, w', {"dialog"})
    BY <2>1 DEF Sane, Tab, Shaped, Fields, AllBut
  <2> QED BY <1>4, <2>2 DEF AllBut, Fields, Steady, Later, OpenAccept
<1>5. CASE ConfirmAccept
  <2>1. CASE AllBut(w, w', {"dialog", "failed"})
    BY <1>5, <2>1 DEF AllBut, Fields, Steady, Later, ConfirmAccept
  <2>2. CASE SentBy(w, w', "accept", "accept", w.run)
    <3>1. "accept" # "cases"
      OBVIOUS
    <3> QED BY <1>5, <2>2, <3>1, SentSteady DEF ConfirmAccept
  <2> QED BY <1>5, <2>1, <2>2, ConfirmAcceptFields
<1>6. ASSUME NEW q \in w.net, Serve(q) PROVE Steady(w, w') /\ wish' = wish
  <2>1. /\ AllBut(w, w', {"net"})
        /\ \E s \in Request : /\ w'.net = (w.net \ {q}) \cup {s} /\ q.kind = "run"
                              /\ s.kind = q.kind
    BY <1>6, ServeFields
  <2> QED BY <1>6, <2>1 DEF AllBut, Fields, Steady, Later, Serve
<1>7. ASSUME NEW r \in Run, RunEnds(r) PROVE Steady(w, w') /\ wish' = wish
  BY <1>7, RunEndsSteady DEF RunEnds
<1>8. ASSUME NEW r \in Run, NEW k \in Writes, Post(k, r) PROVE Steady(w, w') /\ wish' = wish
  <2>1. SentBy(w, w', k, k, r) /\ k # "cases"
    BY <1>8, PostFields
  <2> QED BY <1>8, <2>1, SentSteady DEF Post
<1> QED BY <1>1, <1>2, <1>3, <1>4, <1>5, <1>6, <1>7, <1>8
-----------------------------------------------------------------------------
(* Every step keeps the selection the analyst's. *)
LEMMA InitChosen ==
  ASSUME NEW l \in Links, NEW u, u = Sent(Opened(l), "cases", "none", None)
  PROVE  Chosen(u, None)
<1>1. AllBut(Opened(l), u, {"net"}) /\ l \in Link
  BY OpenedFields, WorkspaceAssumption
<1>0. /\ u.ran = Opened(l).ran /\ u.timer = Opened(l).timer /\ u.asked = Opened(l).asked /\ u.loc = Opened(l).loc
      /\ u.claimed = Opened(l).claimed /\ u.lost = Opened(l).lost /\ u.loading = Opened(l).loading /\ u.reg = Opened(l).reg
      /\ u.ask = Opened(l).ask /\ u.dirty = Opened(l).dirty /\ u.case = Opened(l).case /\ u.run = Opened(l).run
  BY <1>1 DEF AllBut, Fields
<1>2. /\ u.timer = None /\ u.asked = l /\ u.loc = l /\ u.claimed = None /\ u.lost = None
      /\ u.loading = TRUE /\ u.reg = NoCases /\ u.ask = None /\ u.dirty = FALSE /\ u.ran.route = <<>> /\ u.ran.url = <<>>
      /\ u.case = l.case /\ u.run = IF l.case = None THEN None ELSE l.run
  <2> DEFINE t == Opened(l)
  <2>1. /\ t.timer = None /\ t.asked = l /\ t.loc = l /\ t.claimed = None /\ t.lost = None
        /\ t.loading = TRUE /\ t.reg = NoCases /\ t.ask = None /\ t.dirty = FALSE
    BY DEF Opened
  <2>2. t.ran.route = <<>> /\ t.ran.url = <<>> /\ t.case = l.case /\ t.run = IF l.case = None THEN None ELSE l.run
    BY DEF Opened
  <2> HIDE DEF t
  <2> QED BY <1>0, <2>1, <2>2 DEF t
<1>3. Known(u) = {}
  BY <1>2 DEF Known, NoCases
<1>4. ~Routed(u) /\ ~Addressed(u) /\ u.ran.route # RouteDeps(u)
  <2>1. UrlDeps(u) # <<>>
    BY DEF UrlDeps
  <2>2. RouteDeps(u) # <<>>
    BY DEF RouteDeps
  <2>3. \A a : <<>> # <<u.case, u.reg, u.loading, a, u.run>>
    OBVIOUS
  <2> QED BY <1>2, <2>1, <2>2, <2>3 DEF Addressed, Routed
<1>5. UrlRan(u) /\ Early(u) /\ Aims(u) /\ Rests(u) /\ Trails(u) /\ Names(u) /\ Strays(u)
  BY <1>2, <1>4 DEF UrlRan, Early, Aims, Rests, Trails, Names, Strays, Unaddressed
<1>6. Parts(u)
  <2>1. Here(u) \in Link
    BY <1>1, <1>2 DEF Here, Link
  <2> QED BY <1>2, <2>1, WorkspaceAssumption DEF Parts
<1>7. Unread(u, None) /\ Asks(u) /\ Wanted(u, None)
  BY <1>2, <1>3 DEF Unread, Asks, Wanted
<1> QED BY <1>5, <1>6, <1>7 DEF Chosen

LEMMA EffectsChosen ==
  ASSUME Sane(w), NEW want, Chosen(w, want), Effects
  PROVE  Chosen(w', want)
<1>1. w' = Flushed(w) /\ Tab(w) /\ Choosing(w, want)
  BY ChosenIsChoosing DEF Effects, Sane
<1> QED BY <1>1, FlushedChosen

LEMMA SearchFollowsChosen ==
  ASSUME Sane(w), NEW want, Chosen(w, want), SearchFollows
  PROVE  Chosen(w', want)
<1>1. w.asked # w.loc /\ AllBut(w, w', {"asked"}) /\ w'.asked = w.loc
  BY DEF SearchFollows, Sane, Tab, Shaped, Fields, AllBut
<1>2. /\ w'.case = w.case /\ w'.run = w.run /\ w'.reg = w.reg /\ w'.loading = w.loading /\ w'.loc = w.loc
      /\ w'.claimed = w.claimed /\ w'.timer = w.timer /\ w'.ran = w.ran /\ w'.ask = w.ask /\ w'.lost = w.lost
      /\ w'.dirty = w.dirty /\ w'.net = w.net
  BY <1>1 DEF AllBut, Fields
<1>3. w'.ran.route # RouteDeps(w')
  BY <1>1, <1>2 DEF Chosen, Trails, RouteDeps
<1>4. Known(w') = Known(w) /\ Here(w') = Here(w) /\ (Addressed(w') <=> Addressed(w)) /\ (Routed(w') <=> Routed(w))
  BY <1>2 DEF Known, Here, Addressed, UrlDeps, Routed
<1>5. UrlRan(w') /\ Early(w') /\ Aims(w') /\ Rests(w') /\ Trails(w') /\ Parts(w') /\ Names(w') /\ Strays(w')
  BY <1>1, <1>2, <1>3, <1>4 DEF Chosen, UrlRan, Early, Aims, Rests, Trails, Parts, Names, Strays, Unaddressed
<1>6. Unread(w', want) /\ Asks(w') /\ Wanted(w', want)
  BY <1>2, <1>4 DEF Chosen, Unread, Asks, Wanted
<1> QED BY <1>5, <1>6 DEF Chosen

\* Following a link: the timeout finds the address bar where the route effect read it.
LEMMA RouteFiresChosen ==
  ASSUME Sane(w), Fitting(w), NEW want, Chosen(w, want), RouteFires
  PROVE  Chosen(w', want)
<1>1. LinkTaken(w, w') /\ Tab(w) /\ w.timer # None
  BY RouteFiresFields DEF Sane, RouteFires
<1>2. /\ w.ran.route = <<w.case, w.reg, w.loading, w.timer.asked, w.run>>
      /\ w.timer.case = w.case /\ w.timer.run = w.run /\ w.timer.known = Known(w)
  BY <1>1 DEF Fitting, Ticks
<1>3. Addressed(w) /\ w.ran.url # <<>>
  <2>1. Routed(w)
    BY <1>2 DEF Routed
  <2>2. Addressed(w)
    BY <2>1 DEF Chosen, UrlRan
  <2> QED BY <2>2 DEF Addressed, UrlDeps
<1>4. Early(w) /\ Aims(w) /\ Rests(w) /\ Trails(w) /\ Names(w) /\ Strays(w) /\ Unread(w, want) /\ Asks(w) /\ Wanted(w, want)
  BY DEF Chosen
<1>5. w'.timer = None /\ \A p \in w'.net : p.kind = "cases" => \E q \in w.net : Later(q, p)
  BY <1>1 DEF LinkTaken, Aged
<1>6. Known(w) \subseteq Case /\ None \notin Known(w) /\ w.loc \in Link /\ w.loc # None
  BY <1>1, WorkspaceAssumption DEF Tab, Typed
<1>7. CASE LinkStale(w, w')
  <2>1. /\ w'.case = w.case /\ w'.run = w.run /\ w'.reg = w.reg /\ w'.loading = w.loading /\ w'.loc = w.loc /\ w'.asked = w.asked
        /\ w'.claimed = w.claimed /\ w'.ran = w.ran /\ w'.ask = w.ask /\ w'.lost = w.lost /\ w'.dirty = w.dirty
    BY <1>7 DEF LinkStale, AllBut, Fields
  <2>2. Known(w') = Known(w) /\ Here(w') = Here(w) /\ (Addressed(w') <=> Addressed(w)) /\ RouteDeps(w') = RouteDeps(w)
    BY <2>1 DEF Known, Here, Addressed, UrlDeps, RouteDeps
  <2>3. UrlRan(w') /\ Aims(w') /\ Parts(w')
    BY <1>3, <1>5, <2>2 DEF UrlRan, Aims, Parts
  <2>4. Early(w') /\ Rests(w') /\ Trails(w') /\ Names(w') /\ Strays(w')
    BY <1>4, <1>7, <2>1, <2>2 DEF LinkStale, Early, Rests, Trails, Names, Strays, Unaddressed
  <2>5. Unread(w', want)
    BY <1>4, <1>5, <2>1, UnreadKept
  <2>6. Asks(w') /\ Wanted(w', want)
    BY <1>4, <2>1, <2>2 DEF Asks, Wanted
  <2> QED BY <2>3, <2>4, <2>5, <2>6 DEF Chosen
<1>8. CASE w.claimed = w.timer.under /\ ~LinkStale(w, w')
  <2>1. w.timer.asked = w.loc /\ w.loc # w.claimed
    BY <1>1, <1>4, <1>8 DEF Aims
  <2>2. ~w.loading
    BY <1>3, <1>4, <2>1 DEF Early
  <2>3. w.asked = w.loc
    BY <1>2, <1>4, <2>1 DEF Trails, RouteDeps
  <2>4. w.ran.route = RouteDeps(w)
    BY <1>2, <2>1, <2>3 DEF RouteDeps
  <2>5. want \in Known(w) /\ w.ask = None => w.loc.case = want
    BY <1>3, <1>4, <2>1 DEF Wanted
  <2>6. \A p \in w'.net : p.kind = "cases" => ~p.last
    BY <1>4, <1>5, <2>2 DEF Unread, Later
  <2>7. CASE LinkAsked(w, w')
    <3>1. /\ w'.case = w.case /\ w'.run = w.run /\ w'.reg = w.reg /\ w'.loading = w.loading /\ w'.asked = w.asked
          /\ w'.claimed = w.claimed /\ w'.ran = w.ran /\ w'.lost = w.lost /\ w'.dirty = w.dirty /\ w'.loc = Here(w)
      BY <1>2, <2>7 DEF LinkAsked, AllBut, Fields, Here
    <3>2. Known(w') = Known(w) /\ Addressed(w') /\ RouteDeps(w') = RouteDeps(w)
      BY <1>3, <3>1 DEF Known, Addressed, UrlDeps, RouteDeps
    <3>3. w'.asked # w'.loc
      BY <1>2, <2>1, <2>3, <2>7, <3>1 DEF LinkAsked, Here
    <3>4. w'.ask # None
      <4>1. w.timer.asked.case \in Selectable
        BY <1>6, <2>1 DEF Link
      <4>2. [to |-> "case", case |-> w.timer.asked.case, run |-> None] \in Question
        BY <4>1 DEF Question
      <4> QED BY <2>7, <4>2, WorkspaceAssumption DEF LinkAsked
    <3>5. UrlRan(w') /\ Early(w') /\ Aims(w') /\ Rests(w') /\ Trails(w') /\ Parts(w') /\ Names(w') /\ Strays(w')
      BY <1>3, <1>4, <1>5, <2>2, <2>4, <3>1, <3>2, <3>3 DEF UrlRan, Early, Aims, Rests, Trails, Parts, Names, Strays, Unaddressed
    <3>6. Asks(w')
      <4>1. CASE w.ask = None
        BY <1>2, <1>4, <2>7, <3>1, <3>2, <4>1 DEF LinkAsked, Asks
      <4>2. CASE w.ask # None
        BY <1>4, <2>7, <3>1, <3>2, <4>2 DEF LinkAsked, Asks
      <4> QED BY <4>1, <4>2
    <3>7. Unread(w', want) /\ Wanted(w', want)
      BY <2>6, <3>4 DEF Unread, Wanted
    <3> QED BY <3>5, <3>6, <3>7 DEF Chosen
  <2>8. CASE LinkOpened(w, w')
    <3>1. /\ w'.reg = w.reg /\ w'.loading = w.loading /\ w'.asked = w.asked /\ w'.loc = w.loc /\ w'.ran = w.ran /\ w'.ask = w.ask
          /\ w'.claimed = w.loc /\ w'.case = w.loc.case /\ w.loc.case # w.case /\ w'.lost = None /\ ~w'.dirty /\ ~w.dirty
      BY <2>1, <2>8 DEF LinkOpened, AllBut, Fields, Cleared
    <3>2. Known(w') = Known(w) /\ ~Addressed(w') /\ ~Routed(w')
      BY <1>2, <1>3, <3>1 DEF Known, Addressed, UrlDeps, Routed
    <3>3. w.ask = None
      BY <1>4, <3>1 DEF Asks
    <3>4. UrlRan(w') /\ Early(w') /\ Aims(w') /\ Rests(w') /\ Trails(w') /\ Parts(w') /\ Names(w') /\ Strays(w')
      BY <1>5, <2>2, <2>3, <3>1, <3>2 DEF UrlRan, Early, Aims, Rests, Trails, Parts, Names, Strays, Unaddressed
    <3>5. Unread(w', want) /\ Asks(w') /\ Wanted(w', want)
      BY <2>5, <2>6, <3>1, <3>2, <3>3 DEF Unread, Asks, Wanted
    <3> QED BY <3>4, <3>5 DEF Chosen
  <2>9. CASE LinkKept(w, w')
    <3>1. /\ w'.case = w.case /\ w'.run = w.run /\ w'.reg = w.reg /\ w'.loading = w.loading /\ w'.asked = w.asked /\ w'.loc = w.loc
          /\ w'.claimed = w.loc /\ w'.ran = w.ran /\ w'.lost = w.lost /\ w'.dirty = w.dirty /\ w'.ask = w.ask
      BY <2>1, <2>9 DEF LinkKept, AllBut, Fields
    <3>2. Known(w') = Known(w) /\ Addressed(w')
      BY <1>3, <3>1 DEF Known, Addressed, UrlDeps
    <3>3. w.loc.case \notin Known(w) \/ w.loc.case = w.case
      BY <1>2, <2>1, <2>9 DEF LinkKept
    <3>4. UrlRan(w') /\ Early(w') /\ Aims(w') /\ Rests(w') /\ Trails(w') /\ Parts(w')
      BY <1>4, <1>5, <2>2, <2>3, <3>1, <3>2 DEF UrlRan, Early, Aims, Rests, Trails, Parts
    <3>5. Names(w') /\ Strays(w')
      BY <1>6, <3>1, <3>2, <3>3 DEF Names, Strays, Unaddressed
    <3>6. Unread(w', want) /\ Asks(w') /\ Wanted(w', want)
      BY <1>4, <2>5, <2>6, <3>1, <3>2, <3>3 DEF Unread, Asks, Wanted
    <3> QED BY <3>4, <3>5, <3>6 DEF Chosen
  <2>10. CASE LinkRerun(w, w')
    <3>1. /\ w'.case = w.case /\ w'.reg = w.reg /\ w'.loading = w.loading /\ w'.asked = w.asked /\ w'.loc = w.loc
          /\ w'.claimed = w.loc /\ w'.ran = w.ran /\ w'.lost = w.lost /\ w'.dirty = w.dirty /\ w'.ask = w.ask /\ w'.run # w.run
      BY <1>2, <2>1, <2>10 DEF LinkRerun, AllBut, Fields, Reselects
    <3>2. Known(w') = Known(w) /\ ~Addressed(w') /\ ~Routed(w')
      BY <1>2, <1>3, <3>1 DEF Known, Addressed, UrlDeps, Routed
    <3>3. w.loc.case \notin Known(w) \/ w.loc.case = w.case
      BY <1>2, <2>1, <2>10 DEF LinkRerun
    <3>4. UrlRan(w') /\ Early(w') /\ Aims(w') /\ Rests(w') /\ Trails(w') /\ Parts(w')
      BY <1>4, <1>5, <2>2, <2>3, <3>1, <3>2 DEF UrlRan, Early, Aims, Rests, Trails, Parts
    <3>5. Names(w') /\ Strays(w')
      BY <1>6, <3>1, <3>2, <3>3 DEF Names, Strays, Unaddressed
    <3>6. Unread(w', want) /\ Asks(w') /\ Wanted(w', want)
      BY <1>4, <2>5, <2>6, <3>1, <3>2, <3>3 DEF Unread, Asks, Wanted
    <3> QED BY <3>4, <3>5, <3>6 DEF Chosen
  <2> QED BY <1>1, <1>2, <1>8, <2>7, <2>8, <2>9, <2>10 DEF LinkTaken, LinkMisread
<1> QED BY <1>1, <1>2, <1>7, <1>8 DEF LinkTaken, LinkMisread

\* A gesture that opens no other case: the selection and what has run for it stand.
LEMMA EditDraftChosen ==
  ASSUME Sane(w), NEW want, Chosen(w, want), EditDraft
  PROVE  Chosen(w', want)
<1>1. AllBut(w, w', {"dirty"}) /\ w'.dirty = TRUE /\ w.ask = None /\ w.case \in Known(w)
  BY DEF EditDraft, Modal, Authorized, Sane, Tab, Shaped, Fields, AllBut
<1>2. /\ w'.case = w.case /\ w'.run = w.run /\ w'.reg = w.reg /\ w'.loading = w.loading /\ w'.loc = w.loc /\ w'.asked = w.asked
      /\ w'.claimed = w.claimed /\ w'.timer = w.timer /\ w'.ran = w.ran /\ w'.ask = w.ask /\ w'.lost = w.lost /\ w'.net = w.net
  BY <1>1 DEF AllBut, Fields
<1>3. Known(w') = Known(w) /\ Here(w') = Here(w) /\ RouteDeps(w') = RouteDeps(w) /\ UrlDeps(w') = UrlDeps(w)
  BY <1>2 DEF Known, Here, RouteDeps, UrlDeps
<1>4. UrlRan(w') /\ Early(w') /\ Aims(w') /\ Rests(w') /\ Trails(w') /\ Parts(w') /\ Names(w') /\ Strays(w')
  BY <1>2, <1>3 DEF Chosen, UrlRan, Routed, Addressed, Unaddressed, Early, Aims, Rests, Trails, Parts, Names, Strays
<1>5. Unread(w', want) /\ Asks(w') /\ Wanted(w', want)
  BY <1>1, <1>2, <1>3 DEF Chosen, Unread, Asks, Wanted, Addressed
<1> QED BY <1>4, <1>5 DEF Chosen

\* The address bar is taken elsewhere, by a link, by history or by an answered question.
Led(t, u, l) ==
  /\ AllBut(t, u, {"loc", "ask", "dirty"}) /\ u.loc = l /\ u.ask = None
  /\ u.dirty \in {t.dirty, FALSE} /\ t.asked = t.loc /\ t.timer = None /\ ~t.loading
  /\ t.ran.route = RouteDeps(t) /\ Addressed(t)
LEMMA LedChosen ==
  ASSUME NEW t, Tab(t), NEW before, Chosen(t, before), NEW u, NEW l \in Link, Led(t, u, l),
         NEW want, want = IF l.case \in Case THEN l.case ELSE None
  PROVE  Chosen(u, want)
<1>1. /\ u.case = t.case /\ u.run = t.run /\ u.reg = t.reg /\ u.loading = t.loading /\ u.asked = t.asked
      /\ u.claimed = t.claimed /\ u.timer = None /\ u.ran = t.ran /\ u.lost = t.lost /\ u.net = t.net
      /\ u.loc = l /\ u.ask = None /\ ~u.loading
  BY DEF Led, AllBut, Fields
<1>2. Known(u) = Known(t) /\ Here(u) = Here(t) /\ RouteDeps(u) = RouteDeps(t) /\ UrlDeps(u) = UrlDeps(t)
  BY <1>1 DEF Known, Here, RouteDeps, UrlDeps
<1>3. Addressed(u) /\ u.ran.route = RouteDeps(u) /\ Known(u) \subseteq Case /\ None \notin Case
  BY <1>1, <1>2, WorkspaceAssumption DEF Led, Addressed, Tab, Typed
<1>4. UrlRan(u) /\ Early(u) /\ Aims(u) /\ Trails(u) /\ Parts(u) /\ Names(u) /\ Strays(u)
  BY <1>1, <1>2, <1>3 DEF Chosen, Led, UrlRan, Early, Aims, Trails, Parts, Names, Strays, Unaddressed
<1>5. Rests(u)
  BY <1>1 DEF Chosen, Led, Rests
<1>6. Unread(u, want) /\ Asks(u)
  BY <1>1, <1>2 DEF Chosen, Unread, Asks, Led
<1>7. Wanted(u, want)
  <2>1. want \in Known(u) => want = l.case
    BY <1>3
  <2>2. u.claimed.case \notin Known(u) \/ u.claimed.case = u.case
    BY <1>1, <1>2, <1>3 DEF Chosen, Names, Led
  <2> QED BY <1>1, <1>3, <2>1, <2>2 DEF Wanted
<1> QED BY <1>4, <1>5, <1>6, <1>7 DEF Chosen

LEMMA NavigateChosen ==
  ASSUME Sane(w), Chosen(w, wish), ~EarlyBack, NEW l \in Links, Navigate(l) \/ Back(l)
  PROVE  Chosen(w', wish')
<1>1. /\ w.asked = w.loc /\ w.timer = None /\ ~w.loading /\ w.ran.route = RouteDeps(w) /\ Addressed(w)
      /\ ~w.dirty => w.ask = None /\ l \in Link
  BY WorkspaceAssumption DEF Navigate, Back, LinkFollowed, Gesture, Settled, Addressed, Chosen, Asks
<1>2. CASE ~w.dirty
  <2>1. w' = [w EXCEPT !.loc = l] /\ wish' = IF l.case \in Case THEN l.case ELSE None
    BY <1>2 DEF Navigate, Back
  <2>2. AllBut(w, w', {"loc"}) /\ w'.loc = l
    BY <2>1 DEF Sane, Tab, Shaped, Fields, AllBut
  <2>3. Led(w, w', l)
    BY <1>1, <1>2, <2>2 DEF Led, AllBut, Fields
  <2> QED BY <1>1, <1>2, <2>1, <2>3, LedChosen, WorkspaceAssumption DEF Sane
<1>3. CASE w.dirty
  <2>1. w' = [w EXCEPT !.ask = [to |-> "link", case |-> l.case, run |-> l.run]] /\ wish' = wish
    BY <1>3 DEF Navigate, Back
  <2>2. AllBut(w, w', {"ask"}) /\ w'.ask = [to |-> "link", case |-> l.case, run |-> l.run]
    BY <2>1 DEF Sane, Tab, Shaped, Fields, AllBut
  <2>3. w'.ask \in Question /\ w'.ask.to = "link"
    BY <2>2, WorkspaceAssumption DEF Link, Question
  <2>4. /\ w'.case = w.case /\ w'.run = w.run /\ w'.reg = w.reg /\ w'.loading = w.loading /\ w'.loc = w.loc /\ w'.asked = w.asked
        /\ w'.claimed = w.claimed /\ w'.timer = w.timer /\ w'.ran = w.ran /\ w'.lost = w.lost /\ w'.dirty = w.dirty /\ w'.net = w.net
    BY <2>2 DEF AllBut, Fields
  <2>5. Known(w') = Known(w) /\ Here(w') = Here(w) /\ RouteDeps(w') = RouteDeps(w) /\ UrlDeps(w') = UrlDeps(w)
    BY <2>4 DEF Known, Here, RouteDeps, UrlDeps
  <2>6. UrlRan(w') /\ Early(w') /\ Aims(w') /\ Rests(w') /\ Trails(w') /\ Parts(w') /\ Names(w') /\ Strays(w')
    BY <2>4, <2>5 DEF Chosen, UrlRan, Routed, Addressed, Unaddressed, Early, Aims, Rests, Trails, Parts, Names, Strays
  <2>7. Unread(w', wish) /\ Asks(w') /\ Wanted(w', wish)
    BY <1>1, <1>3, <2>3, <2>4, <2>5, WorkspaceAssumption DEF Chosen, Unread, Asks, Wanted
  <2> QED BY <2>1, <2>6, <2>7 DEF Chosen
<1> QED BY <1>2, <1>3

\* A known case opened where the effects have run.
LEMMA CommittedChosen ==
  ASSUME Sane(w), NEW before, Chosen(w, before), Addressed(w), w.ran.route = RouteDeps(w), NEW c \in Known(w), c # w.case,
         NEW u, Tab(u), Committed(w, c, u), u.ask = None
  PROVE  Chosen(Flushed(u), c)
<1>1. /\ u.reg = w.reg /\ u.loading = w.loading /\ u.loc = w.loc /\ u.asked = w.asked /\ u.claimed = w.claimed /\ u.timer = w.timer
      /\ u.ran = w.ran /\ u.case = c /\ u.lost = None /\ u.ask = None /\ ~u.dirty
  BY DEF Committed, AllBut, Fields, Cleared
<1>2. Known(u) = Known(w) /\ c # None
  BY <1>1, WorkspaceAssumption DEF Known, Sane, Tab, Typed
<1>3. u.ran.route # RouteDeps(u)
  BY <1>1 DEF RouteDeps
<1>4. ~Addressed(u) /\ ~Unaddressed(u)
  BY <1>1, <1>2 DEF Addressed, UrlDeps, Unaddressed
<1>5. u.claimed # Here(u)
  <2>1. Here(u).case = c
    BY <1>1 DEF Here
  <2> QED BY <1>1, <2>1 DEF Chosen, Names
<1>6. Early(u) /\ Rests(u) /\ Names(u) /\ Strays(u)
  BY <1>1, <1>3, <1>4 DEF Chosen, Early, Rests, Names, Strays
<1>7. Unread(u, c)
  <2>1. \A p \in u.net : p.kind = "cases" => ~p.last
    BY DEF Committed, Aged, Later, Chosen, Unread
  <2> QED BY <2>1 DEF Unread
<1>8. Asks(u) /\ Wanted(u, c)
  BY <1>1, <1>2, <1>4 DEF Asks, Wanted
<1>9. Choosing(u, c)
  BY <1>3, <1>4, <1>5, <1>6, <1>7, <1>8 DEF Choosing
<1> QED BY <1>9, FlushedChosen

LEMMA PickCaseChosen ==
  ASSUME Sane(w), Chosen(w, wish), NEW c \in Case, PickCase(c)
  PROVE  Chosen(w', wish')
<1>1. Addressed(w) /\ w.ran.route = RouteDeps(w) /\ wish' = IF w.dirty THEN wish ELSE c
  BY DEF PickCase, Gesture, Settled, Addressed
<1>2. PICK u : /\ Tab(u) /\ w' = Flushed(u) /\ c \in Known(w) /\ c # w.case /\ w.ask = None
               /\ \/ w.dirty /\ AllBut(w, u, {"ask"}) /\ u.ask = [to |-> "case", case |-> c, run |-> None]
                  \/ ~w.dirty /\ Committed(w, c, u) /\ u.ask = None
  BY PickCaseFields
<1>3. CASE ~w.dirty
  BY <1>1, <1>2, <1>3, CommittedChosen
<1>4. CASE w.dirty
  <2>1. /\ u.case = w.case /\ u.run = w.run /\ u.reg = w.reg /\ u.loading = w.loading /\ u.loc = w.loc /\ u.asked = w.asked
        /\ u.claimed = w.claimed /\ u.timer = w.timer /\ u.ran = w.ran /\ u.lost = w.lost /\ u.dirty = w.dirty /\ u.net = w.net
    BY <1>2, <1>4 DEF AllBut, Fields
  <2>2. Known(u) = Known(w) /\ Here(u) = Here(w) /\ RouteDeps(u) = RouteDeps(w) /\ UrlDeps(u) = UrlDeps(w)
    BY <2>1 DEF Known, Here, RouteDeps, UrlDeps
  <2>3. u.ask # None /\ u.ask.to = "case" /\ u.ask.case = c
    <3>1. [to |-> "case", case |-> c, run |-> None] \in Question
      BY DEF Question, Selectable
    <3> QED BY <1>2, <1>4, <3>1, WorkspaceAssumption
  <2>4. Chosen(w, wish)
    OBVIOUS
  <2>5. UrlRan(u) /\ Early(u) /\ Aims(u) /\ Rests(u) /\ Trails(u) /\ Parts(u) /\ Names(u) /\ Strays(u)
    BY <2>1, <2>2, <2>4 DEF Chosen, UrlRan, Routed, Addressed, Unaddressed, Early, Aims, Rests, Trails, Parts, Names, Strays
  <2>6. Unread(u, wish) /\ Asks(u) /\ Wanted(u, wish)
    BY <1>2, <1>4, <2>1, <2>2, <2>3, <2>4 DEF Chosen, Unread, Asks, Wanted
  <2>7. Chosen(u, wish)
    BY <2>5, <2>6 DEF Chosen
  <2> QED BY <1>1, <1>2, <1>4, <2>7, ChosenIsChoosing, FlushedChosen
<1> QED BY <1>3, <1>4

LEMMA AnswerDiscardChosen ==
  ASSUME Sane(w), Chosen(w, wish), NEW yes, AnswerDiscard(yes)
  PROVE  Chosen(w', wish')
<1>1. /\ Addressed(w) /\ w.ran.route = RouteDeps(w) /\ w.ask # None /\ w.ask \in Question
      /\ wish' = IF yes /\ w.ask.case \in Case THEN w.ask.case ELSE None
  BY DEF AnswerDiscard, Settled, Addressed, Sane, Tab, Typed
<1>2. CASE ~yes /\ DiscardKept(w, w')
  <2>1. /\ w'.case = w.case /\ w'.run = w.run /\ w'.reg = w.reg /\ w'.loading = w.loading /\ w'.loc = w.loc /\ w'.asked = w.asked
        /\ w'.claimed = w.claimed /\ w'.timer = w.timer /\ w'.ran = w.ran /\ w'.lost = w.lost /\ w'.dirty = w.dirty /\ w'.net = w.net
        /\ w'.ask = None
    BY <1>2 DEF DiscardKept, AllBut, Fields
  <2>2. Known(w') = Known(w) /\ Here(w') = Here(w) /\ RouteDeps(w') = RouteDeps(w) /\ UrlDeps(w') = UrlDeps(w)
    BY <2>1 DEF Known, Here, RouteDeps, UrlDeps
  <2>3. UrlRan(w') /\ Early(w') /\ Aims(w') /\ Rests(w') /\ Trails(w') /\ Parts(w') /\ Names(w') /\ Strays(w')
    BY <2>1, <2>2 DEF Chosen, UrlRan, Routed, Addressed, Unaddressed, Early, Aims, Rests, Trails, Parts, Names, Strays
  <2>4. wish' = None /\ None \notin Known(w)
    BY <1>1, <1>2, WorkspaceAssumption DEF Sane, Tab, Typed
  <2>5. Unread(w', None) /\ Asks(w') /\ Wanted(w', None)
    BY <2>1, <2>2, <2>4 DEF Chosen, Unread, Asks, Wanted
  <2> QED BY <2>3, <2>4, <2>5 DEF Chosen
<1>3. CASE yes /\ Tab(w') /\ DiscardLinked(w, w')
  <2> DEFINE l == [case |-> w.ask.case, run |-> w.ask.run]
  <2>1. l \in Link /\ wish' = IF l.case \in Case THEN l.case ELSE None
    BY <1>1, <1>3 DEF Question, Link
  <2>2. Led(w, w', l)
    <3>1. w.ask.to = "link" /\ w.asked = w.loc /\ w.timer = None /\ ~w.loading
      BY <1>1, <1>3 DEF DiscardLinked, Chosen, Asks
    <3> QED BY <1>1, <1>3, <3>1 DEF DiscardLinked, Led, Sane, Tab, Typed
  <2> HIDE DEF l
  <2> QED BY <2>1, <2>2, LedChosen DEF Sane
<1>4. CASE yes /\ \E u : DiscardOpened(w, u, w')
  <2>1. PICK u : DiscardOpened(w, u, w')
    BY <1>4
  <2>2. w.ask.case \in Known(w) /\ w.ask.case # w.case
    BY <1>1, <2>1 DEF DiscardOpened, Chosen, Asks
  <2>3. wish' = w.ask.case
    BY <1>1, <1>4, <2>2 DEF Sane, Tab, Typed
  <2> QED BY <1>1, <2>1, <2>2, <2>3, CommittedChosen DEF DiscardOpened
<1> QED BY <1>2, <1>3, <1>4, AnswerDiscardFields
-----------------------------------------------------------------------------
\* Answers come while the tab stands at the address it claims.
AtRest(t, want) ==
  /\ Chosen(t, want) /\ t.asked = t.loc /\ t.timer = None /\ t.claimed = t.loc /\ t.ran.route = RouteDeps(t) /\ Addressed(t)
\* What an answer leaves of it.
Rested(t, u) ==
  /\ u.loc = t.loc /\ u.asked = t.asked /\ u.claimed = t.claimed /\ u.timer = t.timer /\ u.ran = t.ran
  /\ u.loading => t.loading
  /\ u.lost = t.lost \/ u.case # t.case \/ u.loading # t.loading
  /\ u.lost # None /\ t.lost = None => ~u.loading
  /\ Known(u) = Known(t) \/ u.case # t.case \/ t.loading
LEMMA RestedChosen ==
  ASSUME NEW t, Tab(t), NEW before, AtRest(t, before), NEW u, Rested(t, u), NEW want, Unread(u, want), Asks(u), Strays(u),
         want \in Known(u) /\ u.ask = None => u.case = want
  PROVE  Chosen(u, want)
<1>1. UrlRan(u)
  <2>1. Routed(u) => u.case = t.case /\ u.run = t.run /\ u.loading = t.loading
    BY DEF Routed, RouteDeps, AtRest, Rested
  <2> QED BY <2>1 DEF UrlRan, Rested, AtRest, Addressed, UrlDeps
<1>2. Addressed(u) => u.case = t.case /\ u.run = t.run
  BY DEF Addressed, UrlDeps, AtRest, Rested
<1>3. t.ran.url # <<>>
  BY DEF AtRest, Addressed, UrlDeps
<1>4. t.loading => t.claimed = Here(t)
  BY <1>3 DEF AtRest, Chosen, Early
<1>5. Here(t).case = t.case /\ (Addressed(u) => Here(u) = Here(t))
  BY <1>2 DEF Here
<1>6. Early(u)
  BY <1>3, <1>4, <1>5 DEF Early, Rested, AtRest, Chosen
<1>7. Names(u)
  BY <1>2, <1>4, <1>5 DEF Names, Rested, AtRest, Chosen
<1>8. Aims(u) /\ Rests(u) /\ Trails(u) /\ Parts(u) /\ Wanted(u, want)
  BY DEF Aims, Rests, Trails, Parts, Wanted, Rested, AtRest
<1> QED BY <1>1, <1>6, <1>7, <1>8 DEF Chosen
\* Most answers leave the case and what has been asked for alone.
Calm(t, u) ==
  /\ AllBut(t, u, {"run", "moved", "net", "status", "reg", "view", "shown", "busy", "failed", "action", "drawer", "intake"})
  /\ Known(u) = Known(t)
  /\ \A p \in u.net : p.kind = "cases" => \E q \in t.net : Later(q, p)
LEMMA CalmChosen ==
  ASSUME NEW t, Tab(t), NEW want, AtRest(t, want), NEW u, Calm(t, u)
  PROVE  Chosen(u, want)
<1>1. /\ u.case = t.case /\ u.loading = t.loading /\ u.loc = t.loc /\ u.asked = t.asked
      /\ u.claimed = t.claimed /\ u.timer = t.timer /\ u.ran = t.ran /\ u.ask = t.ask /\ u.lost = t.lost /\ u.dirty = t.dirty
      /\ Known(u) = Known(t)
  BY DEF Calm, AllBut, Fields
<1>2. Rested(t, u)
  BY <1>1 DEF Rested, AtRest, Chosen, Early
<1>3. Unread(u, want)
  BY <1>1 DEF Calm, Later, Unread, AtRest, Chosen
<1>4. Asks(u) /\ Strays(u)
  BY <1>1 DEF AtRest, Chosen, Asks, Strays, Unaddressed
<1>5. want \in Known(u) /\ u.ask = None => u.case = want
  BY <1>1 DEF AtRest, Chosen, Wanted
<1> QED BY <1>2, <1>3, <1>4, <1>5, RestedChosen
LEMMA CalmRun ==
  ASSUME NEW t, NEW of, NEW u, AgedWith(t.net, u.net, Call(t, "run", of, t.run))
  PROVE  \A p \in u.net : p.kind = "cases" => \E q \in t.net : Later(q, p)
<1>1. Call(t, "run", of, t.run).kind # "cases"
  BY DEF Call
<1> QED BY <1>1, AgedWithCases

LEMMA CasesAnsweredChosen ==
  ASSUME NEW t, Sane(t), ServerTyped, NEW want, AtRest(t, want), NEW q, NEW ok \in BOOLEAN,
         q.last /\ Matches(t, q) => t.loading /\ Known(t) = {} /\ want = None,
         \A p \in t.net : p.kind # "cases",
         NEW u, u = CasesAnswered(t, q, ok)
  PROVE  Chosen(u, want)
<1>1. CASE ~(q.last /\ Matches(t, q))
  <2>1. u = t
    BY <1>1 DEF CasesAnswered
  <2> QED BY <2>1 DEF AtRest
<1>2. CASE q.last /\ Matches(t, q) /\ ~ok
  <2>1. u = [t EXCEPT !.loading = FALSE]
    BY <1>2 DEF CasesAnswered
  <2>2. AllBut(t, u, {"loading"}) /\ u.loading = FALSE
    BY <2>1 DEF Sane, Tab, Shaped, Fields, AllBut
  <2>3. /\ u.case = t.case /\ u.reg = t.reg /\ u.loc = t.loc /\ u.asked = t.asked /\ u.net = t.net
        /\ u.claimed = t.claimed /\ u.timer = t.timer /\ u.ran = t.ran /\ u.ask = t.ask /\ u.lost = t.lost /\ u.dirty = t.dirty
    BY <2>2 DEF AllBut, Fields
  <2>4. Known(u) = Known(t)
    BY <2>3 DEF Known
  <2>5. Rested(t, u) /\ Unread(u, want) /\ Asks(u) /\ Strays(u)
    BY <2>2, <2>3, <2>4 DEF Rested, Unread, AtRest, Chosen, Asks, Strays, Unaddressed
  <2>6. want \in Known(u) /\ u.ask = None => u.case = want
    BY <2>3, <2>4 DEF AtRest, Chosen, Wanted
  <2> QED BY <2>5, <2>6, RestedChosen DEF Sane
<1>3. CASE q.last /\ Matches(t, q) /\ ok
  <2>1. RegisterRead(t, u)
    <3>1. u = CasesAnswered(t, q, TRUE) /\ Tab(t) /\ head \in [Case -> Run \cup {None}]
      BY <1>3 DEF Sane, ServerTyped
    <3> QED BY <1>3, <3>1, RegisterReadFields
  <2>2. t.loading /\ Known(t) = {} /\ want = None /\ ~t.dirty /\ t.ask = None /\ t.lost = None
    BY <1>3 DEF AtRest, Chosen, Asks, Early
  <2>3. Known(u) = Case /\ ~u.loading /\ \A p \in u.net : p.kind # "cases"
    <3>1. DOMAIN head = Case
      BY DEF ServerTyped
    <3> QED BY <2>1, <3>1 DEF RegisterRead, Known, Aged, Later
  <2>4. /\ u.loc = t.loc /\ u.asked = t.asked /\ u.claimed = t.claimed /\ u.timer = t.timer /\ u.ran = t.ran
        /\ u.ask = None /\ ~u.dirty
        /\ u.lost = IF Bad(t) THEN t.loc.case ELSE None
    <3>1. CASE RegisterKept(t, u)
      BY <2>2, <3>1 DEF RegisterKept, AllBut, Fields
    <3>2. CASE RegisterOpened(t, u)
      BY <2>2, <3>2 DEF RegisterOpened, AllBut, Fields, Cleared, AtRest
    <3> QED BY <2>1, <2>2, <3>1, <3>2 DEF RegisterRead, RegisterAsked
  <2>5. Rested(t, u) /\ Unread(u, want) /\ Asks(u)
    BY <2>2, <2>3, <2>4 DEF Rested, Unread, Asks
  <2>6. Strays(u)
    BY <2>3, <2>4, WorkspaceAssumption DEF Strays, Unaddressed, AtRest, Bad, Sane, Tab, Typed
  <2>7. want \notin Known(u)
    BY <2>2, <2>3, WorkspaceAssumption
  <2> QED BY <2>5, <2>6, <2>7, RestedChosen DEF Sane
<1> QED BY <1>1, <1>2, <1>3

LEMMA IntakeAnsweredChosen ==
  ASSUME NEW t, Sane(t), NEW before, AtRest(t, before), t.ask = None, NEW q, q.arg \in Run, q.kind = "intake", Fits(t, q),
         NEW u, u = WriteAnswered(t, q, TRUE)
  PROVE  Chosen(u, CaseOf[q.arg])
<1>1. IntakeAdopted(t, q, u) /\ Tab(t)
  BY IntakeAnsweredFields DEF Sane
<1>2. Unread(u, CaseOf[q.arg]) /\ u.case = CaseOf[q.arg]
  BY <1>1 DEF IntakeAdopted, Unread
<1>3. CASE CaseOf[q.arg] = t.case
  <2>1. /\ u.case = t.case /\ u.reg = t.reg /\ u.loading = t.loading /\ u.loc = t.loc /\ u.asked = t.asked
        /\ u.claimed = t.claimed /\ u.timer = t.timer /\ u.ran = t.ran /\ u.ask = t.ask /\ u.lost = t.lost /\ u.dirty = t.dirty
    BY <1>1, <1>3 DEF IntakeAdopted, IntakeHere, AllBut, Fields, Undisturbed
  <2>2. Known(u) = Known(t)
    BY <2>1 DEF Known
  <2>3. Rested(t, u) /\ Asks(u) /\ Strays(u)
    BY <2>1, <2>2 DEF Rested, AtRest, Chosen, Asks, Strays, Unaddressed
  <2> QED BY <1>1, <1>2, <2>3, RestedChosen
<1>4. CASE CaseOf[q.arg] # t.case
  <2>1. /\ u.loading = t.loading /\ u.loc = t.loc /\ u.asked = t.asked /\ u.claimed = t.claimed /\ u.timer = t.timer
        /\ u.ran = t.ran /\ u.ask = t.ask /\ u.lost = None /\ ~u.dirty
    BY <1>1, <1>4 DEF IntakeAdopted, IntakeElsewhere, AllBut, Fields, Cleared
  <2>2. Rested(t, u) /\ Asks(u) /\ Strays(u)
    BY <1>2, <1>4, <2>1 DEF Rested, Asks, Strays, Unaddressed
  <2> QED BY <1>1, <1>2, <2>2, RestedChosen
<1> QED BY <1>3, <1>4

\* The other answers are calm.
LEMMA CaseAnsweredCalm ==
  ASSUME NEW t, Sane(t), ServerTyped, NEW q, q.case \in Case, NEW ok, NEW u, u = CaseAnswered(t, q, ok)
  PROVE  Calm(t, u)
<1>1. /\ AllBut(t, u, {"view", "reg", "status", "action", "net", "busy", "failed"}) /\ Known(u) = Known(t)
      /\ \/ u.net = t.net /\ u.failed = t.failed
         \/ t.run # None /\ ~u.failed /\ Asked(u) /\ \E of : AgedWith(t.net, u.net, Call(t, "run", of, t.run))
  BY CaseAnsweredFields DEF Sane, ServerTyped
<1>2. \A p \in u.net : p.kind = "cases" => \E x \in t.net : Later(x, p)
  <2>1. CASE u.net = t.net
    BY <2>1 DEF Later
  <2>2. CASE \E of : AgedWith(t.net, u.net, Call(t, "run", of, t.run))
    BY <2>2, CalmRun
  <2> QED BY <1>1, <2>1, <2>2
<1> QED BY <1>1, <1>2 DEF Calm, AllBut

LEMMA RunAnsweredCalm ==
  ASSUME NEW t, Sane(t), NEW q, q.arg \in Run, q.saw \in {"live", "ended"}, NEW ok, NEW u, u = RunAnswered(t, q, ok)
  PROVE  Calm(t, u)
<1>1. /\ Tab(u)
      /\ \/ ~(q.last /\ Matches(t, q)) /\ AllBut(t, u, {"action"})
         \/ q.last /\ Matches(t, q) /\ AllBut(t, u, {"failed", "busy", "action"}) /\ u.failed
         \/ /\ q.last /\ Matches(t, q) /\ CaseOf[q.arg] # t.case
            /\ AllBut(t, u, {"shown", "busy", "failed", "run", "moved", "net", "status", "action"})
            /\ u.shown = None /\ u.failed /\ u.run = IF t.run = q.arg THEN None ELSE t.run
            /\ Aged(t.net, u.net) /\ (Distinct(t.net) => Distinct(u.net))
         \/ /\ q.last /\ Matches(t, q) /\ CaseOf[q.arg] = t.case
            /\ AllBut(t, u, {"shown", "busy", "action"}) /\ u.shown = [id |-> q.arg, ended |-> q.saw]
  BY RunAnsweredFields DEF Sane
<1>2. AllBut(t, u, {"shown", "busy", "failed", "run", "moved", "net", "status", "action"})
  BY <1>1 DEF AllBut
<1>3. u.net = t.net \/ Aged(t.net, u.net)
  BY <1>1 DEF AllBut, Fields
<1>4. \A p \in u.net : p.kind = "cases" => \E x \in t.net : Later(x, p)
  BY <1>3 DEF Aged, Later
<1>5. Known(u) = Known(t)
  BY <1>2 DEF AllBut, Fields, Known
<1> QED BY <1>2, <1>4, <1>5 DEF Calm, AllBut

LEMMA EvidenceAnsweredCalm ==
  ASSUME NEW t, Sane(t), NEW q, q.case \in Case, NEW ok, NEW u, u = EvidenceAnswered(t, q, ok)
  PROVE  Calm(t, u)
<1>1. AllBut(t, u, {"drawer"})
  BY EvidenceAnsweredFields DEF Sane
<1>2. Known(u) = Known(t) /\ u.net = t.net
  BY <1>1 DEF AllBut, Fields, Known
<1> QED BY <1>1, <1>2 DEF Calm, AllBut, Later

LEMMA WriteAnsweredCalm ==
  ASSUME NEW t, Sane(t), NEW q, q \in Request, q.kind \in {"start", "intake", "upload", "resume", "accept"}, CallOK(q),
         NEW ok \in BOOLEAN, ~(ok /\ q.kind = "intake" /\ Fits(t, q)), NEW u, u = WriteAnswered(t, q, ok)
  PROVE  Calm(t, u)
<1>0. Tab(t)
  BY DEF Sane
<1>1. CASE ~Fits(t, q)
  <2>1. u = t
    BY <1>1 DEF WriteAnswered
  <2> QED BY <2>1 DEF Calm, AllBut, Later
<1>2. CASE Fits(t, q) /\ ~ok
  <2>1. u = Release(t, q)
    BY <1>2 DEF WriteAnswered
  <2>2. AllBut(t, u, {"action"})
    BY <1>0, <2>1, ReleaseFields
  <2>3. Known(u) = Known(t) /\ u.net = t.net
    BY <2>2 DEF AllBut, Fields, Known
  <2> QED BY <2>2, <2>3 DEF Calm, AllBut, Later
<1>3. CASE Fits(t, q) /\ ok /\ q.kind = "start"
  <2>1. u = WriteAnswered(t, q, TRUE) /\ q.arg \in Run
    BY <1>3, WorkspaceAssumption DEF CallOK
  <2>2. AllBut(t, u, {"shown", "action", "run", "moved", "net", "status"}) /\ Aged(t.net, u.net)
    BY <1>0, <1>3, <2>1, StartAnsweredFields
  <2>3. Known(u) = Known(t)
    BY <2>2 DEF AllBut, Fields, Known
  <2> QED BY <2>2, <2>3 DEF Calm, AllBut, Aged, Later
<1>4. CASE Fits(t, q) /\ ok /\ q.kind = "resume"
  <2>1. u = WriteAnswered(t, q, TRUE) /\ q.run \in Run
    BY <1>4 DEF CallOK
  <2>2. RunResumed(t, q, u)
    BY <1>0, <1>4, <2>1, ResumeAnsweredFields
  <2>3. AllBut(t, u, {"shown", "net", "busy", "failed"}) /\ \E of : AgedWith(t.net, u.net, Call(t, "run", of, t.run))
    BY <2>2 DEF RunResumed
  <2>4. Known(u) = Known(t) /\ \A p \in u.net : p.kind = "cases" => \E x \in t.net : Later(x, p)
    BY <2>3, CalmRun DEF AllBut, Fields, Known
  <2> QED BY <2>3, <2>4 DEF Calm, AllBut
<1>5. CASE Fits(t, q) /\ ok /\ q.kind \in {"upload", "accept"}
  <2>1. u = RefreshCase(t, q.kind) /\ q.kind \in Kinds \cup {"none"}
    BY <1>5 DEF WriteAnswered, Kinds
  <2>2. AllBut(t, u, {"net"}) /\ AgedWith(t.net, u.net, Call(t, "case", q.kind, None))
    BY <1>0, <2>1, RefreshCaseFields
  <2>3. Call(t, "case", q.kind, None).kind # "cases"
    BY DEF Call
  <2>4. Known(u) = Known(t) /\ \A p \in u.net : p.kind = "cases" => \E x \in t.net : Later(x, p)
    BY <2>2, <2>3, AgedWithCases DEF AllBut, Fields, Known
  <2> QED BY <2>2, <2>4 DEF Calm, AllBut
<1> QED BY <1>1, <1>2, <1>3, <1>4, <1>5

\* An answer is taken where links have been followed.
AnswerOf(t, q, ok, u) ==
  /\ q.kind = "cases" => u = CasesAnswered(t, q, ok)
  /\ q.kind = "case" => u = CaseAnswered(t, q, ok)
  /\ q.kind = "run" => u = RunAnswered(t, q, ok) /\ q.saw # "unread"
  /\ q.kind = "evidence" => u = EvidenceAnswered(t, q, ok)
  /\ q.kind \notin {"cases", "case", "run", "evidence"} => u = WriteAnswered(t, q, ok)
Stands(t) ==
  /\ t.case = w.case /\ t.run = w.run /\ t.reg = w.reg /\ t.loading = w.loading /\ t.loc = w.loc /\ t.asked = w.asked
  /\ t.claimed = w.claimed /\ t.timer = w.timer /\ t.ran = w.ran /\ t.ask = w.ask /\ t.lost = w.lost /\ t.dirty = w.dirty
  /\ t.shown = w.shown /\ t.failed = w.failed /\ t.stream = w.stream
LEMMA AnswerTaken ==
  ASSUME ~RouteRaces, Sane(w), ServerTyped, Chosen(w, wish), NEW q \in w.net, NEW ok \in BOOLEAN, Answer(q, ok),
         NEW t, t = [w EXCEPT !.net = @ \ {q}]
  PROVE  /\ Taken(t, q) /\ Sane(t) /\ CallOK(q) /\ q \in Request /\ AtRest(t, wish)
         /\ AnswerOf(t, q, ok, w') /\ Stands(t) /\ t.net = w.net \ {q}
         /\ wish' = IF ok /\ q.kind = "intake" /\ Fits(t, q) THEN CaseOf[q.arg] ELSE wish
         /\ ~AskRaces /\ q.kind = "intake" => t.ask = None
         /\ q.kind = "cases" => \A p \in t.net : p.kind # "cases"
         /\ q.kind = "cases" /\ q.last => t.loading /\ Known(t) = {} /\ wish = None
<1>1. /\ Taken(t, q) /\ Sane(t) /\ CallOK(q) /\ q \in Request
  BY TakenFields
<1>2. AnswerOf(t, q, ok, w')
  BY DEF Answer, Served, AnswerOf
<1>3. /\ wish' = IF ok /\ q.kind = "intake" /\ Fits(w, q) THEN CaseOf[q.arg] ELSE wish
      /\ w.asked = w.loc /\ w.timer = None /\ w.ran.route = RouteDeps(w) /\ (~AskRaces /\ q.kind = "intake" => w.ask = None)
  BY DEF Answer, LinkFollowed
<1>4. Stands(t) /\ t.net = w.net \ {q}
  BY <1>1 DEF Stands, Taken, AllBut, Fields
<1>5. AtRest(t, wish)
  <2>1. Steady(w, t)
    BY <1>4 DEF Stands, Steady, Later
  <2>2. Chosen(t, wish)
    BY <2>1, SteadyChosen
  <2>3. t.asked = t.loc /\ t.timer = None /\ t.ran.route = RouteDeps(t)
    BY <1>3, <1>4 DEF Stands, RouteDeps
  <2>4. Addressed(t)
    BY <2>2, <2>3 DEF Chosen, UrlRan, Routed, RouteDeps
  <2> QED BY <2>2, <2>3, <2>4 DEF AtRest, Chosen, Rests
<1>6. Fits(w, q) <=> Fits(t, q)
  BY <1>4 DEF Stands, Fits, Matches
<1>7. q.kind = "cases" => \A p \in t.net : p.kind # "cases"
  BY <1>4 DEF Sane, Distinct
<1>8. q.kind = "cases" /\ q.last => t.loading /\ Known(t) = {} /\ wish = None
  BY <1>4 DEF Stands, Chosen, Unread, Known
<1>9. ~AskRaces /\ q.kind = "intake" => t.ask = None
  BY <1>3, <1>4 DEF Stands
<1> QED BY <1>1, <1>2, <1>3, <1>4, <1>5, <1>6, <1>7, <1>8, <1>9

LEMMA AnswerChosen ==
  ASSUME ~RouteRaces, ~AskRaces, Sane(w), ServerTyped, Chosen(w, wish), NEW q \in w.net, NEW ok \in BOOLEAN, Answer(q, ok)
  PROVE  Chosen(w', wish')
<1> DEFINE t == [w EXCEPT !.net = @ \ {q}]
<1> HIDE DEF t
<1>1. /\ Sane(t) /\ CallOK(q) /\ q \in Request /\ AtRest(t, wish)
      /\ AnswerOf(t, q, ok, w')
      /\ wish' = IF ok /\ q.kind = "intake" /\ Fits(t, q) THEN CaseOf[q.arg] ELSE wish
      /\ q.kind = "intake" => t.ask = None
      /\ q.kind = "cases" => \A p \in t.net : p.kind # "cases"
      /\ q.kind = "cases" /\ q.last => t.loading /\ Known(t) = {} /\ wish = None
  BY AnswerTaken DEF t
<1>2. /\ q.kind = "cases" => w' = CasesAnswered(t, q, ok)
      /\ q.kind = "case" => w' = CaseAnswered(t, q, ok)
      /\ q.kind = "run" => w' = RunAnswered(t, q, ok) /\ q.saw # "unread"
      /\ q.kind = "evidence" => w' = EvidenceAnswered(t, q, ok)
      /\ q.kind \notin {"cases", "case", "run", "evidence"} => w' = WriteAnswered(t, q, ok)
  BY <1>1 DEF AnswerOf
<1>3. CASE q.kind = "cases"
  BY <1>1, <1>2, <1>3, CasesAnsweredChosen
<1>4. CASE ok /\ q.kind = "intake" /\ Fits(t, q)
  <2>1. w' = WriteAnswered(t, q, TRUE) /\ q.arg \in Run
    BY <1>1, <1>2, <1>4, WorkspaceAssumption DEF CallOK
  <2> QED BY <1>1, <1>4, <2>1, IntakeAnsweredChosen
<1>5. CASE q.kind # "cases" /\ ~(ok /\ q.kind = "intake" /\ Fits(t, q))
  <2>1. Calm(t, w')
    <3>1. CASE q.kind = "case"
      BY <1>1, <1>2, <3>1, CaseAnsweredCalm DEF CallOK
    <3>2. CASE q.kind = "run"
      <4>1. q.arg \in Run /\ q.saw \in {"live", "ended"}
        BY <1>1, <1>2, <3>2 DEF CallOK, Request
      <4> QED BY <1>1, <1>2, <3>2, <4>1, RunAnsweredCalm
    <3>3. CASE q.kind = "evidence"
      BY <1>1, <1>2, <3>3, EvidenceAnsweredCalm DEF CallOK
    <3>4. CASE q.kind \in {"start", "intake", "upload", "resume", "accept"}
      BY <1>1, <1>2, <1>5, <3>4, WriteAnsweredCalm
    <3> QED BY <1>1, <1>5, <3>1, <3>2, <3>3, <3>4 DEF Request, Kinds
  <2> QED BY <1>1, <1>5, <2>1, CalmChosen DEF Sane
<1> QED BY <1>3, <1>4, <1>5

LEMMA NextChosen ==
  ASSUME ~RouteRaces, ~AskRaces, ~EarlyBack, Sane(w), ServerTyped, Fitting(w), Chosen(w, wish), Next
  PROVE  Chosen(w', wish')
<1>1. CASE Effects
  BY <1>1, EffectsChosen DEF Effects
<1>2. CASE RouteFires
  BY <1>2, RouteFiresChosen DEF RouteFires
<1>3. CASE SearchFollows
  BY <1>3, SearchFollowsChosen DEF SearchFollows
<1>4. CASE \E q \in w.net, ok \in BOOLEAN : Answer(q, ok)
  BY <1>4, AnswerChosen
<1>5. CASE \E l \in Links : Navigate(l) \/ Back(l)
  BY <1>5, NavigateChosen
<1>6. CASE \E c \in Case : PickCase(c)
  BY <1>6, PickCaseChosen
<1>7. CASE \E yes \in BOOLEAN : AnswerDiscard(yes)
  BY <1>7, AnswerDiscardChosen
<1>8. CASE EditDraft
  BY <1>8, EditDraftChosen DEF EditDraft
<1>9. CASE \/ StreamOpens \/ StreamDrops \/ OpenEvidence \/ OpenAccept \/ ConfirmAccept
           \/ \E q \in w.net : Serve(q)
           \/ \E r \in Run : RunEnds(r) \/ \E k \in Writes : Post(k, r)
  <2>1. Steady(w, w') /\ wish' = wish
    BY <1>9, SteadySteps
  <2> QED BY <2>1, SteadyChosen
<1> QED BY <1>1, <1>2, <1>3, <1>4, <1>5, <1>6, <1>7, <1>8, <1>9 DEF Next

\* While links are followed and questions settled first, the selection is the analyst's.
TabChosen == part = "tab" => Chosen(w, wish)
LEMMA TabChosenKept ==
  ASSUME ~RouteRaces, ~AskRaces, ~EarlyBack
  PROVE  MCSpec => []TabChosen
<1>1. MCInit => TabChosen
  <2>1. ASSUME Init PROVE Chosen(w, wish)
    BY <2>1, InitFields, InitChosen
  <2> QED BY <2>1 DEF MCInit, TabChosen
<1>2. TabSane /\ TabChosen /\ [MCNext]_<<part, vars, reportVars>> => TabChosen'
  <2> SUFFICES ASSUME TabSane, TabChosen, [MCNext]_<<part, vars, reportVars>> PROVE TabChosen'
    OBVIOUS
  <2>1. CASE part = "tab" /\ Next /\ UNCHANGED <<part, reportVars>>
    BY <2>1, NextChosen DEF TabSane, TabChosen
  <2>2. CASE part = "report" /\ part' = part
    BY <2>2 DEF TabChosen
  <2>3. CASE UNCHANGED <<part, vars>>
    BY <2>3 DEF TabChosen, vars
  <2> QED BY <2>1, <2>2, <2>3 DEF MCNext
<1> QED BY <1>1, <1>2, TabSaneKept, PTL DEF MCSpec

\* When nothing is left to happen, the selected case is the one the analyst asked for last,
\* provided no answer overtakes a link, no intake a question about the draft, and Back is
\* not pressed before the register has loaded.
THEOREM SelectionStays ==
  ASSUME ~RouteRaces, ~AskRaces, ~EarlyBack
  PROVE  MCSpec => [](part = "tab" => SelectionSticks)
<1>1. TabChosen => (part = "tab" => SelectionSticks)
  <2> SUFFICES ASSUME Chosen(w, wish), Quiet, wish \in Known(w) PROVE w.case = wish
    BY DEF TabChosen, SelectionSticks
  <2>1. Addressed(w) /\ w.claimed = w.loc
    BY DEF Quiet, Settled, Addressed, Chosen, Rests
  <2> QED BY <2>1 DEF Chosen, Wanted, Quiet
<1> QED BY <1>1, TabChosenKept, PTL
-----------------------------------------------------------------------------
(* The end of a run: a run is selected only with the one case it belongs to, as far as the     *)
(* links and the server's cases say.                                                           *)
OneHome(h) ==
  /\ h \in [Run -> Selectable]
  /\ \A c \in Case : h[Fresh[c]] = c /\ (Opening[c] # None => h[Opening[c]] = c)
  /\ \A l \in Links : l.run # None => h[l.run] = l.case
Home == CHOOSE h : OneHome(h)
LEMMA HomeIsOne == ASSUME \E h : OneHome(h) PROVE OneHome(Home)
BY DEF Home

\* The selected run belongs to the selected case, or to none the tab knows; so does a link.
AtHome(c, r) == r = None \/ Home[r] = c
Homed(t) ==
  /\ AtHome(t.case, t.run) \/ Home[t.run] \notin Known(t)
  /\ \A c \in Known(t) : AtHome(c, t.reg[c])
  /\ t.loc # t.claimed => AtHome(t.loc.case, t.loc.run) \/ t.loc = Here(t)
  /\ t.ask # None /\ t.ask.to = "link" => AtHome(t.ask.case, t.ask.run)
  /\ (\E q \in t.net : q.kind = "cases" /\ q.last) => AtHome(t.case, t.run)
\* Where the route effect has run, the run effect has.
RunRan(t) == Routed(t) => t.ran.run = RunDeps(t)

\* The stream of the selected run is open.
Watched(t) == t.stream.run = t.run /\ t.stream.open
\* A selected run is on show, being read, or has failed to be read.
Loads(t) == Authorized(t) /\ t.run # None /\ ~t.failed /\ ~Due(t) /\ t.ran.run = RunDeps(t) => t.shown # None
\* A read that saw a run live while it has ended since is followed by another.
Hears(t, d) ==
  Authorized(t) /\ t.run \in d /\ (\E q \in t.net : q.kind = "run" /\ q.last /\ Matches(t, q) /\ q.saw = "live") => ~Watched(t)
\* An ended run is on show as live only while it is read again or its stream is not open.
Ends(t, d) ==
  Authorized(t) /\ t.run \in d /\ t.shown # None /\ t.shown.ended = "live" /\ ~t.failed /\ ~Due(t) /\ t.ran.run = RunDeps(t) => ~Watched(t)
\* The stream follows the run that was on show, live, when the stream effect ran.
LiveDeps(s) == s[2] # None /\ s[3] # None /\ s[3].id = s[2] /\ CaseOf[s[3].id] = s[1] /\ s[3].ended = "live"
Streams(t) == t.ran.stream # <<>> => t.stream.run = IF LiveDeps(t.ran.stream) THEN t.ran.stream[2] ELSE None
Seen(t, d) == Loads(t) /\ Hears(t, d) /\ Ends(t, d) /\ Streams(t)

LEMMA StreamsLive ==
  ASSUME NEW t
  PROVE  LiveDeps(StreamDeps(t)) <=> Live(t)
BY DEF LiveDeps, StreamDeps, Live

\* What stands still for the run on show.
Still(t, u) ==
  /\ u.case = t.case /\ u.run = t.run /\ Known(u) = Known(t) /\ u.shown = t.shown /\ (t.failed => u.failed)
  /\ u.ran.run = t.ran.run /\ u.ran.stream = t.ran.stream /\ u.stream = t.stream
  /\ Due(t) => Due(u)
  /\ \A p \in u.net : p.kind = "run" => \E q \in t.net : Later(q, p)
LEMMA StillSeen ==
  ASSUME NEW t, NEW u, NEW d, Seen(t, d), Still(t, u)
  PROVE  Seen(u, d)
<1>1. RunDeps(u) = RunDeps(t) /\ (Authorized(u) <=> Authorized(t)) /\ (Watched(u) <=> Watched(t))
  BY DEF Still, RunDeps, Authorized, Watched
<1>2. Loads(u) /\ Ends(u, d) /\ Streams(u)
  BY <1>1 DEF Still, Seen, Loads, Ends, Streams
<1>3. Hears(u, d)
  BY <1>1 DEF Still, Seen, Hears, Later, Matches
<1> QED BY <1>2, <1>3 DEF Seen
\* A run that is being read again is seen.
LEMMA AskedSeen ==
  ASSUME NEW u, NEW d, Asked(u), Streams(u)
  PROVE  Seen(u, d)
BY DEF Asked, Seen, Loads, Hears, Ends, Matches

LEMMA FlushedSeen ==
  ASSUME NEW t, Tab(t), NEW d, d \subseteq Run, NEW f, f = Flushed(t), Streams(t),
         Authorized(t) /\ t.run # None /\ t.ran.run = RunDeps(t) => Loads(t) /\ Hears(t, d) /\ Ends(t, d)
  PROVE  Seen(f, d)
<1>1. /\ Tab(f) /\ AllBut(t, f, Flushes)
      /\ f.ran.run = RunDeps(f) /\ f.ran.stream = StreamDeps(f)
      /\ \A p \in f.net : Started(t, p) \/ \E q \in t.net : Later(q, p)
      /\ IF t.ran.run # RunDeps(t) /\ t.run # None /\ Authorized(t)
         THEN ~f.failed /\ Asked(f)
         ELSE f.failed = t.failed /\ (Due(t) => Due(f))
      /\ f.stream = IF t.ran.stream = StreamDeps(t) THEN t.stream ELSE Followed(t)
  BY FlushedFields
<1>2. f.case = t.case /\ f.run = t.run /\ f.reg = t.reg /\ f.shown = t.shown
  BY <1>1 DEF AllBut, Flushes, Fields
<1>3. /\ StreamDeps(f) = StreamDeps(t) /\ RunDeps(f) = RunDeps(t) /\ (Authorized(f) <=> Authorized(t)) /\ StreamDeps(t) # <<>>
      /\ StreamDeps(t)[2] = t.run
  BY <1>2 DEF StreamDeps, RunDeps, Authorized, Known
<1>4. Streams(f)
  <2>1. CASE t.ran.stream = StreamDeps(t)
    BY <1>1, <1>3, <2>1 DEF Streams
  <2>2. CASE t.ran.stream # StreamDeps(t)
    <3>1. f.stream.run = IF LiveDeps(f.ran.stream) THEN t.run ELSE None
      BY <1>1, <1>3, <2>2, StreamsLive DEF Followed
    <3> QED BY <1>1, <1>3, <3>1 DEF Streams
  <2> QED BY <2>1, <2>2
<1>5. CASE t.ran.run # RunDeps(t) /\ t.run # None /\ Authorized(t)
  BY <1>1, <1>4, <1>5, AskedSeen
<1>6. CASE ~Authorized(t) \/ t.run = None
  <2>1. None \notin d
    BY WorkspaceAssumption
  <2> QED BY <1>2, <1>3, <1>4, <1>6, <2>1 DEF Seen, Loads, Hears, Ends
<1>7. CASE Authorized(t) /\ t.run # None /\ t.ran.run = RunDeps(t)
  <2>1. f.failed = t.failed /\ (Due(t) => Due(f)) /\ Loads(t) /\ Hears(t, d) /\ Ends(t, d)
    BY <1>1, <1>7
  <2>2. Watched(f) => Watched(t)
    BY <1>1, <1>2 DEF Watched, Followed
  <2>3. \A p \in f.net : p.kind = "run" => \E q \in t.net : Later(q, p)
    BY <1>1, <1>7 DEF Started
  <2>4. Loads(f) /\ Ends(f, d)
    BY <1>2, <1>3, <1>7, <2>1, <2>2 DEF Loads, Ends
  <2>5. Hears(f, d)
    BY <1>2, <1>3, <2>1, <2>2, <2>3 DEF Hears, Later, Matches
  <2> QED BY <1>4, <2>4, <2>5 DEF Seen
<1> QED BY <1>5, <1>6, <1>7

\* The effect that reads the run has run for another one where the case changes.
LEMMA Foreign ==
  ASSUME Homed(w), w.ran.run = RunDeps(w), NEW c \in Known(w), c # w.case, NEW r, r # None, Home[r] = c
  PROVE  w.ran.run # <<TRUE, r>>
<1>1. ASSUME w.ran.run = <<TRUE, r>> PROVE FALSE
  <2>1. w.run = r
    BY <1>1 DEF RunDeps
  <2> QED BY <2>1 DEF Homed, AtHome
<1> QED BY <1>1
-----------------------------------------------------------------------------
(* The steps other than answers keep the run on show seen. *)
LEMMA InitSeen ==
  ASSUME NEW l \in Links, NEW u, u = Sent(Opened(l), "cases", "none", None), NEW d
  PROVE  Seen(u, d)
<1>1. AllBut(Opened(l), u, {"net"}) /\ u.net = {Call(Opened(l), "cases", "none", None)}
  BY OpenedFields
<1>2. u.ran = Opened(l).ran /\ u.stream = Opened(l).stream /\ u.shown = Opened(l).shown /\ u.reg = Opened(l).reg
  BY <1>1 DEF AllBut, Fields
<1>3. Opened(l).ran.stream = <<>> /\ Opened(l).reg = NoCases
  BY DEF Opened
<1>4. ~Authorized(u) /\ u.ran.stream = <<>>
  BY <1>2, <1>3 DEF Authorized, Known, NoCases
<1> QED BY <1>4 DEF Seen, Loads, Hears, Ends, Streams

LEMMA EffectsSeen ==
  ASSUME Sane(w), ServerTyped, Seen(w, done), Effects
  PROVE  Seen(w', done')
<1>1. w' = Flushed(w) /\ Tab(w) /\ done' = done /\ done \subseteq Run
  BY DEF Effects, Sane, ServerTyped
<1>2. Streams(w) /\ Loads(w) /\ Hears(w, done) /\ Ends(w, done)
  BY DEF Seen
<1> QED BY <1>1, <1>2, FlushedSeen

LEMMA StreamOpensSeen ==
  ASSUME Sane(w), Seen(w, done), StreamOpens
  PROVE  Seen(w', done')
<1>1. done' = done /\ w.stream.run # None
  BY DEF StreamOpens
<1>2. CASE Reread(w, w') /\ AllBut(w, w', {"net", "busy", "failed", "stream"}) /\ w'.stream.run = w.stream.run
  <2>1. w'.ran = w.ran
    BY <1>2 DEF AllBut, Fields
  <2>2. Streams(w')
    BY <1>2, <2>1 DEF Streams, Seen
  <2> QED BY <1>2, <2>2, AskedSeen DEF Reread
<1>3. CASE ~Follows(w) /\ AllBut(w, w', {"stream"}) /\ w'.stream.run = w.stream.run
  <2>1. /\ w'.case = w.case /\ w'.run = w.run /\ w'.reg = w.reg /\ w'.shown = w.shown /\ w'.failed = w.failed
        /\ w'.ran = w.ran /\ w'.net = w.net
    BY <1>3 DEF AllBut, Fields
  <2>2. (Authorized(w') <=> Authorized(w)) /\ (Due(w') <=> Due(w)) /\ RunDeps(w') = RunDeps(w)
    BY <2>1 DEF Authorized, Known, Due, Matches, RunDeps
  <2>3. Authorized(w) => ~Watched(w')
    BY <1>1, <1>3, <2>1 DEF Follows, Watched
  <2> QED BY <1>3, <2>1, <2>2, <2>3 DEF Seen, Loads, Hears, Ends, Streams
<1> QED BY <1>2, <1>3, StreamOpensFields

LEMMA StreamDropsSeen ==
  ASSUME Sane(w), Seen(w, done), StreamDrops
  PROVE  Seen(w', done')
<1>1. done' = done
  BY DEF StreamDrops
<1>2. AllBut(w, w', {"stream"}) /\ w'.stream.run = w.stream.run /\ ~w'.stream.open
  BY StreamDropsFields
<1>3. /\ w'.case = w.case /\ w'.run = w.run /\ w'.reg = w.reg /\ w'.shown = w.shown /\ w'.failed = w.failed
      /\ w'.ran = w.ran /\ w'.net = w.net
  BY <1>2 DEF AllBut, Fields
<1>4. (Authorized(w') <=> Authorized(w)) /\ (Due(w') <=> Due(w)) /\ RunDeps(w') = RunDeps(w) /\ ~Watched(w')
  BY <1>2, <1>3 DEF Authorized, Known, Due, Matches, RunDeps, Watched
<1> QED BY <1>1, <1>2, <1>3, <1>4 DEF Seen, Loads, Hears, Ends, Streams

LEMMA RunEndsSeen ==
  ASSUME Sane(w), Seen(w, done), NEW r \in Run, RunEnds(r)
  PROVE  Seen(w', done')
<1>1. CASE Reread(w, w') /\ AllBut(w, w', {"net", "busy", "failed"})
  <2>1. w'.ran = w.ran /\ w'.stream = w.stream
    BY <1>1 DEF AllBut, Fields
  <2>2. Streams(w')
    BY <2>1 DEF Streams, Seen
  <2> QED BY <1>1, <2>2, AskedSeen DEF Reread
<1>2. CASE ~(w.stream.run = r /\ w.stream.open /\ Follows(w)) /\ w' = w
  <2>1. r = w.run /\ r # None
    BY WorkspaceAssumption DEF RunEnds
  <2>2. Authorized(w) => ~Watched(w)
    BY <1>2, <2>1 DEF Follows, Watched
  <2> QED BY <1>2, <2>2 DEF Seen, Hears, Ends
<1> QED BY <1>1, <1>2, RunEndsFields

\* A run that has ended is read as ended.
LEMMA ServeSeen ==
  ASSUME Sane(w), Seen(w, done), NEW q \in w.net, Serve(q)
  PROVE  Seen(w', done')
<1>1. done' = done
  BY DEF Serve
<1>2. PICK s \in Request : /\ AllBut(w, w', {"net"}) /\ w'.net = (w.net \ {q}) \cup {s} /\ q.kind = "run"
                           /\ s.kind = q.kind /\ s.case = q.case /\ s.run = q.run /\ s.fresh = q.fresh /\ s.last = q.last
                           /\ s.of = q.of /\ s.arg = q.arg /\ s.saw = (IF q.arg \in done THEN "ended" ELSE "live")
  BY ServeFields
<1>3. /\ w'.case = w.case /\ w'.run = w.run /\ w'.reg = w.reg /\ w'.shown = w.shown /\ w'.failed = w.failed
      /\ w'.ran = w.ran /\ w'.stream = w.stream
  BY <1>2 DEF AllBut, Fields
<1>4. (Authorized(w') <=> Authorized(w)) /\ RunDeps(w') = RunDeps(w) /\ (Watched(w') <=> Watched(w))
  BY <1>3 DEF Authorized, Known, RunDeps, Watched
<1>5. Due(w) => Due(w')
  BY <1>2, <1>3 DEF Due, Matches
<1>6. q.arg = q.run
  BY <1>2 DEF Sane, Calls, CallOK
<1>7. Hears(w', done)
  <2>1. ASSUME NEW p \in w'.net, p.kind = "run", p.last, Matches(w', p), p.saw = "live", w'.run \in done PROVE p \in w.net
    <3>1. p # s
      BY <1>2, <1>3, <1>6, <2>1 DEF Matches
    <3> QED BY <1>2, <3>1
  <2> QED BY <1>3, <1>4, <2>1 DEF Seen, Hears, Matches
<1>8. Loads(w') /\ Ends(w', done) /\ Streams(w')
  BY <1>3, <1>4, <1>5 DEF Seen, Loads, Ends, Streams
<1> QED BY <1>1, <1>7, <1>8 DEF Seen

LEMMA SentSeen ==
  ASSUME NEW d, Seen(w, d), NEW kind, NEW of, NEW arg, SentBy(w, w', kind, of, arg), kind # "run"
  PROVE  Seen(w', d)
<1>1. AllBut(w, w', {"net", "action", "dialog"}) /\ AgedWith(w.net, w'.net, Call(w, kind, of, arg)) /\ (Due(w) => Due(w'))
  BY DEF SentBy
<1>2. Call(w, kind, of, arg).kind # "run"
  BY DEF Call
<1>3. \A p \in w'.net : p.kind = "run" => \E q \in w.net : Later(q, p)
  BY <1>1, <1>2 DEF AgedWith
<1>4. Still(w, w')
  BY <1>1, <1>3 DEF Still, AllBut, Fields, Known
<1> QED BY <1>4, StillSeen

\* The steps that touch neither the run on show nor what is read of it.
Aside == {"loc", "asked", "timer", "ask", "dirty", "dialog", "claimed"}
LEMMA AsideSeen ==
  ASSUME NEW d, NEW t, NEW u, Seen(t, d), AllBut(t, u, Aside)
  PROVE  Seen(u, d)
<1>1. /\ u.case = t.case /\ u.run = t.run /\ u.reg = t.reg /\ u.shown = t.shown /\ u.failed = t.failed
      /\ u.ran = t.ran /\ u.stream = t.stream /\ u.net = t.net
  BY DEF AllBut, Fields, Aside
<1>2. Still(t, u)
  BY <1>1 DEF Still, Known, Due, Matches, Later
<1> QED BY <1>2, StillSeen

LEMMA GesturesSeen ==
  ASSUME Sane(w), Seen(w, done),
         \/ SearchFollows \/ OpenEvidence \/ OpenAccept \/ ConfirmAccept \/ EditDraft
         \/ \E r \in Run : \E k \in Writes : Post(k, r)
         \/ \E l \in Links : Navigate(l) \/ Back(l)
  PROVE  Seen(w', done')
<1>1. CASE SearchFollows
  <2>1. AllBut(w, w', Aside) /\ done' = done
    BY <1>1 DEF SearchFollows, Sane, Tab, Shaped, Fields, AllBut, Aside
  <2> QED BY <2>1, AsideSeen
<1>2. CASE OpenAccept
  <2>1. AllBut(w, w', Aside) /\ done' = done
    BY <1>2 DEF OpenAccept, Server, Sane, Tab, Shaped, Fields, AllBut, Aside
  <2> QED BY <2>1, AsideSeen
<1>3. CASE EditDraft
  <2>1. AllBut(w, w', Aside) /\ done' = done
    BY <1>3 DEF EditDraft, Server, Sane, Tab, Shaped, Fields, AllBut, Aside
  <2> QED BY <2>1, AsideSeen
<1>4. ASSUME NEW l \in Links, Navigate(l) \/ Back(l) PROVE Seen(w', done')
  <2>1. done' = done /\ (w' = [w EXCEPT !.loc = l] \/ w' = [w EXCEPT !.ask = [to |-> "link", case |-> l.case, run |-> l.run]])
    BY <1>4 DEF Navigate, Back, Server
  <2>2. AllBut(w, w', Aside)
    BY <2>1 DEF Sane, Tab, Shaped, Fields, AllBut, Aside
  <2> QED BY <2>1, <2>2, AsideSeen
<1>5. CASE OpenEvidence
  <2>1. SentBy(w, w', "evidence", "none", None) /\ "evidence" # "run" /\ done' = done
    BY <1>5, OpenEvidenceFields DEF OpenEvidence, Server
  <2> QED BY <2>1, SentSeen
<1>6. CASE ConfirmAccept
  <2>0. done' = done
    BY <1>6 DEF ConfirmAccept, Server
  <2>1. CASE AllBut(w, w', {"dialog", "failed"}) /\ w'.failed
    <3>1. /\ w'.case = w.case /\ w'.run = w.run /\ w'.reg = w.reg /\ w'.shown = w.shown
          /\ w'.ran = w.ran /\ w'.stream = w.stream /\ w'.net = w.net
      BY <2>1 DEF AllBut, Fields
    <3>2. Still(w, w')
      BY <2>1, <3>1 DEF Still, Known, Due, Matches, Later
    <3> QED BY <2>0, <3>2, StillSeen
  <2>2. CASE SentBy(w, w', "accept", "accept", w.run)
    <3>1. "accept" # "run"
      OBVIOUS
    <3> QED BY <2>0, <2>2, <3>1, SentSeen
  <2> QED BY <1>6, <2>1, <2>2, ConfirmAcceptFields
<1>7. ASSUME NEW r \in Run, NEW k \in Writes, Post(k, r) PROVE Seen(w', done')
  <2>1. SentBy(w, w', k, k, r) /\ k # "run" /\ done' = done
    BY <1>7, PostFields DEF Post, Server
  <2> QED BY <2>1, SentSeen
<1> QED BY <1>1, <1>2, <1>3, <1>4, <1>5, <1>6, <1>7

\* A case opened where the effects have run: its run is not the one they have read.
LEMMA CommittedSeen ==
  ASSUME Sane(w), ServerTyped, Homed(w), Seen(w, done), w.ran.run = RunDeps(w), NEW c \in Known(w), c # w.case,
         NEW u, Tab(u), Committed(w, c, u)
  PROVE  Seen(Flushed(u), done)
<1>1. u.reg = w.reg /\ u.ran = w.ran /\ u.stream = w.stream /\ u.case = c
  BY DEF Committed, AllBut, Fields, Cleared
<1>2. u.run # None => Home[u.run] = c
  BY DEF Committed, Homed, AtHome
<1>3. Authorized(u) = TRUE
  BY <1>1 DEF Authorized, Known
<1>4. u.run # None => u.ran.run # RunDeps(u)
  <2>1. u.run # None => w.ran.run # <<TRUE, u.run>>
    BY <1>2, Foreign
  <2> QED BY <1>1, <1>3, <2>1 DEF RunDeps
<1>5. Streams(u)
  BY <1>1 DEF Seen, Streams
<1> QED BY <1>4, <1>5, FlushedSeen DEF ServerTyped

LEMMA PickCaseSeen ==
  ASSUME Sane(w), ServerTyped, Homed(w), Seen(w, done), NEW c \in Case, PickCase(c)
  PROVE  Seen(w', done')
<1>1. w.ran.run = RunDeps(w) /\ done' = done
  BY DEF PickCase, Gesture, Settled, Server
<1>2. PICK u : /\ Tab(u) /\ w' = Flushed(u) /\ c \in Known(w) /\ c # w.case /\ w.ask = None
               /\ \/ w.dirty /\ AllBut(w, u, {"ask"}) /\ u.ask = [to |-> "case", case |-> c, run |-> None]
                  \/ ~w.dirty /\ Committed(w, c, u) /\ u.ask = None
  BY PickCaseFields
<1>3. CASE ~w.dirty
  BY <1>1, <1>2, <1>3, CommittedSeen
<1>4. CASE w.dirty
  <2>1. AllBut(w, u, Aside)
    BY <1>2, <1>4 DEF AllBut, Aside
  <2>2. Seen(u, done)
    BY <2>1, AsideSeen
  <2>3. Streams(u) /\ Loads(u) /\ Hears(u, done) /\ Ends(u, done)
    BY <2>2 DEF Seen
  <2> QED BY <1>1, <1>2, <2>3, FlushedSeen DEF ServerTyped
<1> QED BY <1>3, <1>4

LEMMA AnswerDiscardSeen ==
  ASSUME Sane(w), ServerTyped, Homed(w), Chosen(w, wish), Seen(w, done), NEW yes, AnswerDiscard(yes)
  PROVE  Seen(w', done')
<1>1. w.ran.run = RunDeps(w) /\ done' = done /\ w.ask # None
  BY DEF AnswerDiscard, Settled, Server
<1>2. CASE DiscardKept(w, w') \/ DiscardLinked(w, w')
  <2>1. AllBut(w, w', Aside)
    BY <1>2 DEF DiscardKept, DiscardLinked, AllBut, Aside
  <2> QED BY <1>1, <2>1, AsideSeen
<1>3. CASE \E u : DiscardOpened(w, u, w')
  <2>1. PICK u : DiscardOpened(w, u, w')
    BY <1>3
  <2>2. w.ask.case \in Known(w) /\ w.ask.case # w.case
    BY <1>1, <2>1 DEF DiscardOpened, Chosen, Asks
  <2> QED BY <1>1, <2>1, <2>2, CommittedSeen DEF DiscardOpened
<1> QED BY <1>2, <1>3, AnswerDiscardFields

LEMMA RouteFiresSeen ==
  ASSUME Sane(w), Fitting(w), Chosen(w, wish), Homed(w), RunRan(w), Seen(w, done), RouteFires
  PROVE  Seen(w', done')
<1>1. LinkTaken(w, w') /\ Tab(w) /\ w.timer # None /\ done' = done
  BY RouteFiresFields DEF Sane, RouteFires
<1>2. /\ w.ran.route = <<w.case, w.reg, w.loading, w.timer.asked, w.run>>
      /\ w.timer.case = w.case /\ w.timer.run = w.run /\ w.timer.known = Known(w)
  BY <1>1 DEF Fitting, Ticks
<1>3. w.ran.run = RunDeps(w)
  <2>1. Routed(w)
    BY <1>2 DEF Routed
  <2> QED BY <2>1 DEF RunRan
<1>4. w.claimed = w.timer.under => w.timer.asked = w.loc /\ w.loc # w.claimed
  BY <1>1 DEF Chosen, Aims
<1>5. CASE LinkStale(w, w') \/ LinkAsked(w, w') \/ LinkKept(w, w')
  <2>1. AllBut(w, w', Aside)
    BY <1>5 DEF LinkStale, LinkAsked, LinkKept, AllBut, Aside
  <2> QED BY <1>1, <2>1, AsideSeen
<1>6. CASE w.claimed = w.timer.under /\ LinkOpened(w, w')
  <2>1. w'.reg = w.reg /\ w'.ran = w.ran /\ w'.stream = w.stream /\ w'.shown = None /\ w'.case \in Known(w) /\ w'.case # w.case
    BY <1>2, <1>6 DEF LinkOpened, AllBut, Fields, Cleared
  <2>2. w'.run # None => Home[w'.run] = w'.case
    BY <1>4, <1>6, <2>1 DEF LinkOpened, Homed, AtHome, Here
  <2>3. Authorized(w') = TRUE
    BY <2>1 DEF Authorized, Known
  <2>4. w'.run # None => w'.ran.run # RunDeps(w')
    <3>1. w'.run # None => w.ran.run # <<TRUE, w'.run>>
      BY <1>3, <2>1, <2>2, Foreign
    <3> QED BY <2>1, <2>3, <3>1 DEF RunDeps
  <2>5. \A p \in w'.net : ~p.fresh
    BY <1>6 DEF LinkOpened
  <2> QED BY <1>1, <2>1, <2>4, <2>5 DEF Seen, Loads, Hears, Ends, Streams, Matches
<1>7. CASE w.claimed = w.timer.under /\ LinkRerun(w, w')
  <2>1. w'.ran = w.ran /\ w'.stream = w.stream /\ w'.shown = None /\ w'.run # w.run
    BY <1>2, <1>7 DEF LinkRerun, AllBut, Fields, Reselects
  <2>2. w'.ran.run # RunDeps(w')
    BY <1>3, <2>1 DEF RunDeps
  <2>3. \A p \in w'.net : ~p.fresh
    BY <1>7, <2>1 DEF LinkRerun
  <2> QED BY <1>1, <2>1, <2>2, <2>3 DEF Seen, Loads, Hears, Ends, Streams, Matches
<1> QED BY <1>1, <1>2, <1>5, <1>6, <1>7 DEF LinkTaken, LinkMisread
-----------------------------------------------------------------------------
(* The answers keep it seen. *)
LEMMA RunAnsweredSeen ==
  ASSUME Sane(w), NEW d, d \subseteq Run, Seen(w, d), NEW q \in w.net, NEW t, Taken(t, q), q.kind = "run", CallOK(q), q \in Request,
         q.saw # "unread", NEW ok, NEW u, u = RunAnswered(t, q, ok)
  PROVE  Seen(u, d)
<1>1. /\ t.case = w.case /\ t.run = w.run /\ t.reg = w.reg /\ t.shown = w.shown /\ t.failed = w.failed
      /\ t.ran = w.ran /\ t.stream = w.stream /\ t.net = w.net \ {q} /\ Tab(t)
  BY DEF Taken, AllBut, Fields
<1>2. q.arg \in Run /\ q.arg = q.run /\ q.saw \in {"live", "ended"} /\ None \notin d
  BY WorkspaceAssumption DEF CallOK, Request
<1>3. \/ ~(q.last /\ Matches(t, q)) /\ AllBut(t, u, {"action"})
      \/ q.last /\ Matches(t, q) /\ AllBut(t, u, {"failed", "busy", "action"}) /\ u.failed
      \/ /\ q.last /\ Matches(t, q) /\ CaseOf[q.arg] # t.case
         /\ AllBut(t, u, {"shown", "busy", "failed", "run", "moved", "net", "status", "action"})
         /\ u.shown = None /\ u.failed /\ u.run = IF t.run = q.arg THEN None ELSE t.run
         /\ Aged(t.net, u.net) /\ (Distinct(t.net) => Distinct(u.net))
      \/ /\ q.last /\ Matches(t, q) /\ CaseOf[q.arg] = t.case
         /\ AllBut(t, u, {"shown", "busy", "action"}) /\ u.shown = [id |-> q.arg, ended |-> q.saw]
  BY <1>1, <1>2, RunAnsweredFields, SMTT(30)
<1>4. u.ran = w.ran /\ u.stream = w.stream /\ u.reg = w.reg /\ u.case = w.case
  BY <1>1, <1>3 DEF AllBut, Fields
<1>5. Streams(u)
  BY <1>4 DEF Seen, Streams
<1>6. CASE ~(q.last /\ Matches(t, q)) /\ AllBut(t, u, {"action"})
  <2>1. u.run = w.run /\ u.shown = w.shown /\ u.failed = w.failed /\ u.net = w.net \ {q}
    BY <1>1, <1>6 DEF AllBut, Fields
  <2>2. Due(w) => Due(u)
    BY <1>1, <1>4, <1>6, <2>1 DEF Due, Matches
  <2>3. Still(w, u)
    BY <1>4, <2>1, <2>2 DEF Still, Known, Later
  <2> QED BY <2>3, StillSeen
<1>7. CASE AllBut(t, u, {"failed", "busy", "action"}) /\ u.failed
  <2>1. u.run = w.run /\ u.net = w.net \ {q}
    BY <1>1, <1>7 DEF AllBut, Fields
  <2>2. Hears(u, d)
    BY <1>4, <2>1 DEF Seen, Hears, Watched, Authorized, Known, Matches
  <2> QED BY <1>5, <1>7, <2>2 DEF Seen, Loads, Ends
<1>8. CASE q.last /\ Matches(t, q) /\ u.failed /\ u.run = IF t.run = q.arg THEN None ELSE t.run
  <2>1. u.run = None
    BY <1>2, <1>8 DEF Matches
  <2> QED BY <1>2, <1>5, <1>8, <2>1 DEF Seen, Loads, Ends, Hears
<1>9. CASE q.last /\ Matches(t, q) /\ AllBut(t, u, {"shown", "busy", "action"}) /\ u.shown = [id |-> q.arg, ended |-> q.saw]
  <2>1. u.run = w.run /\ u.net = w.net \ {q} /\ u.failed = w.failed
    BY <1>1, <1>9 DEF AllBut, Fields
  <2>2. (Authorized(u) <=> Authorized(w)) /\ (Watched(u) <=> Watched(w)) /\ Matches(w, q)
    BY <1>1, <1>4, <1>9, <2>1 DEF Authorized, Known, Watched, Matches
  <2>3. u.shown \in Shown
    BY <1>2, <1>9 DEF Shown
  <2>4. Hears(u, d)
    BY <1>4, <2>1, <2>2 DEF Seen, Hears, Matches
  <2>5. Ends(u, d)
    BY <1>9, <2>1, <2>2 DEF Seen, Ends, Hears
  <2> QED BY <1>5, <2>3, <2>4, <2>5, WorkspaceAssumption DEF Seen, Loads
<1> QED BY <1>3, <1>6, <1>7, <1>8, <1>9

LEMMA CasesAnsweredSeen ==
  ASSUME NEW t, Sane(t), ServerTyped, NEW want, AtRest(t, want), RunRan(t), NEW d, d \subseteq Run, Seen(t, d), NEW q, NEW ok \in BOOLEAN,
         q.last /\ Matches(t, q) => t.loading /\ Known(t) = {} /\ want = None,
         NEW u, u = CasesAnswered(t, q, ok)
  PROVE  Seen(u, d)
<1>1. CASE ~(q.last /\ Matches(t, q))
  <2>1. u = t
    BY <1>1 DEF CasesAnswered
  <2> QED BY <2>1
<1>2. CASE q.last /\ Matches(t, q) /\ ~ok
  <2>1. u = [t EXCEPT !.loading = FALSE]
    BY <1>2 DEF CasesAnswered
  <2>2. AllBut(t, u, {"loading"})
    BY <2>1 DEF Sane, Tab, Shaped, Fields, AllBut
  <2>3. Still(t, u)
    BY <2>2 DEF Still, Known, Due, Matches, Later, AllBut, Fields
  <2> QED BY <2>3, StillSeen
<1>3. CASE q.last /\ Matches(t, q) /\ ok
  <2>1. RegisterRead(t, u)
    <3>1. u = CasesAnswered(t, q, TRUE) /\ Tab(t) /\ head \in [Case -> Run \cup {None}]
      BY <1>3 DEF Sane, ServerTyped
    <3> QED BY <1>3, <3>1, RegisterReadFields
  <2>2. t.loading /\ Known(t) = {} /\ ~t.dirty /\ ~Authorized(t)
    BY <1>3 DEF AtRest, Chosen, Asks, Authorized
  <2>3. t.ran.run = RunDeps(t)
    BY DEF AtRest, RunRan, Routed, RouteDeps
  <2>4. /\ u.ran = t.ran /\ u.stream = t.stream
        /\ u.case # None => \A p \in u.net : ~p.fresh
    <3>1. CASE RegisterKept(t, u)
      BY <3>1 DEF RegisterKept, AllBut, Fields
    <3>2. CASE RegisterOpened(t, u)
      BY <3>2 DEF RegisterOpened, AllBut, Fields, Cleared
    <3> QED BY <2>1, <2>2, <3>1, <3>2 DEF RegisterRead, RegisterAsked
  <2>5. Authorized(u) => u.case # None /\ u.ran.run # RunDeps(u)
    <3>1. Known(u) = Case
      BY <2>1 DEF RegisterRead, ServerTyped, Known
    <3> QED BY <2>2, <2>3, <2>4, <3>1, WorkspaceAssumption DEF RunDeps, Authorized
  <2> QED BY <2>4, <2>5 DEF Seen, Loads, Hears, Ends, Streams, Matches
<1> QED BY <1>1, <1>2, <1>3

LEMMA CaseAnsweredSeen ==
  ASSUME NEW t, Sane(t), ServerTyped, NEW d, Seen(t, d), NEW q, q.case \in Case, NEW ok, NEW u, u = CaseAnswered(t, q, ok)
  PROVE  Seen(u, d)
<1>1. /\ AllBut(t, u, {"view", "reg", "status", "action", "net", "busy", "failed"}) /\ Known(u) = Known(t)
      /\ \/ u.net = t.net /\ u.failed = t.failed
         \/ t.run # None /\ ~u.failed /\ Asked(u) /\ \E of : AgedWith(t.net, u.net, Call(t, "run", of, t.run))
  BY CaseAnsweredFields DEF Sane, ServerTyped
<1>2. u.case = t.case /\ u.run = t.run /\ u.shown = t.shown /\ u.ran = t.ran /\ u.stream = t.stream
  BY <1>1 DEF AllBut, Fields
<1>3. CASE u.net = t.net /\ u.failed = t.failed
  <2>1. Still(t, u)
    BY <1>1, <1>2, <1>3 DEF Still, Due, Matches, Later
  <2> QED BY <2>1, StillSeen
<1>4. CASE Asked(u)
  BY <1>2, <1>4, AskedSeen DEF Streams, Seen
<1> QED BY <1>1, <1>3, <1>4

LEMMA ShownIsNot == \A r \in Run : [id |-> r, ended |-> "live"] # None
<1>1. \A r \in Run : [id |-> r, ended |-> "live"] \in Shown
  BY DEF Shown
<1> QED BY <1>1, WorkspaceAssumption

LEMMA WriteAnsweredSeen ==
  ASSUME NEW t, Sane(t), NEW d, Seen(t, d), NEW q, q \in Request, q.kind \in {"start", "intake", "upload", "resume", "accept"}, CallOK(q),
         Starts(q) => q.arg \notin d,
         NEW ok \in BOOLEAN, NEW u, u = WriteAnswered(t, q, ok)
  PROVE  Seen(u, d)
<1>0. Tab(t)
  BY DEF Sane
<1>1. CASE ~Fits(t, q)
  <2>1. u = t
    BY <1>1 DEF WriteAnswered
  <2> QED BY <2>1
<1>2. CASE Fits(t, q) /\ ~ok
  <2>1. u = Release(t, q)
    BY <1>2 DEF WriteAnswered
  <2>2. AllBut(t, u, {"action"})
    BY <1>0, <2>1, ReleaseFields
  <2>3. Still(t, u)
    BY <2>2 DEF AllBut, Fields, Known, Still, Due, Matches, Later
  <2> QED BY <2>3, StillSeen
<1>3. CASE Fits(t, q) /\ ok /\ q.kind = "start"
  <2>1. u = WriteAnswered(t, q, TRUE) /\ q.arg \in Run
    BY <1>3, WorkspaceAssumption DEF CallOK
  <2>2. AllBut(t, u, {"shown", "action", "run", "moved", "net", "status"}) /\ u.shown = [id |-> q.arg, ended |-> "live"] /\ u.run = q.arg
    BY <1>0, <1>3, <2>1, StartAnsweredFields
  <2>3. u.shown # None /\ u.run \notin d /\ u.ran = t.ran /\ u.stream = t.stream
    BY <1>3, <2>1, <2>2, ShownIsNot DEF Starts, AllBut, Fields
  <2> QED BY <2>3 DEF Seen, Loads, Hears, Ends, Streams
<1>4. CASE Fits(t, q) /\ ok /\ q.kind = "intake"
  <2>1. u = WriteAnswered(t, q, TRUE) /\ q.arg \in Run
    BY <1>4, WorkspaceAssumption DEF CallOK
  <2>2. IntakeAdopted(t, q, u)
    BY <1>0, <1>4, <2>1, IntakeAnsweredFields
  <2>3. u.ran = t.ran /\ u.stream = t.stream
    BY <2>2 DEF IntakeAdopted, IntakeHere, IntakeElsewhere, AllBut, Fields, Undisturbed, Cleared
  <2>4. u.shown # None /\ u.run \notin d
    BY <1>4, <2>1, <2>2, ShownIsNot DEF IntakeAdopted, Starts
  <2> QED BY <2>3, <2>4 DEF Seen, Loads, Hears, Ends, Streams
<1>5. CASE Fits(t, q) /\ ok /\ q.kind = "resume"
  <2>1. u = WriteAnswered(t, q, TRUE) /\ q.run \in Run
    BY <1>5 DEF CallOK
  <2>2. RunResumed(t, q, u)
    BY <1>0, <1>5, <2>1, ResumeAnsweredFields
  <2>3. Asked(u) /\ u.ran = t.ran /\ u.stream = t.stream
    BY <2>2 DEF RunResumed, AllBut, Fields
  <2> QED BY <2>3, AskedSeen DEF Seen, Streams
<1>6. CASE Fits(t, q) /\ ok /\ q.kind \in {"upload", "accept"}
  <2>1. u = RefreshCase(t, q.kind) /\ q.kind \in Kinds \cup {"none"}
    BY <1>6 DEF WriteAnswered, Kinds
  <2>2. AllBut(t, u, {"net"}) /\ AgedWith(t.net, u.net, Call(t, "case", q.kind, None)) /\ (Due(t) => Due(u))
    BY <1>0, <2>1, RefreshCaseFields
  <2>3. Call(t, "case", q.kind, None).kind # "run"
    BY DEF Call
  <2>4. \A p \in u.net : p.kind = "run" => \E x \in t.net : Later(x, p)
    BY <2>2, <2>3 DEF AgedWith
  <2>5. Still(t, u)
    BY <2>2, <2>4 DEF AllBut, Fields, Known, Still
  <2> QED BY <2>5, StillSeen
<1> QED BY <1>1, <1>2, <1>3, <1>4, <1>5, <1>6
-----------------------------------------------------------------------------
(* Which requests a step adds *)
\* The requests for the cases and those that start a run are old ones.
Owed(N, M) == \A p \in M : Starts(p) \/ p.kind = "cases" => \E q \in N : Later(q, p)
LEMMA AgedOwed == ASSUME NEW N, NEW M, Aged(N, M) \/ M = N PROVE Owed(N, M)
BY DEF Aged, Owed, Later
LEMMA CallOwed ==
  ASSUME NEW N, NEW M, NEW t, NEW kind, NEW of, NEW arg, AgedWith(N, M, Call(t, kind, of, arg)), kind \notin {"start", "intake", "cases"}
  PROVE  Owed(N, M)
<1>1. Call(t, kind, of, arg).kind = kind
  BY DEF Call
<1> QED BY <1>1 DEF AgedWith, Owed, Starts
LEMMA RunOwed ==
  ASSUME NEW N, NEW M, NEW t, \E of : AgedWith(N, M, Call(t, "run", of, t.run))
  PROVE  Owed(N, M)
<1>1. "run" \notin {"start", "intake", "cases"}
  OBVIOUS
<1> QED BY <1>1, CallOwed
LEMMA OwedTrans ==
  ASSUME NEW N, NEW M, NEW P, Owed(N, M), Owed(M, P)
  PROVE  Owed(N, P)
BY DEF Owed, Later, Starts
LEMMA FlushedOwed ==
  ASSUME NEW t, Tab(t), NEW f, f = Flushed(t)
  PROVE  Owed(t.net, f.net)
<1>1. \A p \in f.net : Started(t, p) \/ \E q \in t.net : Later(q, p)
  BY FlushedFields
<1> QED BY <1>1 DEF Started, Owed, Starts

LEMMA CommittedOwed ==
  ASSUME NEW c, NEW u, Tab(u), Committed(w, c, u)
  PROVE  Owed(w.net, Flushed(u).net)
<1>1. Owed(w.net, u.net)
  BY AgedOwed DEF Committed
<1>2. Owed(u.net, Flushed(u).net)
  BY FlushedOwed
<1> QED BY <1>1, <1>2, OwedTrans

LEMMA StepsOwed ==
  ASSUME Sane(w),
         \/ Effects \/ RouteFires \/ SearchFollows \/ StreamOpens \/ StreamDrops
         \/ \E q \in w.net : Serve(q)
         \/ \E r \in Run : RunEnds(r)
         \/ \E l \in Links : Navigate(l) \/ Back(l)
         \/ \E c \in Case : PickCase(c)
         \/ \E yes \in BOOLEAN : AnswerDiscard(yes)
         \/ EditDraft \/ OpenEvidence \/ OpenAccept \/ ConfirmAccept
  PROVE  Owed(w.net, w'.net)
<1>0. Tab(w) /\ Shaped(w)
  BY DEF Sane, Tab
<1>1. CASE Effects
  BY <1>0, <1>1, FlushedOwed DEF Effects
<1>2. CASE RouteFires
  BY <1>0, <1>2, RouteFiresFields, AgedOwed DEF LinkTaken
<1>3. CASE SearchFollows \/ OpenAccept \/ EditDraft \/ \E l \in Links : Navigate(l) \/ Back(l)
  <2>1. \/ w' = [w EXCEPT !.asked = w.loc] \/ w' = [w EXCEPT !.dialog = w.run] \/ w' = [w EXCEPT !.dirty = TRUE]
        \/ \E l \in Links : w' = [w EXCEPT !.loc = l] \/ w' = [w EXCEPT !.ask = [to |-> "link", case |-> l.case, run |-> l.run]]
    BY <1>3 DEF SearchFollows, OpenAccept, EditDraft, Navigate, Back
  <2>2. w'.net = w.net
    BY <1>0, <2>1 DEF Shaped, Fields
  <2> QED BY <2>2, AgedOwed
<1>4. CASE StreamOpens
  <2>1. CASE Reread(w, w')
    BY <2>1, RunOwed DEF Reread
  <2>2. CASE AllBut(w, w', {"stream"})
    BY <2>2, AgedOwed DEF AllBut, Fields
  <2> QED BY <1>4, <2>1, <2>2, StreamOpensFields
<1>5. CASE StreamDrops
  BY <1>5, StreamDropsFields, AgedOwed DEF AllBut, Fields
<1>6. ASSUME NEW q \in w.net, Serve(q) PROVE Owed(w.net, w'.net)
  <2>1. \E s \in Request : w'.net = (w.net \ {q}) \cup {s} /\ q.kind = "run" /\ s.kind = q.kind
    BY <1>6, ServeFields
  <2> QED BY <2>1 DEF Owed, Starts, Later
<1>7. ASSUME NEW r \in Run, RunEnds(r) PROVE Owed(w.net, w'.net)
  <2>1. CASE Reread(w, w')
    BY <2>1, RunOwed DEF Reread
  <2>2. CASE w' = w
    BY <2>2, AgedOwed
  <2> QED BY <1>7, <2>1, <2>2, RunEndsFields
<1>8. ASSUME NEW c \in Case, PickCase(c) PROVE Owed(w.net, w'.net)
  <2>1. PICK u : /\ Tab(u) /\ w' = Flushed(u) /\ c \in Known(w) /\ c # w.case /\ w.ask = None
                 /\ \/ w.dirty /\ AllBut(w, u, {"ask"}) /\ u.ask = [to |-> "case", case |-> c, run |-> None]
                    \/ ~w.dirty /\ Committed(w, c, u) /\ u.ask = None
    BY <1>8, PickCaseFields
  <2>2. CASE AllBut(w, u, {"ask"})
    <3>1. u.net = w.net
      BY <2>2 DEF AllBut, Fields
    <3> QED BY <2>1, <3>1, FlushedOwed
  <2> QED BY <2>1, <2>2, CommittedOwed
<1>9. ASSUME NEW yes \in BOOLEAN, AnswerDiscard(yes) PROVE Owed(w.net, w'.net)
  <2>1. CASE DiscardKept(w, w') \/ DiscardLinked(w, w')
    BY <2>1, AgedOwed DEF DiscardKept, DiscardLinked, AllBut, Fields
  <2>2. CASE \E u : DiscardOpened(w, u, w')
    BY <2>2, CommittedOwed DEF DiscardOpened
  <2> QED BY <1>9, <2>1, <2>2, AnswerDiscardFields
<1>10. CASE OpenEvidence
  <2>1. SentBy(w, w', "evidence", "none", None) /\ "evidence" \notin {"start", "intake", "cases"}
    BY <1>10, OpenEvidenceFields
  <2> QED BY <2>1, CallOwed DEF SentBy
<1>11. CASE ConfirmAccept
  <2>1. CASE AllBut(w, w', {"dialog", "failed"})
    BY <2>1, AgedOwed DEF AllBut, Fields
  <2>2. CASE SentBy(w, w', "accept", "accept", w.run)
    <3>1. "accept" \notin {"start", "intake", "cases"}
      OBVIOUS
    <3> QED BY <2>2, <3>1, CallOwed DEF SentBy
  <2> QED BY <1>11, <2>1, <2>2, ConfirmAcceptFields
<1> QED BY <1>1, <1>2, <1>3, <1>4, <1>5, <1>6, <1>7, <1>8, <1>9, <1>10, <1>11

LEMMA AnswerOwed ==
  ASSUME NEW t, Sane(t), ServerTyped, NEW want, AtRest(t, want), NEW q, q \in Request, CallOK(q),
         NEW ok \in BOOLEAN, NEW u,
         q.kind = "cases" /\ q.last /\ Matches(t, q) => Known(t) = {},
         AnswerOf(t, q, ok, u)
  PROVE  Owed(t.net, u.net)
<1>0. /\ q.kind = "cases" => u = CasesAnswered(t, q, ok)
      /\ q.kind = "case" => u = CaseAnswered(t, q, ok)
      /\ q.kind = "run" => u = RunAnswered(t, q, ok) /\ q.saw # "unread"
      /\ q.kind = "evidence" => u = EvidenceAnswered(t, q, ok)
      /\ q.kind \notin {"cases", "case", "run", "evidence"} => u = WriteAnswered(t, q, ok)
      /\ Tab(t)
  BY DEF Sane, AnswerOf
<1>1. CASE q.kind = "cases"
  <2>1. CASE ~(q.last /\ Matches(t, q))
    <3>1. u = t
      BY <1>0, <1>1, <2>1 DEF CasesAnswered
    <3> QED BY <3>1, AgedOwed
  <2>2. CASE q.last /\ Matches(t, q) /\ ~ok
    <3>1. u = [t EXCEPT !.loading = FALSE]
      BY <1>0, <1>1, <2>2 DEF CasesAnswered
    <3>2. u.net = t.net
      BY <1>0, <3>1 DEF Tab, Shaped, Fields
    <3> QED BY <3>2, AgedOwed
  <2>3. CASE q.last /\ Matches(t, q) /\ ok
    <3>1. u = CasesAnswered(t, q, TRUE) /\ head \in [Case -> Run \cup {None}]
      BY <1>0, <1>1, <2>3 DEF ServerTyped
    <3>2. RegisterRead(t, u)
      BY <1>0, <2>3, <3>1, RegisterReadFields
    <3> QED BY <3>2, AgedOwed DEF RegisterRead
  <2> QED BY <2>1, <2>2, <2>3
<1>2. CASE q.kind = "case"
  <2>1. u = CaseAnswered(t, q, ok) /\ q.case \in Case /\ head \in [Case -> Run \cup {None}]
    BY <1>0, <1>2 DEF CallOK, ServerTyped
  <2>2. u.net = t.net \/ \E of : AgedWith(t.net, u.net, Call(t, "run", of, t.run))
    BY <1>0, <2>1, CaseAnsweredFields
  <2> QED BY <2>2, RunOwed, AgedOwed
<1>3. CASE q.kind = "run"
  <2>1. u = RunAnswered(t, q, ok) /\ q.arg \in Run /\ q.saw \in {"live", "ended"}
    BY <1>0, <1>3 DEF CallOK, Request
  <2>2. \/ AllBut(t, u, {"action"}) \/ AllBut(t, u, {"failed", "busy", "action"}) \/ Aged(t.net, u.net)
        \/ AllBut(t, u, {"shown", "busy", "action"})
    BY <1>0, <2>1, RunAnsweredFields
  <2>3. u.net = t.net \/ Aged(t.net, u.net)
    BY <2>2 DEF AllBut, Fields
  <2> QED BY <2>3, AgedOwed
<1>4. CASE q.kind = "evidence"
  <2>1. u = EvidenceAnswered(t, q, ok) /\ q.case \in Case
    BY <1>0, <1>4 DEF CallOK
  <2>2. AllBut(t, u, {"drawer"})
    BY <1>0, <2>1, EvidenceAnsweredFields
  <2> QED BY <2>2, AgedOwed DEF AllBut, Fields
<1>5. CASE q.kind \in {"start", "intake", "upload", "resume", "accept"}
  <2>0. u = WriteAnswered(t, q, ok)
    BY <1>0, <1>5
  <2>1. CASE ~Fits(t, q)
    <3>1. u = t
      BY <2>0, <2>1 DEF WriteAnswered
    <3> QED BY <3>1, AgedOwed
  <2>2. CASE Fits(t, q) /\ ~ok
    <3>1. u = Release(t, q)
      BY <2>0, <2>2 DEF WriteAnswered
    <3>2. AllBut(t, u, {"action"})
      BY <1>0, <3>1, ReleaseFields
    <3> QED BY <3>2, AgedOwed DEF AllBut, Fields
  <2>3. CASE Fits(t, q) /\ ok /\ q.kind = "start"
    <3>1. u = WriteAnswered(t, q, TRUE) /\ q.arg \in Run
      BY <2>0, <2>3, WorkspaceAssumption DEF CallOK
    <3>2. Aged(t.net, u.net)
      BY <1>0, <2>3, <3>1, StartAnsweredFields
    <3> QED BY <3>2, AgedOwed
  <2>4. CASE Fits(t, q) /\ ok /\ q.kind = "intake"
    <3>1. u = WriteAnswered(t, q, TRUE) /\ q.arg \in Run
      BY <2>0, <2>4, WorkspaceAssumption DEF CallOK
    <3>2. IntakeAdopted(t, q, u)
      BY <1>0, <2>4, <3>1, IntakeAnsweredFields
    <3> QED BY <3>2, AgedOwed DEF IntakeAdopted
  <2>5. CASE Fits(t, q) /\ ok /\ q.kind = "resume"
    <3>1. u = WriteAnswered(t, q, TRUE) /\ q.run \in Run
      BY <2>0, <2>5 DEF CallOK
    <3>2. RunResumed(t, q, u)
      BY <1>0, <2>5, <3>1, ResumeAnsweredFields
    <3> QED BY <3>2, RunOwed DEF RunResumed
  <2>6. CASE Fits(t, q) /\ ok /\ q.kind \in {"upload", "accept"}
    <3>1. u = RefreshCase(t, q.kind) /\ q.kind \in Kinds \cup {"none"} /\ "case" \notin {"start", "intake", "cases"}
      BY <2>0, <2>6 DEF WriteAnswered, Kinds
    <3>2. AgedWith(t.net, u.net, Call(t, "case", q.kind, None))
      BY <1>0, <3>1, RefreshCaseFields
    <3> QED BY <3>1, <3>2, CallOwed
  <2> QED BY <1>5, <2>1, <2>2, <2>3, <2>4, <2>5, <2>6
<1> QED BY <1>1, <1>2, <1>3, <1>4, <1>5 DEF Request, Kinds
-----------------------------------------------------------------------------
(* The server's runs: one asked for has not begun, one that has ended has; each is of its case. *)
Begun ==
  /\ \A q \in w.net : Starts(q) => head[CaseOf[q.arg]] # q.arg
  /\ \A c \in Case : Fresh[c] \in done => head[c] = Fresh[c]
  /\ \A c \in Case : AtHome(c, head[c])
LEMMA StartsFresh ==
  ASSUME NEW q, CallOK(q), Starts(q)
  PROVE  q.arg \in Run /\ CaseOf[q.arg] \in Case /\ q.arg = Fresh[CaseOf[q.arg]]
BY WorkspaceAssumption DEF CallOK, Starts

LEMMA BegunKept ==
  ASSUME Begun, Owed(w.net, w'.net), head' = head, done' = done
  PROVE  Begun'
<1>1. \A p \in w'.net : Starts(p) => head[CaseOf[p.arg]] # p.arg
  BY DEF Begun, Owed, Later, Starts
<1> QED BY <1>1 DEF Begun

LEMMA AnswerBegun ==
  ASSUME ~RouteRaces, OneHome(Home), Sane(w), ServerTyped, Chosen(w, wish), Begun, NEW q \in w.net, NEW ok \in BOOLEAN, Answer(q, ok)
  PROVE  Begun'
<1> DEFINE t == [w EXCEPT !.net = @ \ {q}]
<1> HIDE DEF t
<1>1. /\ Sane(t) /\ CallOK(q) /\ q \in Request /\ AtRest(t, wish) /\ AnswerOf(t, q, ok, w') /\ t.net = w.net \ {q}
      /\ q.kind = "cases" /\ q.last => Known(t) = {}
  BY AnswerTaken DEF t
<1>2. Owed(t.net, w'.net)
  BY <1>1, AnswerOwed
<1>3. done' = done /\ head' = IF ok /\ q.kind \in {"start", "intake"} THEN [head EXCEPT ![CaseOf[q.arg]] = q.arg] ELSE head
  BY DEF Answer
<1>4. CASE ~(ok /\ Starts(q))
  <2>1. head' = head
    BY <1>3, <1>4 DEF Starts
  <2>2. Owed(w.net, w'.net)
    BY <1>1, <1>2 DEF Owed
  <2> QED BY <1>3, <2>1, <2>2, BegunKept
<1>5. CASE ok /\ Starts(q)
  <2>1. q.arg \in Run /\ CaseOf[q.arg] \in Case /\ q.arg = Fresh[CaseOf[q.arg]]
    BY <1>1, <1>5, StartsFresh
  <2>2. head' = [head EXCEPT ![CaseOf[q.arg]] = q.arg] /\ DOMAIN head = Case
    BY <1>3, <1>5 DEF Starts, ServerTyped
  <2>3. \A p \in w'.net : Starts(p) => head'[CaseOf[p.arg]] # p.arg
    <3> SUFFICES ASSUME NEW p \in w'.net, Starts(p) PROVE head'[CaseOf[p.arg]] # p.arg
      OBVIOUS
    <3>1. PICK x \in t.net : Later(x, p)
      BY <1>2 DEF Owed
    <3>2. x \in w.net /\ x # q /\ Starts(x) /\ x.arg = p.arg
      BY <1>1, <3>1 DEF Later, Starts
    <3>3. x.arg # q.arg
      BY <1>5, <3>2 DEF Sane, Distinct
    <3>4. head[CaseOf[x.arg]] # x.arg
      BY <3>2 DEF Begun
    <3> QED BY <2>1, <2>2, <3>2, <3>3, <3>4
  <2>4. \A c \in Case : Fresh[c] \in done => head'[c] = Fresh[c]
    BY <2>1, <2>2 DEF Begun
  <2>5. \A c \in Case : AtHome(c, head'[c])
    BY <2>1, <2>2 DEF Begun, AtHome, OneHome
  <2> QED BY <1>3, <2>3, <2>4, <2>5 DEF Begun
<1> QED BY <1>4, <1>5

LEMMA NextBegun ==
  ASSUME ~RouteRaces, OneHome(Home), Sane(w), ServerTyped, Chosen(w, wish), Begun, Next
  PROVE  Begun'
<1>1. CASE \E q \in w.net, ok \in BOOLEAN : Answer(q, ok)
  BY <1>1, AnswerBegun
<1>2. ASSUME NEW r \in Run, NEW k \in Writes, Post(k, r) PROVE Begun'
  <2>1. SentBy(w, w', k, k, r)
    BY <1>2, PostFields
  <2>2. head' = head /\ done' = done /\ (k \in {"start", "intake"} => head[CaseOf[r]] # r)
    BY <1>2 DEF Post, Server
  <2>3. Call(w, k, k, r).kind = k /\ Call(w, k, k, r).arg = r
    BY DEF Call
  <2>4. \A p \in w'.net : Starts(p) => head[CaseOf[p.arg]] # p.arg
    BY <2>1, <2>2, <2>3 DEF SentBy, AgedWith, Begun, Later, Starts
  <2> QED BY <2>2, <2>4 DEF Begun
<1>3. ASSUME NEW r \in Run, RunEnds(r) PROVE Begun'
  <2>1. Owed(w.net, w'.net)
    BY <1>3, StepsOwed
  <2>2. head' = head /\ done' = done \cup {r} /\ \A c \in Case : r = Fresh[c] => head[c] = r
    BY <1>3 DEF RunEnds
  <2>3. \A p \in w'.net : Starts(p) => head[CaseOf[p.arg]] # p.arg
    BY <2>1 DEF Begun, Owed, Later, Starts
  <2> QED BY <2>2, <2>3 DEF Begun
<1>4. CASE \/ Effects \/ RouteFires \/ SearchFollows \/ StreamOpens \/ StreamDrops
           \/ \E q \in w.net : Serve(q)
           \/ \E l \in Links : Navigate(l) \/ Back(l)
           \/ \E c \in Case : PickCase(c)
           \/ \E yes \in BOOLEAN : AnswerDiscard(yes)
           \/ EditDraft \/ OpenEvidence \/ OpenAccept \/ ConfirmAccept
  <2>1. Owed(w.net, w'.net)
    BY <1>4, StepsOwed
  <2>2. head' = head /\ done' = done
    BY <1>4 DEF Effects, RouteFires, SearchFollows, StreamOpens, StreamDrops, Serve, Navigate, Back, PickCase, AnswerDiscard,
                EditDraft, OpenEvidence, OpenAccept, ConfirmAccept, Server
  <2> QED BY <2>1, <2>2, BegunKept
<1> QED BY <1>1, <1>2, <1>3, <1>4 DEF Next

LEMMA AnswerSeen ==
  ASSUME ~RouteRaces, Sane(w), ServerTyped, Chosen(w, wish), RunRan(w), Begun, Seen(w, done),
         NEW q \in w.net, NEW ok \in BOOLEAN, Answer(q, ok)
  PROVE  Seen(w', done')
<1> DEFINE t == [w EXCEPT !.net = @ \ {q}]
<1> HIDE DEF t
<1>1. /\ Taken(t, q) /\ Sane(t) /\ CallOK(q) /\ q \in Request /\ AtRest(t, wish) /\ AnswerOf(t, q, ok, w') /\ Stands(t) /\ t.net = w.net \ {q}
      /\ q.kind = "cases" /\ q.last => t.loading /\ Known(t) = {} /\ wish = None
  BY AnswerTaken DEF t
<1>2. done' = done /\ done \subseteq Run
  BY DEF Answer, ServerTyped
<1>3. CASE q.kind = "run"
  <2>1. w' = RunAnswered(t, q, ok) /\ q.saw # "unread"
    BY <1>1, <1>3 DEF AnswerOf
  <2> QED BY <1>1, <1>2, <1>3, <2>1, RunAnsweredSeen
<1>4. CASE q.kind # "run"
  <2>1. Seen(t, done)
    <3>1. Still(w, t)
      BY <1>1, <1>4 DEF Still, Stands, Known, Due, Matches, Later
    <3> QED BY <3>1, StillSeen
  <2>2. RunRan(t)
    BY <1>1 DEF Stands, RunRan, Routed, RunDeps, Authorized, Known
  <2>3. CASE q.kind = "cases"
    <3>1. w' = CasesAnswered(t, q, ok)
      BY <1>1, <2>3 DEF AnswerOf
    <3> QED BY <1>1, <1>2, <2>1, <2>2, <2>3, <3>1, CasesAnsweredSeen
  <2>4. CASE q.kind = "case"
    <3>1. w' = CaseAnswered(t, q, ok) /\ q.case \in Case
      BY <1>1, <2>4 DEF AnswerOf, CallOK
    <3> QED BY <1>1, <1>2, <2>1, <3>1, CaseAnsweredSeen
  <2>5. CASE q.kind = "evidence"
    <3>1. w' = EvidenceAnswered(t, q, ok) /\ q.case \in Case /\ Tab(t)
      BY <1>1, <2>5 DEF AnswerOf, CallOK, Sane
    <3>2. AllBut(t, w', {"drawer"})
      BY <3>1, EvidenceAnsweredFields
    <3>3. Still(t, w')
      BY <3>2 DEF AllBut, Fields, Still, Known, Due, Matches, Later
    <3> QED BY <1>2, <2>1, <3>3, StillSeen
  <2>6. CASE q.kind \in {"start", "intake", "upload", "resume", "accept"}
    <3>1. w' = WriteAnswered(t, q, ok)
      BY <1>1, <2>6 DEF AnswerOf
    <3>2. Starts(q) => q.arg \notin done
      BY <1>1, StartsFresh DEF Begun
    <3> QED BY <1>1, <1>2, <2>1, <2>6, <3>1, <3>2, WriteAnsweredSeen
  <2> QED BY <1>1, <1>4, <2>3, <2>4, <2>5, <2>6 DEF Request, Kinds
<1> QED BY <1>3, <1>4
-----------------------------------------------------------------------------
(* Every step keeps the selected run at home, and its read in step with the route. *)
LEMMA InitHomed ==
  ASSUME OneHome(Home), NEW l \in Links, NEW u, u = Sent(Opened(l), "cases", "none", None)
  PROVE  Homed(u) /\ RunRan(u)
<1>1. AllBut(Opened(l), u, {"net"})
  BY OpenedFields
<1>2. /\ u.case = Opened(l).case /\ u.run = Opened(l).run /\ u.reg = Opened(l).reg /\ u.loc = Opened(l).loc
      /\ u.ask = Opened(l).ask /\ u.ran = Opened(l).ran
  BY <1>1 DEF AllBut, Fields
<1>3. u.case = l.case /\ u.run = (IF l.case = None THEN None ELSE l.run) /\ u.reg = NoCases /\ u.loc = l /\ u.ask = None
  BY <1>2 DEF Opened
<1>4. u.ran.route = <<>>
  BY <1>2 DEF Opened
<1>5. AtHome(l.case, l.run) /\ AtHome(u.case, u.run)
  BY <1>3 DEF OneHome, AtHome
<1>6. Known(u) = {}
  BY <1>3 DEF Known, NoCases
<1>7. RunRan(u)
  <2>1. \A a : <<>> # <<u.case, u.reg, u.loading, a, u.run>>
    OBVIOUS
  <2> QED BY <1>4, <2>1 DEF RunRan, Routed
<1> QED BY <1>3, <1>5, <1>6, <1>7 DEF Homed

LEMMA HomedKept ==
  ASSUME NEW t, NEW u, Homed(t), RunRan(t), u.case = t.case, u.run = t.run, u.reg = t.reg, u.loading = t.loading, u.loc = t.loc,
         u.claimed = t.claimed, u.ran = t.ran, u.ask = t.ask, \A p \in u.net : p.kind = "cases" => \E q \in t.net : Later(q, p)
  PROVE  Homed(u) /\ RunRan(u)
<1>1. Known(u) = Known(t) /\ Here(u) = Here(t)
  BY DEF Known, Here
<1>2. Homed(u)
  BY <1>1 DEF Homed, Later
<1>3. RunRan(u)
  BY <1>1 DEF RunRan, Routed, RunDeps, Authorized
<1> QED BY <1>2, <1>3

LEMMA FlushedHomed ==
  ASSUME NEW t, Tab(t), AtHome(t.case, t.run) \/ Home[t.run] \notin Known(t), \A c \in Known(t) : AtHome(c, t.reg[c]),
         (~Addressed(t) /\ ~Unaddressed(t)) \/ (t.loc # t.claimed => AtHome(t.loc.case, t.loc.run) \/ t.loc = Here(t)),
         t.ask # None /\ t.ask.to = "link" => AtHome(t.ask.case, t.ask.run),
         (\E q \in t.net : q.kind = "cases" /\ q.last) => AtHome(t.case, t.run),
         NEW f, f = Flushed(t)
  PROVE  Homed(f) /\ RunRan(f)
<1>1. /\ AllBut(t, f, Flushes) /\ f.ran.run = RunDeps(f)
      /\ t.ran.url = UrlDeps(t) \/ Unaddressed(t) => f.claimed = t.claimed /\ f.loc = t.loc
      /\ t.ran.url # UrlDeps(t) /\ ~Unaddressed(t) => f.claimed = Here(t) /\ f.loc = Here(t)
  BY FlushedFields
<1>2. f.case = t.case /\ f.run = t.run /\ f.reg = t.reg /\ f.ask = t.ask
  BY <1>1 DEF AllBut, Flushes, Fields
<1>3. Known(f) = Known(t) /\ Here(f) = Here(t)
  BY <1>2 DEF Known, Here
<1>4. f.loc # f.claimed => AtHome(f.loc.case, f.loc.run) \/ f.loc = Here(f)
  BY <1>1, <1>3 DEF Addressed
<1>5. Owed(t.net, f.net)
  BY FlushedOwed
<1>6. (\E q \in f.net : q.kind = "cases" /\ q.last) => AtHome(f.case, f.run)
  BY <1>2, <1>5 DEF Owed, Later
<1> QED BY <1>1, <1>2, <1>3, <1>4, <1>6 DEF Homed, RunRan

LEMMA CommittedHomed ==
  ASSUME Sane(w), Homed(w), Addressed(w), NEW c \in Known(w), c # w.case, NEW u, Tab(u), Committed(w, c, u), u.ask = None
  PROVE  Homed(Flushed(u)) /\ RunRan(Flushed(u))
<1>1. u.reg = w.reg /\ u.ran = w.ran /\ u.case = c /\ u.lost = None
  BY DEF Committed, AllBut, Fields, Cleared
<1>2. AtHome(c, u.run)
  BY DEF Committed, Homed, AtHome
<1>3. ~Addressed(u) /\ ~Unaddressed(u)
  BY <1>1 DEF Addressed, UrlDeps, Unaddressed
<1>4. \A d \in Known(u) : AtHome(d, u.reg[d])
  BY <1>1 DEF Homed, Known
<1> QED BY <1>1, <1>2, <1>3, <1>4, FlushedHomed

LEMMA PickCaseHomed ==
  ASSUME Sane(w), Homed(w), RunRan(w), NEW c \in Case, PickCase(c)
  PROVE  Homed(w') /\ RunRan(w')
<1>1. Addressed(w)
  BY DEF PickCase, Gesture, Settled, Addressed
<1>2. PICK u : /\ Tab(u) /\ w' = Flushed(u) /\ c \in Known(w) /\ c # w.case /\ w.ask = None
               /\ \/ w.dirty /\ AllBut(w, u, {"ask"}) /\ u.ask = [to |-> "case", case |-> c, run |-> None]
                  \/ ~w.dirty /\ Committed(w, c, u) /\ u.ask = None
  BY PickCaseFields
<1>3. CASE ~w.dirty
  BY <1>1, <1>2, <1>3, CommittedHomed
<1>4. CASE w.dirty
  <2>1. u.case = w.case /\ u.run = w.run /\ u.reg = w.reg /\ u.loc = w.loc /\ u.claimed = w.claimed /\ u.net = w.net
    BY <1>2, <1>4 DEF AllBut, Fields
  <2>2. Known(u) = Known(w) /\ Here(u) = Here(w) /\ u.ask.to # "link"
    BY <1>2, <1>4, <2>1 DEF Known, Here
  <2>3. /\ AtHome(u.case, u.run) \/ Home[u.run] \notin Known(u)
        /\ \A d \in Known(u) : AtHome(d, u.reg[d])
        /\ u.loc # u.claimed => AtHome(u.loc.case, u.loc.run) \/ u.loc = Here(u)
        /\ (\E q \in u.net : q.kind = "cases" /\ q.last) => AtHome(u.case, u.run)
    BY <2>1, <2>2 DEF Homed
  <2> QED BY <1>2, <2>2, <2>3, FlushedHomed
<1> QED BY <1>3, <1>4

\* The address bar is taken to a link.
LedHome(t, u) ==
  /\ AllBut(t, u, {"loc", "ask", "dirty"})
  /\ AtHome(u.loc.case, u.loc.run) \/ u.loc = t.loc
  /\ u.ask # None /\ u.ask.to = "link" => AtHome(u.ask.case, u.ask.run)
LEMMA LedHomed ==
  ASSUME NEW t, NEW u, Homed(t), RunRan(t), LedHome(t, u)
  PROVE  Homed(u) /\ RunRan(u)
<1>1. /\ u.case = t.case /\ u.run = t.run /\ u.reg = t.reg /\ u.loading = t.loading /\ u.claimed = t.claimed /\ u.ran = t.ran
      /\ u.net = t.net
  BY DEF LedHome, AllBut, Fields
<1>2. Known(u) = Known(t) /\ Here(u) = Here(t)
  BY <1>1 DEF Known, Here
<1>3. Homed(u)
  BY <1>1, <1>2 DEF Homed, LedHome
<1>4. RunRan(u)
  BY <1>1, <1>2 DEF RunRan, Routed, RunDeps, Authorized
<1> QED BY <1>3, <1>4

LEMMA NavigateHomed ==
  ASSUME OneHome(Home), Sane(w), Homed(w), RunRan(w), NEW l \in Links, Navigate(l) \/ Back(l)
  PROVE  Homed(w') /\ RunRan(w')
<1>1. w' = [w EXCEPT !.loc = l] \/ w' = [w EXCEPT !.ask = [to |-> "link", case |-> l.case, run |-> l.run]]
  BY DEF Navigate, Back
<1>2. AtHome(l.case, l.run)
  BY DEF OneHome, AtHome
<1>3. CASE w' = [w EXCEPT !.loc = l]
  <2>1. AllBut(w, w', {"loc", "ask", "dirty"}) /\ w'.loc = l /\ w'.ask = w.ask
    BY <1>3 DEF Sane, Tab, Shaped, Fields, AllBut
  <2>2. LedHome(w, w')
    BY <1>2, <2>1 DEF LedHome, Homed
  <2> QED BY <2>2, LedHomed
<1>4. CASE w' = [w EXCEPT !.ask = [to |-> "link", case |-> l.case, run |-> l.run]]
  <2>1. AllBut(w, w', {"loc", "ask", "dirty"}) /\ w'.loc = w.loc /\ w'.ask.case = l.case /\ w'.ask.run = l.run
    BY <1>4 DEF Sane, Tab, Shaped, Fields, AllBut
  <2>2. LedHome(w, w')
    BY <1>2, <2>1 DEF LedHome
  <2> QED BY <2>2, LedHomed
<1> QED BY <1>1, <1>3, <1>4

LEMMA AnswerDiscardHomed ==
  ASSUME Sane(w), Homed(w), RunRan(w), Chosen(w, wish), NEW yes, AnswerDiscard(yes)
  PROVE  Homed(w') /\ RunRan(w')
<1>1. Addressed(w) /\ w.ask # None
  BY DEF AnswerDiscard, Settled, Addressed
<1>2. CASE DiscardKept(w, w')
  <2>1. AllBut(w, w', {"loc", "ask", "dirty"}) /\ w'.loc = w.loc /\ w'.ask = None
    BY <1>2 DEF DiscardKept, AllBut, Fields
  <2>2. LedHome(w, w')
    BY <2>1 DEF LedHome
  <2> QED BY <2>2, LedHomed
<1>3. CASE DiscardLinked(w, w')
  <2>1. AllBut(w, w', {"loc", "ask", "dirty"})
    BY <1>3 DEF DiscardLinked, AllBut
  <2>2. w'.ask = None /\ w'.loc.case = w.ask.case /\ w'.loc.run = w.ask.run /\ AtHome(w.ask.case, w.ask.run)
    BY <1>1, <1>3 DEF DiscardLinked, Homed
  <2>3. LedHome(w, w')
    BY <2>1, <2>2 DEF LedHome
  <2> QED BY <2>3, LedHomed
<1>4. CASE \E u : DiscardOpened(w, u, w')
  <2>1. PICK u : DiscardOpened(w, u, w')
    BY <1>4
  <2>2. w.ask.case \in Known(w) /\ w.ask.case # w.case
    BY <1>1, <2>1 DEF DiscardOpened, Chosen, Asks
  <2> QED BY <1>1, <2>1, <2>2, CommittedHomed DEF DiscardOpened
<1> QED BY <1>2, <1>3, <1>4, AnswerDiscardFields

LEMMA RouteFiresHomed ==
  ASSUME Sane(w), Fitting(w), Chosen(w, wish), Homed(w), RunRan(w), RouteFires
  PROVE  Homed(w') /\ RunRan(w')
<1>1. LinkTaken(w, w') /\ Tab(w) /\ w.timer # None
  BY RouteFiresFields DEF Sane, RouteFires
<1>2. /\ w.ran.route = <<w.case, w.reg, w.loading, w.timer.asked, w.run>>
      /\ w.timer.case = w.case /\ w.timer.run = w.run /\ w.timer.known = Known(w)
  BY <1>1 DEF Fitting, Ticks
<1>3. \A p \in w'.net : p.kind = "cases" => \E q \in w.net : Later(q, p)
  BY <1>1 DEF LinkTaken, Aged
<1>4. CASE LinkStale(w, w')
  <2>1. /\ w'.case = w.case /\ w'.run = w.run /\ w'.reg = w.reg /\ w'.loading = w.loading /\ w'.loc = w.loc
        /\ w'.claimed = w.claimed /\ w'.ran = w.ran /\ w'.ask = w.ask
    BY <1>4 DEF LinkStale, AllBut, Fields
  <2> QED BY <1>3, <2>1, HomedKept
<1>5. CASE w.claimed = w.timer.under /\ ~LinkStale(w, w')
  <2>1. w.timer.asked = w.loc /\ w.loc # w.claimed
    BY <1>1, <1>5 DEF Chosen, Aims
  <2>2. ~w.loading
    <3>1. Routed(w)
      BY <1>2 DEF Routed
    <3>2. w.ran.url # <<>>
      BY <3>1 DEF Chosen, UrlRan, Addressed, UrlDeps
    <3> QED BY <2>1, <3>2 DEF Chosen, Early
  <2>3. \A p \in w'.net : p.kind = "cases" => ~p.last
    BY <1>3, <2>2 DEF Chosen, Unread, Later
  <2>4. AtHome(w.loc.case, w.loc.run) \/ w.loc = Here(w)
    BY <2>1 DEF Homed
  <2>5. CASE LinkAsked(w, w')
    <3>1. /\ w'.case = w.case /\ w'.run = w.run /\ w'.reg = w.reg /\ w'.loading = w.loading /\ w'.loc = Here(w)
          /\ w'.claimed = w.claimed /\ w'.ran = w.ran
      BY <1>2, <2>5 DEF LinkAsked, AllBut, Fields, Here
    <3>2. Known(w') = Known(w) /\ Here(w') = Here(w)
      BY <3>1 DEF Known, Here
    <3>3. w'.ask # None /\ w'.ask.to = "link" => AtHome(w'.ask.case, w'.ask.run)
      <4>1. CASE w.ask = None
        <5>1. w'.ask = [to |-> "case", case |-> w.timer.asked.case, run |-> None]
          BY <2>5, <4>1 DEF LinkAsked
        <5>2. w'.ask.to = "case"
          BY <5>1
        <5> QED BY <5>2
      <4>2. CASE w.ask # None
        BY <2>5, <4>2 DEF LinkAsked, Homed
      <4> QED BY <4>1, <4>2
    <3>4. Homed(w')
      BY <2>3, <3>1, <3>2, <3>3 DEF Homed
    <3>5. RunRan(w')
      BY <3>1, <3>2 DEF RunRan, Routed, RunDeps, Authorized
    <3> QED BY <3>4, <3>5
  <2>6. CASE LinkOpened(w, w')
    <3>1. /\ w'.reg = w.reg /\ w'.loc = w.loc /\ w'.claimed = w.loc /\ w'.ran = w.ran /\ w'.ask = w.ask
          /\ w'.case = w.loc.case /\ w'.case # w.case /\ w'.case \in Known(w)
      BY <1>2, <2>1, <2>6 DEF LinkOpened, AllBut, Fields, Cleared
    <3>2. AtHome(w'.case, w'.run)
      BY <2>1, <2>4, <2>6, <3>1 DEF LinkOpened, AtHome, Homed, Here
    <3>3. Homed(w')
      BY <2>3, <3>1, <3>2 DEF Homed, Known
    <3>4. RunRan(w')
      BY <1>2, <3>1 DEF RunRan, Routed
    <3> QED BY <3>3, <3>4
  <2>7. CASE LinkKept(w, w')
    <3>1. /\ w'.case = w.case /\ w'.run = w.run /\ w'.reg = w.reg /\ w'.loading = w.loading /\ w'.loc = w.loc
          /\ w'.claimed = w.loc /\ w'.ran = w.ran /\ w'.ask = w.ask
      BY <2>1, <2>7 DEF LinkKept, AllBut, Fields
    <3>2. Known(w') = Known(w)
      BY <3>1 DEF Known
    <3>3. Homed(w')
      BY <2>3, <3>1, <3>2 DEF Homed
    <3>4. RunRan(w')
      BY <3>1, <3>2 DEF RunRan, Routed, RunDeps, Authorized
    <3> QED BY <3>3, <3>4
  <2>8. CASE LinkRerun(w, w')
    <3>1. /\ w'.case = w.case /\ w'.reg = w.reg /\ w'.loc = w.loc /\ w'.claimed = w.loc /\ w'.ran = w.ran /\ w'.ask = w.ask
          /\ w'.run = w.loc.run /\ w.loc.run # w.run /\ w.loc.run # None
          /\ (w.loc.case \notin Known(w) \/ w.loc.case = w.case)
      BY <1>2, <2>1, <2>8 DEF LinkRerun, AllBut, Fields, Reselects
    <3>2. Home[w.loc.run] = w.loc.case
      BY <2>4, <3>1 DEF AtHome, Here
    <3>3. Homed(w')
      BY <2>3, <3>1, <3>2 DEF Homed, Known, AtHome
    <3>4. RunRan(w')
      BY <1>2, <3>1 DEF RunRan, Routed
    <3> QED BY <3>3, <3>4
  <2> QED BY <1>1, <1>2, <1>5, <2>5, <2>6, <2>7, <2>8 DEF LinkTaken, LinkMisread
<1> QED BY <1>1, <1>2, <1>4, <1>5 DEF LinkTaken, LinkMisread, LinkStale

LEMMA StandsHomed ==
  ASSUME Sane(w), Homed(w), RunRan(w),
         \/ SearchFollows \/ EditDraft \/ StreamOpens \/ StreamDrops \/ OpenEvidence \/ OpenAccept \/ ConfirmAccept
         \/ \E q \in w.net : Serve(q)
         \/ \E r \in Run : RunEnds(r) \/ \E k \in Writes : Post(k, r)
  PROVE  Homed(w') /\ RunRan(w')
<1>1. CASE SearchFollows \/ EditDraft
  <2>1. w' = [w EXCEPT !.asked = w.loc] \/ w' = [w EXCEPT !.dirty = TRUE]
    BY <1>1 DEF SearchFollows, EditDraft
  <2>2. AllBut(w, w', {"asked", "dirty"})
    BY <2>1 DEF Sane, Tab, Shaped, Fields, AllBut
  <2>3. /\ w'.case = w.case /\ w'.run = w.run /\ w'.reg = w.reg /\ w'.loading = w.loading /\ w'.loc = w.loc
        /\ w'.claimed = w.claimed /\ w'.ran = w.ran /\ w'.ask = w.ask /\ w'.net = w.net
    BY <2>2 DEF AllBut, Fields
  <2>4. \A p \in w'.net : p.kind = "cases" => \E q \in w.net : Later(q, p)
    BY <2>3 DEF Later
  <2> QED BY <2>3, <2>4, HomedKept
<1>2. CASE \/ StreamOpens \/ StreamDrops \/ OpenEvidence \/ OpenAccept \/ ConfirmAccept
           \/ \E q \in w.net : Serve(q)
           \/ \E r \in Run : RunEnds(r) \/ \E k \in Writes : Post(k, r)
  <2>1. Steady(w, w')
    BY <1>2, SteadySteps
  <2> QED BY <2>1, HomedKept DEF Steady
<1> QED BY <1>1, <1>2

LEMMA EffectsHomed ==
  ASSUME Sane(w), Homed(w), Effects
  PROVE  Homed(w') /\ RunRan(w')
<1>1. w' = Flushed(w) /\ Tab(w)
  BY DEF Effects, Sane
<1>2. /\ AtHome(w.case, w.run) \/ Home[w.run] \notin Known(w)
      /\ \A c \in Known(w) : AtHome(c, w.reg[c])
      /\ w.loc # w.claimed => AtHome(w.loc.case, w.loc.run) \/ w.loc = Here(w)
      /\ w.ask # None /\ w.ask.to = "link" => AtHome(w.ask.case, w.ask.run)
      /\ (\E q \in w.net : q.kind = "cases" /\ q.last) => AtHome(w.case, w.run)
  BY DEF Homed
<1> QED BY <1>1, <1>2, FlushedHomed
-----------------------------------------------------------------------------
(* The answers keep it at home. *)
LEMMA CalmHomed ==
  ASSUME NEW t, NEW want, AtRest(t, want), Homed(t), RunRan(t), NEW u, Calm(t, u), u.run = t.run \/ AtHome(t.case, u.run),
         \A c \in Known(t) : u.reg[c] = t.reg[c] \/ AtHome(c, u.reg[c])
  PROVE  Homed(u) /\ RunRan(u)
<1>1. /\ u.case = t.case /\ u.loading = t.loading /\ u.loc = t.loc /\ u.claimed = t.claimed /\ u.ran = t.ran /\ u.ask = t.ask
      /\ Known(u) = Known(t)
      /\ \A p \in u.net : p.kind = "cases" => \E q \in t.net : Later(q, p)
  BY DEF Calm, AllBut, Fields
<1>2. t.claimed = t.loc /\ t.ran.route = RouteDeps(t)
  BY DEF AtRest
<1>3. AtHome(u.case, u.run) \/ Home[u.run] \notin Known(u)
  BY <1>1 DEF Homed
<1>4. \A c \in Known(u) : AtHome(c, u.reg[c])
  BY <1>1 DEF Homed
<1>5. (\E q \in u.net : q.kind = "cases" /\ q.last) => AtHome(u.case, u.run)
  BY <1>1 DEF Homed, Later
<1>6. Homed(u)
  BY <1>1, <1>2, <1>3, <1>4, <1>5 DEF Homed
<1>7. RunRan(u)
  <2>1. Routed(t)
    BY <1>2 DEF Routed, RouteDeps
  <2>2. Routed(u) => u.reg = t.reg /\ u.run = t.run
    BY <1>1, <1>2 DEF Routed, RouteDeps
  <2> QED BY <1>1, <2>1, <2>2 DEF RunRan, RunDeps, Authorized
<1> QED BY <1>6, <1>7

LEMMA CaseAnsweredHomed ==
  ASSUME NEW t, Sane(t), ServerTyped, NEW want, AtRest(t, want), Homed(t), RunRan(t), \A c \in Case : AtHome(c, head[c]),
         NEW q, q.case \in Case, NEW ok, NEW u, u = CaseAnswered(t, q, ok)
  PROVE  Homed(u) /\ RunRan(u)
<1>1. /\ AllBut(t, u, {"view", "reg", "status", "action", "net", "busy", "failed"})
      /\ \A c \in Known(t) : u.reg[c] \in {t.reg[c], head[c]}
  BY CaseAnsweredFields DEF Sane, ServerTyped
<1>2. Calm(t, u)
  BY CaseAnsweredCalm
<1>3. u.run = t.run \/ AtHome(t.case, u.run)
  BY <1>1 DEF AllBut, Fields
<1>4. \A c \in Known(t) : u.reg[c] = t.reg[c] \/ AtHome(c, u.reg[c])
  BY <1>1 DEF Sane, Tab, Typed
<1> QED BY <1>2, <1>3, <1>4, CalmHomed

LEMMA RunAnsweredHomed ==
  ASSUME NEW t, Sane(t), NEW want, AtRest(t, want), Homed(t), RunRan(t),
         NEW q, q.arg \in Run, q.saw \in {"live", "ended"}, NEW ok, NEW u, u = RunAnswered(t, q, ok)
  PROVE  Homed(u) /\ RunRan(u)
<1>1. Calm(t, u)
  BY RunAnsweredCalm
<1>2. /\ Tab(u)
      /\ \/ ~(q.last /\ Matches(t, q)) /\ AllBut(t, u, {"action"})
         \/ q.last /\ Matches(t, q) /\ AllBut(t, u, {"failed", "busy", "action"}) /\ u.failed
         \/ /\ q.last /\ Matches(t, q) /\ CaseOf[q.arg] # t.case
            /\ AllBut(t, u, {"shown", "busy", "failed", "run", "moved", "net", "status", "action"})
            /\ u.shown = None /\ u.failed /\ u.run = IF t.run = q.arg THEN None ELSE t.run
            /\ Aged(t.net, u.net) /\ (Distinct(t.net) => Distinct(u.net))
         \/ /\ q.last /\ Matches(t, q) /\ CaseOf[q.arg] = t.case
            /\ AllBut(t, u, {"shown", "busy", "action"}) /\ u.shown = [id |-> q.arg, ended |-> q.saw]
  BY RunAnsweredFields DEF Sane
<1>3. u.run = t.run \/ u.run = None
  BY <1>2 DEF AllBut, Fields
<1>4. u.run = t.run \/ AtHome(t.case, u.run)
  BY <1>3 DEF AtHome
<1>5. \A c \in Known(t) : u.reg[c] = t.reg[c] \/ AtHome(c, u.reg[c])
  BY <1>2 DEF AllBut, Fields
<1> QED BY <1>1, <1>4, <1>5, CalmHomed

LEMMA EvidenceAnsweredHomed ==
  ASSUME NEW t, Sane(t), NEW want, AtRest(t, want), Homed(t), RunRan(t), NEW q, q.case \in Case, NEW ok, NEW u, u = EvidenceAnswered(t, q, ok)
  PROVE  Homed(u) /\ RunRan(u)
<1>1. AllBut(t, u, {"drawer"})
  BY EvidenceAnsweredFields DEF Sane
<1>2. u.run = t.run /\ u.reg = t.reg /\ Calm(t, u)
  BY <1>1, EvidenceAnsweredCalm DEF AllBut, Fields
<1> QED BY <1>2, CalmHomed

LEMMA WriteAnsweredHomed ==
  ASSUME OneHome(Home), NEW t, Sane(t), NEW want, AtRest(t, want), Homed(t), RunRan(t),
         NEW q, q \in Request, q.kind \in {"start", "intake", "upload", "resume", "accept"}, CallOK(q), q.kind = "intake" => t.ask = None,
         NEW ok \in BOOLEAN, NEW u, u = WriteAnswered(t, q, ok)
  PROVE  Homed(u) /\ RunRan(u)
<1>0. Tab(t)
  BY DEF Sane
<1>1. CASE ok /\ q.kind = "intake" /\ Fits(t, q)
  <2>1. u = WriteAnswered(t, q, TRUE) /\ q.arg \in Run /\ CaseOf[q.arg] \in Case
    BY <1>1, WorkspaceAssumption DEF CallOK
  <2>2. IntakeAdopted(t, q, u)
    BY <1>0, <1>1, <2>1, IntakeAnsweredFields
  <2>3. q.arg = Fresh[CaseOf[q.arg]]
    BY <1>1, WorkspaceAssumption DEF CallOK
  <2>4. u.case = CaseOf[q.arg] /\ AtHome(u.case, u.run) /\ AtHome(CaseOf[q.arg], q.arg)
    <3>1. Home[q.arg] = CaseOf[q.arg]
      BY <2>1, <2>3 DEF OneHome
    <3> QED BY <2>2, <3>1 DEF IntakeAdopted, AtHome
  <2>5. u.loc = t.loc /\ u.claimed = t.claimed /\ u.ran = t.ran /\ u.ask = t.ask /\ u.loading = t.loading
    BY <2>2 DEF IntakeAdopted, IntakeHere, IntakeElsewhere, AllBut, Fields, Undisturbed, Cleared
  <2>6. \A p \in u.net : p.kind = "cases" => ~p.last
    BY <2>2 DEF IntakeAdopted
  <2>7. \A c \in Known(u) : AtHome(c, u.reg[c])
    <3>1. CASE CaseOf[q.arg] = t.case
      <4>1. u.reg = t.reg
        BY <2>2, <3>1 DEF IntakeAdopted, IntakeHere, AllBut, Fields, Undisturbed
      <4> QED BY <4>1 DEF Homed, Known
    <3>2. CASE CaseOf[q.arg] # t.case
      <4>1. /\ Known(u) = Known(t) \cup {CaseOf[q.arg]} /\ u.reg[CaseOf[q.arg]] = q.arg
            /\ \A c \in Known(t) \ {CaseOf[q.arg]} : u.reg[c] = t.reg[c]
        BY <2>2, <3>2 DEF IntakeAdopted, IntakeElsewhere
      <4> QED BY <2>4, <4>1 DEF Homed
    <3> QED BY <3>1, <3>2
  <2>8. Homed(u)
    BY <1>1, <2>4, <2>5, <2>6, <2>7 DEF Homed, AtRest
  <2>9. RunRan(u)
    <3>1. t.ran.route = RouteDeps(t)
      BY DEF AtRest
    <3>2. Routed(t)
      BY <3>1 DEF Routed, RouteDeps
    <3>3. Routed(u) => u.case = t.case /\ u.reg = t.reg /\ u.run = t.run
      BY <2>5, <3>1 DEF Routed, RouteDeps
    <3> QED BY <2>5, <3>2, <3>3 DEF RunRan, RunDeps, Authorized, Known
  <2> QED BY <2>8, <2>9
<1>2. CASE ~(ok /\ q.kind = "intake" /\ Fits(t, q))
  <2>1. Calm(t, u)
    BY <1>2, WriteAnsweredCalm
  <2>2. u.reg = t.reg /\ (u.run = t.run \/ AtHome(t.case, u.run))
    <3>1. CASE ~Fits(t, q)
      BY <3>1 DEF WriteAnswered
    <3>2. CASE Fits(t, q) /\ ~ok
      <4>1. u = Release(t, q)
        BY <3>2 DEF WriteAnswered
      <4> QED BY <1>0, <4>1, ReleaseFields DEF AllBut, Fields
    <3>3. CASE Fits(t, q) /\ ok /\ q.kind = "start"
      <4>1. u = WriteAnswered(t, q, TRUE) /\ q.arg \in Run
        BY <3>3, WorkspaceAssumption DEF CallOK
      <4>2. AllBut(t, u, {"shown", "action", "run", "moved", "net", "status"}) /\ u.run = q.arg
        BY <1>0, <3>3, <4>1, StartAnsweredFields
      <4>3. q.case = t.case /\ q.case \in Case /\ q.arg = Fresh[q.case]
        BY <3>3 DEF CallOK, Fits, Matches
      <4> QED BY <4>2, <4>3 DEF AllBut, Fields, AtHome, OneHome
    <3>4. CASE Fits(t, q) /\ ok /\ q.kind = "resume"
      <4>1. u = WriteAnswered(t, q, TRUE) /\ q.run \in Run
        BY <3>4 DEF CallOK
      <4>2. RunResumed(t, q, u)
        BY <1>0, <3>4, <4>1, ResumeAnsweredFields
      <4> QED BY <4>2 DEF RunResumed, AllBut, Fields
    <3>5. CASE Fits(t, q) /\ ok /\ q.kind \in {"upload", "accept"}
      <4>1. u = RefreshCase(t, q.kind) /\ q.kind \in Kinds \cup {"none"}
        BY <3>5 DEF WriteAnswered, Kinds
      <4>2. AllBut(t, u, {"net"})
        BY <1>0, <4>1, RefreshCaseFields
      <4> QED BY <4>2 DEF AllBut, Fields
    <3> QED BY <1>2, <3>1, <3>2, <3>3, <3>4, <3>5
  <2> QED BY <2>1, <2>2, CalmHomed
<1> QED BY <1>1, <1>2

LEMMA CasesAnsweredHomed ==
  ASSUME NEW t, Sane(t), ServerTyped, NEW want, AtRest(t, want), Homed(t), RunRan(t), \A c \in Case : AtHome(c, head[c]),
         NEW q, NEW ok \in BOOLEAN, \A p \in t.net : p.kind # "cases",
         q.last => t.loading /\ Known(t) = {} /\ AtHome(t.case, t.run),
         NEW u, u = CasesAnswered(t, q, ok)
  PROVE  Homed(u) /\ RunRan(u)
<1>0. t.ran.route = RouteDeps(t) /\ t.claimed = t.loc /\ Addressed(t) /\ Early(t) /\ Asks(t)
  BY DEF AtRest, Chosen
<1>1. CASE ~(q.last /\ Matches(t, q))
  <2>1. u = t
    BY <1>1 DEF CasesAnswered
  <2> QED BY <2>1
<1>2. CASE q.last /\ Matches(t, q) /\ ~ok
  <2>1. u = [t EXCEPT !.loading = FALSE]
    BY <1>2 DEF CasesAnswered
  <2>2. AllBut(t, u, {"loading"}) /\ u.loading = FALSE
    BY <2>1 DEF Sane, Tab, Shaped, Fields, AllBut
  <2>3. /\ u.case = t.case /\ u.run = t.run /\ u.reg = t.reg /\ u.loc = t.loc /\ u.claimed = t.claimed /\ u.ran = t.ran
        /\ u.ask = t.ask /\ u.net = t.net
    BY <2>2 DEF AllBut, Fields
  <2>4. Homed(u)
    BY <1>0, <2>3 DEF Homed, Known
  <2>5. t.loading # u.loading
    BY <1>2, <2>2
  <2>6. ~Routed(u)
    <3>1. ASSUME NEW a, u.ran.route = <<u.case, u.reg, u.loading, a, u.run>> PROVE FALSE
      <4>1. <<t.case, t.reg, t.loading, t.asked, t.run>> = <<u.case, u.reg, u.loading, a, u.run>>
        BY <1>0, <2>3, <3>1 DEF RouteDeps
      <4> QED BY <2>5, <4>1
    <3> QED BY <3>1 DEF Routed
  <2> QED BY <2>4, <2>6 DEF RunRan
<1>3. CASE q.last /\ Matches(t, q) /\ ok
  <2>1. RegisterRead(t, u)
    <3>1. u = CasesAnswered(t, q, TRUE) /\ Tab(t) /\ head \in [Case -> Run \cup {None}]
      BY <1>3 DEF Sane, ServerTyped
    <3> QED BY <1>3, <3>1, RegisterReadFields
  <2>2. t.loading /\ Known(t) = {} /\ AtHome(t.case, t.run) /\ ~t.dirty /\ t.ask = None
    BY <1>0, <1>3 DEF Asks
  <2>3. t.loc = Here(t)
    <3>1. t.ran.url # <<>>
      BY <1>0 DEF Addressed, UrlDeps
    <3> QED BY <1>0, <2>2, <3>1 DEF Early
  <2>4. u.reg = head /\ Known(u) = Case /\ ~u.loading /\ \A p \in u.net : p.kind # "cases"
    <3>1. DOMAIN head = Case
      BY DEF ServerTyped
    <3> QED BY <2>1, <3>1 DEF RegisterRead, Known, Aged, Later
  <2>5. u.loc = t.loc /\ u.claimed = t.loc /\ u.ran = t.ran /\ u.ask = None
    <3>1. CASE RegisterKept(t, u)
      BY <1>0, <2>2, <3>1 DEF RegisterKept, AllBut, Fields
    <3>2. CASE RegisterOpened(t, u)
      BY <1>0, <2>2, <3>2 DEF RegisterOpened, AllBut, Fields, Cleared
    <3> QED BY <2>1, <2>2, <3>1, <3>2 DEF RegisterRead, RegisterAsked
  <2>6. AtHome(u.case, u.run) \/ Home[u.run] \notin Case
    <3>1. CASE RegisterKept(t, u)
      <4>1. u.case = t.case /\ Target(t) = t.case
        BY <3>1 DEF RegisterKept, AllBut, Fields
      <4>2. t.case # None => t.case \in Case
        <5>1. First(Case) \in Case
          BY WorkspaceAssumption DEF First
        <5> QED BY <4>1, <5>1 DEF Target
      <4>3. u.run = t.run \/ (t.case \in Case /\ u.run = head[t.case])
        BY <3>1, <4>2 DEF RegisterKept
      <4> QED BY <2>2, <4>1, <4>3
    <3>2. CASE RegisterOpened(t, u)
      <4>1. u.case = Target(t) /\ t.case \notin Case
        BY <3>2 DEF RegisterOpened, Target
      <4>2. CASE t.loc.run # None /\ ~Bad(t)
        <5>1. u.run = t.run /\ t.loc.case = t.case /\ t.run # None
          BY <2>3, <3>2, <4>2 DEF RegisterOpened, Here
        <5>2. Home[u.run] = t.case
          BY <2>2, <5>1 DEF AtHome
        <5> QED BY <4>1, <5>2
      <4>3. CASE ~(t.loc.run # None /\ ~Bad(t))
        <5>1. u.run = IF Target(t) # None THEN head[Target(t)] ELSE None
          BY <3>2, <4>3 DEF RegisterOpened
        <5>2. Target(t) # None => Target(t) \in Case
          <6>1. First(Case) \in Case
            BY WorkspaceAssumption DEF First
          <6> QED BY <6>1 DEF Target
        <5>3. CASE Target(t) # None
          BY <4>1, <5>1, <5>2, <5>3
        <5>4. CASE Target(t) = None
          BY <5>1, <5>4 DEF AtHome
        <5> QED BY <5>3, <5>4
      <4> QED BY <4>2, <4>3
    <3> QED BY <2>1, <2>2, <3>1, <3>2 DEF RegisterRead, RegisterAsked
  <2>7. Homed(u)
    BY <2>4, <2>5, <2>6 DEF Homed
  <2>8. ~Routed(u)
    <3>1. t.loading # u.loading
      BY <2>2, <2>4
    <3> QED BY <1>0, <2>5, <3>1 DEF Routed, RouteDeps
  <2> QED BY <2>7, <2>8 DEF RunRan
<1> QED BY <1>1, <1>2, <1>3

LEMMA AnswerHomed ==
  ASSUME ~RouteRaces, ~AskRaces, OneHome(Home), Sane(w), ServerTyped, Chosen(w, wish), Homed(w), RunRan(w), Begun,
         NEW q \in w.net, NEW ok \in BOOLEAN, Answer(q, ok)
  PROVE  Homed(w') /\ RunRan(w')
<1> DEFINE t == [w EXCEPT !.net = @ \ {q}]
<1> HIDE DEF t
<1>1. /\ Sane(t) /\ CallOK(q) /\ q \in Request /\ AtRest(t, wish) /\ AnswerOf(t, q, ok, w') /\ Stands(t) /\ t.net = w.net \ {q}
      /\ q.kind = "intake" => t.ask = None
      /\ q.kind = "cases" => \A p \in t.net : p.kind # "cases"
      /\ q.kind = "cases" /\ q.last => t.loading /\ Known(t) = {} /\ wish = None
  BY AnswerTaken DEF t
<1>2. Homed(t) /\ RunRan(t)
  <2>1. \A p \in t.net : p.kind = "cases" => \E x \in w.net : Later(x, p)
    BY <1>1 DEF Later
  <2> QED BY <1>1, <2>1, HomedKept DEF Stands
<1>3. \A c \in Case : AtHome(c, head[c])
  BY DEF Begun
<1>4. CASE q.kind = "cases"
  <2>1. w' = CasesAnswered(t, q, ok)
    BY <1>1, <1>4 DEF AnswerOf
  <2>2. q.last => AtHome(t.case, t.run)
    BY <1>1, <1>4 DEF Homed, Stands
  <2> QED BY <1>1, <1>2, <1>3, <1>4, <2>1, <2>2, CasesAnsweredHomed
<1>5. CASE q.kind = "case"
  <2>1. w' = CaseAnswered(t, q, ok) /\ q.case \in Case
    BY <1>1, <1>5 DEF AnswerOf, CallOK
  <2> QED BY <1>1, <1>2, <1>3, <2>1, CaseAnsweredHomed
<1>6. CASE q.kind = "run"
  <2>1. w' = RunAnswered(t, q, ok) /\ q.arg \in Run /\ q.saw \in {"live", "ended"}
    BY <1>1, <1>6 DEF AnswerOf, CallOK, Request
  <2> QED BY <1>1, <1>2, <2>1, RunAnsweredHomed
<1>7. CASE q.kind = "evidence"
  <2>1. w' = EvidenceAnswered(t, q, ok) /\ q.case \in Case
    BY <1>1, <1>7 DEF AnswerOf, CallOK
  <2> QED BY <1>1, <1>2, <2>1, EvidenceAnsweredHomed
<1>8. CASE q.kind \in {"start", "intake", "upload", "resume", "accept"}
  <2>1. w' = WriteAnswered(t, q, ok)
    BY <1>1, <1>8 DEF AnswerOf
  <2> QED BY <1>1, <1>2, <1>8, <2>1, WriteAnsweredHomed
<1> QED BY <1>1, <1>4, <1>5, <1>6, <1>7, <1>8 DEF Request, Kinds

LEMMA NextHomed ==
  ASSUME ~RouteRaces, ~AskRaces, OneHome(Home), Sane(w), ServerTyped, Fitting(w), Chosen(w, wish), Homed(w), RunRan(w), Begun, Next
  PROVE  Homed(w') /\ RunRan(w')
<1>1. CASE Effects
  BY <1>1, EffectsHomed DEF Effects
<1>2. CASE RouteFires
  BY <1>2, RouteFiresHomed DEF RouteFires
<1>3. CASE \E q \in w.net, ok \in BOOLEAN : Answer(q, ok)
  BY <1>3, AnswerHomed
<1>4. CASE \E l \in Links : Navigate(l) \/ Back(l)
  BY <1>4, NavigateHomed
<1>5. CASE \E c \in Case : PickCase(c)
  BY <1>5, PickCaseHomed
<1>6. CASE \E yes \in BOOLEAN : AnswerDiscard(yes)
  BY <1>6, AnswerDiscardHomed
<1>7. CASE \/ SearchFollows \/ EditDraft \/ StreamOpens \/ StreamDrops \/ OpenEvidence \/ OpenAccept \/ ConfirmAccept
           \/ \E q \in w.net : Serve(q)
           \/ \E r \in Run : RunEnds(r) \/ \E k \in Writes : Post(k, r)
  BY <1>7, StandsHomed
<1> QED BY <1>1, <1>2, <1>3, <1>4, <1>5, <1>6, <1>7 DEF Next

LEMMA NextSeen ==
  ASSUME ~RouteRaces, Sane(w), ServerTyped, Fitting(w), Chosen(w, wish), Homed(w), RunRan(w), Begun, Seen(w, done), Next
  PROVE  Seen(w', done')
<1>1. CASE Effects
  BY <1>1, EffectsSeen DEF Effects
<1>2. CASE RouteFires
  BY <1>2, RouteFiresSeen DEF RouteFires
<1>3. CASE \E q \in w.net, ok \in BOOLEAN : Answer(q, ok)
  BY <1>3, AnswerSeen
<1>4. CASE \E c \in Case : PickCase(c)
  BY <1>4, PickCaseSeen
<1>5. CASE \E yes \in BOOLEAN : AnswerDiscard(yes)
  BY <1>5, AnswerDiscardSeen
<1>6. CASE StreamOpens
  BY <1>6, StreamOpensSeen DEF StreamOpens
<1>7. CASE StreamDrops
  BY <1>7, StreamDropsSeen DEF StreamDrops
<1>8. CASE \E r \in Run : RunEnds(r)
  BY <1>8, RunEndsSeen
<1>9. CASE \E q \in w.net : Serve(q)
  BY <1>9, ServeSeen
<1>10. CASE \/ SearchFollows \/ OpenEvidence \/ OpenAccept \/ ConfirmAccept \/ EditDraft
            \/ \E r \in Run : \E k \in Writes : Post(k, r)
            \/ \E l \in Links : Navigate(l) \/ Back(l)
  BY <1>10, GesturesSeen
<1> QED BY <1>1, <1>2, <1>3, <1>4, <1>5, <1>6, <1>7, <1>8, <1>9, <1>10 DEF Next

\* While links are followed and questions settled first, and no run is linked to a case that
\* is not its own, what the tab shows of its run keeps up with the server.
TabSeen == part = "tab" => Homed(w) /\ RunRan(w) /\ Begun /\ Seen(w, done)
LEMMA TabSeenKept ==
  ASSUME ~RouteRaces, ~AskRaces, ~EarlyBack, OneHome(Home)
  PROVE  MCSpec => []TabSeen
<1>1. MCInit => TabSeen
  <2>1. ASSUME Init PROVE Homed(w) /\ RunRan(w) /\ Begun /\ Seen(w, done)
    <3>1. PICK l \in Links : w = Sent(Opened(l), "cases", "none", None)
      BY <2>1, InitFields
    <3>2. w.net = {Call(Opened(l), "cases", "none", None)} /\ head = Opening /\ done = Over
      BY <2>1, <3>1, OpenedFields, InitFields
    <3>3. \A q \in w.net : ~Starts(q)
      BY <3>2 DEF Starts, Call
    <3>4. \A c \in Case : AtHome(c, head[c]) /\ Fresh[c] \notin done
      BY <3>2, WorkspaceAssumption DEF AtHome, OneHome
    <3>5. Homed(w) /\ RunRan(w)
      BY <3>1, InitHomed
    <3>6. Seen(w, done)
      BY <3>1, InitSeen
    <3> QED BY <3>3, <3>4, <3>5, <3>6 DEF Begun
  <2> QED BY <2>1 DEF MCInit, TabSeen
<1>2. TabSane /\ TabChosen /\ TabSeen /\ [MCNext]_<<part, vars, reportVars>> => TabSeen'
  <2> SUFFICES ASSUME TabSane, TabChosen, TabSeen, [MCNext]_<<part, vars, reportVars>> PROVE TabSeen'
    OBVIOUS
  <2>1. CASE part = "tab" /\ Next /\ UNCHANGED <<part, reportVars>>
    <3>1. Sane(w) /\ ServerTyped /\ Fitting(w) /\ Chosen(w, wish) /\ Homed(w) /\ RunRan(w) /\ Begun /\ Seen(w, done)
      BY <2>1 DEF TabSane, TabChosen, TabSeen
    <3>2. Homed(w') /\ RunRan(w')
      BY <2>1, <3>1, NextHomed
    <3>3. Begun'
      BY <2>1, <3>1, NextBegun
    <3>4. Seen(w', done')
      BY <2>1, <3>1, NextSeen
    <3> QED BY <3>2, <3>3, <3>4 DEF TabSeen
  <2>2. CASE part = "report" /\ part' = part
    BY <2>2 DEF TabSeen
  <2>3. CASE UNCHANGED <<part, vars>>
    BY <2>3 DEF TabSeen, Begun, vars
  <2> QED BY <2>1, <2>2, <2>3 DEF MCNext
<1> QED BY <1>1, <1>2, TabSaneKept, TabChosenKept, PTL DEF MCSpec

\* Once nothing is left to happen, a run that ended while it was selected is shown as ended,
\* or an error is, however the stream dropped and the refreshes overtook each other.
THEOREM RunEndShown ==
  ASSUME ~RouteRaces, ~AskRaces, ~EarlyBack, \E h : OneHome(h)
  PROVE  MCSpec => [](part = "tab" => RunEndIsShown)
<1>0. OneHome(Home)
  BY HomeIsOne
<1>1. TabSane /\ TabSeen => (part = "tab" => RunEndIsShown)
  <2> SUFFICES ASSUME Sane(w), Fitting(w), Seen(w, done), ServerTyped,
                      Quiet, w.stream.run # None => w.stream.open, w.run \in done, Authorized(w), ~w.failed
               PROVE  ShownAsEnded
    BY DEF TabSane, TabSeen, RunEndIsShown, ShownAsEnded
  <2>1. Settled(w) /\ ~Due(w) /\ w.ran.run = RunDeps(w) /\ w.ran.stream = StreamDeps(w)
    BY DEF Quiet, Settled, Due
  <2>2. w.run # None
    BY WorkspaceAssumption DEF ServerTyped
  <2>3. w.shown # None
    BY <2>1, <2>2 DEF Seen, Loads
  <2>4. w.shown \in Shown /\ w.shown.id = w.run /\ CaseOf[w.shown.id] = w.case
    BY <2>1, <2>3 DEF Fitting, Belongs, Sane, Tab, Typed
  <2>5. CASE w.shown.ended = "live"
    <3>1. Live(w)
      BY <2>2, <2>3, <2>4, <2>5 DEF Live
    <3>2. LiveDeps(w.ran.stream) /\ w.ran.stream # <<>> /\ w.ran.stream[2] = w.run
      <4>1. StreamDeps(w) # <<>> /\ StreamDeps(w)[2] = w.run
        BY DEF StreamDeps
      <4> QED BY <2>1, <3>1, <4>1, StreamsLive
    <3>3. w.stream.run = w.run
      BY <3>2 DEF Seen, Streams
    <3>4. Watched(w)
      BY <2>2, <3>3 DEF Watched
    <3> QED BY <2>1, <2>3, <2>5, <3>4 DEF Seen, Ends
  <2>6. CASE w.shown.ended = "ended"
    BY <2>3, <2>4, <2>6 DEF ShownAsEnded
  <2> QED BY <2>4, <2>5, <2>6 DEF Shown
<1>2. MCSpec => []TabSeen
  BY <1>0, TabSeenKept
<1> QED BY <1>1, <1>2, TabSaneKept, PTL

\* However answers, links and drops overtake each other, the tab comes to show the case asked
\* for last, what belongs to it, and the end of its run.
THEOREM TabCoherent ==
  ASSUME ~RouteRaces, ~AskRaces, ~EarlyBack, \E h : OneHome(h)
  PROVE  MCSpec => []TabStaysCoherent
<1>1. (part = "tab" => TypeOK) /\ (part = "tab" => ViewBelongsToSelection) /\ (part = "tab" => SelectionSticks)
      /\ (part = "tab" => RunEndIsShown) => TabStaysCoherent
  BY DEF TabStaysCoherent, TabIsCoherent
<1> QED BY <1>1, WorkspaceTypes, ViewBelongs, SelectionStays, RunEndShown, PTL
=============================================================================
