---------------------------- MODULE LiveSession ----------------------------
(***************************************************************************)
(* A live-mode session end to end: the page's bar (live-browser.js and     *)
(* live-browser-session.js), the helper server with its queue, leases and  *)
(* event stream (live-server.mjs) over the journal of LiveJournal, the     *)
(* poller (live-poll.mjs, live-complete.mjs) and the agent behind it, and  *)
(* the source file that live-wrap and live-accept rewrite.                 *)
(*                                                                         *)
(* One page, one agent in one-shot mode.  Requests of the page travel on   *)
(* connections of their own and may arrive in any order; the event stream  *)
(* is ordered and is lost with its connection.  All variants of a session  *)
(* arrive in one write.  A checkpoint may be sent whenever the bar has a   *)
(* session, and is dropped without a trace when it fails; it reaches the   *)
(* journal at once, and every phase it can name is one phase here.         *)
(***************************************************************************)
EXTENDS LiveJournal, FiniteSets, SequencesExt

CONSTANTS
  Sessions,      \* the ids the page draws for its Go presses
  None,          \* no session
  N,             \* variants per session
  Results,       \* outcomes of live-accept on a markup session it finds
  SlowFetch,     \* a fetch of the source may still be under way when the user presses again,
                 \* or when the scout finds another session
  MaxAsks,       \* bound: accept and discard presses
  Faults,        \* the faults that happen: stops of the helper, reloads of the page,
                 \* broken event streams, interruptions of the agent
  MaxFaults      \* bound: faults, a discard that fails among them

ASSUME LiveAssumption ==
  /\ None \notin Sessions /\ IsFiniteSet(Sessions)
  /\ N \in Nat \ {0}
  /\ Results \subseteq {"plain", "carbonize", "fallback", "failed"}
  /\ Faults \subseteq {"stop", "reload", "drop", "kill"}
  /\ SlowFetch \in BOOLEAN
  /\ MaxAsks \in Nat /\ MaxFaults \in Nat

VARIABLES
  tab,      \* the page: state, session, variants arrived, variant shown, accept awaited
  disk,     \* localStorage: the saved session and the one handled id
  observing, \* the sessions the page's variant observer and its scout watch for
  fetching, \* the session whose source is being fetched, and how far it got
  net,      \* requests of the page under way
  answers,  \* answers to accepts and discards on their way to the page
  up,       \* the helper is running
  fresh,    \* the page holds the token of the running helper
  queue,    \* pendingEvents
  snap,     \* the journals
  conn,     \* the event stream is open
  sse,      \* messages on it
  exitDue,  \* the 8 s exit timer runs
  agent,    \* the agent: where it is, with which event and result
  src,      \* the source file, by session
  dom,      \* what the page shows of it
  landed,   \* the variant live-accept kept in the source
  count     \* what the bounds count

vars == <<tab, disk, observing, fetching, net, answers, up, fresh, queue, snap,
          conn, sse, exitDue, agent, src, dom, landed, count>>

pageVars   == <<tab, disk, observing, fetching>>
wireVars   == <<net, answers>>
serverVars == <<up, fresh, queue, snap, conn, sse, exitDue>>
worldVars  == <<src, dom, landed>>

NoAccept == [id |-> None, v |-> 0]
NoFetch  == [id |-> None, sent |-> FALSE]
NoSaved  == [id |-> None, st |-> "IDLE", shown |-> 0]
NoEvent  == [id |-> None, type |-> "none", v |-> 0, leased |-> FALSE]
Resting  == [at |-> "idle", ev |-> NoEvent, answer |-> "none", carbonize |-> FALSE, stops |-> 0]

TabStates == {"IDLE", "PICKING", "GENERATING", "CYCLING", "SAVING", "CONFIRMED"}
Wrapped(view) == view \in {"wrap", "full"}
Arrived(view) == IF view = "full" THEN N ELSE 0

Init ==
  /\ tab = [st |-> "PICKING", cur |-> None, arrived |-> 0, shown |-> 0, accept |-> NoAccept]
  /\ disk = [saved |-> NoSaved, handled |-> None]
  /\ observing = [variants |-> None, scout |-> TRUE]
  /\ fetching = NoFetch
  /\ net = {}
  /\ answers = {}
  /\ up = TRUE
  /\ fresh = TRUE
  /\ queue = <<>>
  /\ snap = [s \in Sessions |-> BaseSnapshot]
  /\ conn = TRUE
  /\ sse = <<>>
  /\ exitDue = FALSE
  /\ agent = Resting
  /\ src = [s \in Sessions |-> "none"]
  /\ dom = [s \in Sessions |-> "none"]
  /\ landed = [s \in Sessions |-> 0]
  /\ count = [asks |-> 0, faults |-> 0, stops |-> 0]

-----------------------------------------------------------------------------
(* The page. *)

(* saveSession: nothing is saved without a session. *)
Saved(t) == IF t.cur = None THEN disk.saved
            ELSE [id |-> t.cur, st |-> t.st, shown |-> t.shown]

Show(t) == /\ tab' = t
           /\ disk' = [disk EXCEPT !.saved = Saved(t)]

Request(type, id, v) == [type |-> type, id |-> id, v |-> v]

(* checkpointPayload, sendCheckpoint and queueCheckpoint: the journal of   *)
(* whatever session is current when the 120 ms timer fires.                *)
Checkpoint ==
  /\ up /\ fresh /\ tab.cur /= None
  /\ snap' = [snap EXCEPT ![tab.cur] = ApplyEvent(@, [type |-> "checkpoint", phase |-> "in_page"])]
  /\ UNCHANGED <<pageVars, wireVars, up, fresh, queue, conn, sse, exitDue, agent, worldVars, count>>

Pressable == SlowFetch \/ ~fetching.sent

(* handleGo, handleInsertCreate and captureAndEmit: the bar turns to       *)
(* GENERATING at once, the request follows the capture.  The session the   *)
(* bar showed before, if any, is left behind.                              *)
Go(s) ==
  /\ Pressable
  /\ tab.st = "PICKING"
  /\ snap[s] = BaseSnapshot /\ src[s] = "none"
  /\ \A r \in net : r.id /= s
  /\ tab.cur /= s /\ disk.saved.id /= s
  /\ Show([st |-> "GENERATING", cur |-> s, arrived |-> 0, shown |-> 0, accept |-> NoAccept])
  /\ observing' = [observing EXCEPT !.variants = s]
  /\ net' = net \union {Request("generate", s, 0)}
  /\ UNCHANGED <<fetching, answers, serverVars, agent, worldVars, count>>

(* resumeSession on a page whose markup holds the wrapper of session s. *)
Resumed(s, view) ==
  LET saved == disk.saved
      shown == IF saved.id = s /\ saved.shown \in 1..Arrived(view) THEN saved.shown
               ELSE IF Arrived(view) > 0 THEN 1 ELSE 0
  IN  [st |-> IF view = "full" THEN "CYCLING" ELSE "GENERATING",
       cur |-> s, arrived |-> Arrived(view), shown |-> shown, accept |-> tab.accept]

Resume(s, view) ==
  IF disk.handled = s
  THEN UNCHANGED <<tab, disk>> /\ observing' = [observing EXCEPT !.scout = FALSE]
  ELSE /\ Show(Resumed(s, view))
       /\ observing' = [variants |-> s, scout |-> FALSE]

(* The variant observer: variants that land while it watches move the bar  *)
(* to CYCLING, whatever it showed.                                         *)
Observe(s, view) ==
  IF s = observing.variants /\ Arrived(view) > tab.arrived
  THEN LET saved == disk.saved
           shown == IF tab.shown /= 0 THEN tab.shown
                    ELSE IF saved.id = s /\ saved.shown \in 1..N THEN saved.shown ELSE 1
       IN  /\ Show([tab EXCEPT !.st = "CYCLING", !.arrived = N, !.shown = shown])
           /\ UNCHANGED observing
  ELSE UNCHANGED <<tab, disk, observing>>

(* A hot update of the dev server brings the source's view of a session    *)
(* to the page; the scout set up by init resumes the first wrapper.        *)
HotUpdate(s) ==
  /\ dom[s] /= src[s]
  /\ observing.scout /\ Wrapped(src[s]) => Pressable \/ fetching.id = s
  /\ dom' = [dom EXCEPT ![s] = src[s]]
  /\ IF observing.scout /\ Wrapped(src[s]) THEN Resume(s, src[s]) ELSE Observe(s, src[s])
  /\ UNCHANGED <<fetching, wireVars, serverVars, agent, src, landed, count>>

(* selectVariant, shown and saved. *)
Cycle(v) ==
  /\ tab.st = "CYCLING" /\ v \in 1..tab.arrived /\ v /= tab.shown
  /\ Show([tab EXCEPT !.shown = v])
  /\ UNCHANGED <<observing, fetching, wireVars, serverVars, agent, worldVars, count>>

(* handleAccept. *)
Accept ==
  /\ Pressable
  /\ count.asks < MaxAsks
  /\ tab.st = "CYCLING"
  /\ tab.accept = NoAccept
  /\ tab.cur /= None /\ tab.arrived > 0
  /\ Show([tab EXCEPT !.st = "SAVING", !.accept = [id |-> tab.cur, v |-> tab.shown]])
  /\ net' = net \union {Request("accept", tab.cur, tab.shown)}
  /\ count' = [count EXCEPT !.asks = @ + 1]
  /\ UNCHANGED <<observing, fetching, answers, serverVars, agent, worldVars>>

(* handleDiscard: the bar waits for the answer before it lets go. *)
Discard ==
  /\ Pressable
  /\ count.asks < MaxAsks
  /\ tab.st = "CYCLING"
  /\ tab.cur /= None
  /\ net' = net \union {Request("discard", tab.cur, 0)}
  /\ count' = [count EXCEPT !.asks = @ + 1]
  /\ UNCHANGED <<pageVars, answers, serverVars, agent, worldVars>>

(* cleanup, with markSessionHandled where the caller does both: the        *)
(* localStorage session is dropped, the handled id is the current one.     *)
Cleaned(marks) ==
  /\ tab' = [tab EXCEPT !.st = "PICKING", !.cur = None]
  /\ disk' = [saved |-> NoSaved,
              handled |-> IF marks /\ tab.cur /= None THEN tab.cur ELSE disk.handled]
  /\ observing' = [observing EXCEPT !.variants = None]

(* The answers to accept and discard requests: sendEvent(...).then/.catch. *)
Answered(a) ==
  /\ a \in answers
  /\ answers' = answers \ {a}
  /\ CASE a.type = "accept" /\ ~a.ok ->
            /\ tab' = [tab EXCEPT !.st = "CYCLING",
                         !.accept = IF @.id = a.id THEN NoAccept ELSE @]
            /\ UNCHANGED <<disk, observing>>
       [] a.type = "discard" /\ a.ok -> Cleaned(TRUE)
       [] OTHER -> UNCHANGED <<tab, disk, observing>>
  /\ UNCHANGED <<fetching, net, serverVars, agent, worldVars, count>>

(* restoreSessionWithoutWrapper: where the helper lists sessions, the saved *)
(* one is among them and nobody has asked to end it.                        *)
Restorable(active) ==
  LET saved == disk.saved
  IN  /\ saved.id /= None /\ saved.id /= disk.handled
      /\ saved.st \in {"GENERATING", "CYCLING"}
      /\ \/ active = {}
         \/ \E session \in active : session.id = saved.id /\ ~Ending(session.phase)

Restored == [tab EXCEPT !.st = "GENERATING", !.cur = disk.saved.id,
                        !.arrived = IF disk.saved.st = "CYCLING" THEN N ELSE 0,
                        !.shown = disk.saved.shown]

Restore ==
  /\ Show(Restored)
  /\ observing' = [observing EXCEPT !.variants = disk.saved.id]
  /\ fetching' \in {fetching, [id |-> disk.saved.id, sent |-> TRUE]}

(* scheduleAcceptCleanup: the confirmation ends in a clean bar. *)
Confirmed ==
  /\ tab.st = "CONFIRMED"
  /\ tab' = [tab EXCEPT !.st = "PICKING", !.cur = None, !.accept = NoAccept]
  /\ disk' = [disk EXCEPT !.saved = NoSaved]
  /\ observing' = [observing EXCEPT !.variants = None]
  /\ UNCHANGED <<fetching, wireVars, serverVars, agent, worldVars, count>>

-----------------------------------------------------------------------------
(* The event stream of the page. *)

(* onmessage, 'connected': the helper lists the sessions it holds active.  *)
(* A page that shows a wrapper restores nothing.                           *)
OnConnected(msg) ==
  IF (\A s \in Sessions : ~Wrapped(dom[s])) /\ Restorable(msg.active)
  THEN Restore
  ELSE UNCHANGED <<tab, disk, observing, fetching>>

(* 'done': the variants are on the page, or their source is fetched after  *)
(* 750 ms.                                                                 *)
OnDone(msg) ==
  /\ IF tab.arrived = N /\ tab.st = "GENERATING"
     THEN tab' = [tab EXCEPT !.st = "CYCLING"]
     ELSE UNCHANGED tab
  /\ IF tab.arrived < N /\ tab.st = "GENERATING" /\ msg.id = tab.cur
     THEN fetching' = [id |-> msg.id, sent |-> FALSE]
     ELSE UNCHANGED fetching
  /\ UNCHANGED <<disk, observing>>

(* 'complete': maybeCompleteAcceptedSession. *)
OnComplete(msg) ==
  /\ IF tab.accept.id /= msg.id \/ tab.st = "CONFIRMED"
     THEN UNCHANGED <<tab, disk>>
     ELSE IF tab.cur \notin {None, msg.id}
     THEN tab' = [tab EXCEPT !.accept = NoAccept] /\ UNCHANGED disk
     ELSE /\ tab' = [tab EXCEPT !.st = "CONFIRMED"]
          /\ disk' = [disk EXCEPT !.handled = IF tab.cur = None THEN @ ELSE tab.cur]
  /\ UNCHANGED <<observing, fetching>>

OnDiscarded(msg) ==
  /\ IF msg.id = tab.cur THEN Cleaned(TRUE) ELSE UNCHANGED <<tab, disk, observing>>
  /\ UNCHANGED <<fetching>>

(* Only the error of an awaited accept reaches the bar. *)
OnErrorOfAccept(msg) ==
  /\ tab' = IF tab.accept.id = msg.id
            THEN [tab EXCEPT !.st = "CYCLING", !.accept = NoAccept] ELSE tab
  /\ UNCHANGED <<disk, observing, fetching>>

(* 'error': an awaited accept goes back to the choice; any other error,    *)
(* whichever session it names, puts the bar back to picking.               *)
OnError(msg) ==
  /\ tab' = IF tab.accept.id = msg.id
            THEN [tab EXCEPT !.st = "CYCLING", !.accept = NoAccept]
            ELSE [tab EXCEPT !.st = "PICKING"]
  /\ UNCHANGED <<disk, observing, fetching>>

Message ==
  /\ sse /= <<>>
  /\ sse' = Tail(sse)
  /\ LET msg == Head(sse)
     IN CASE msg.type = "connected"  -> OnConnected(msg)
          [] msg.type = "done"       -> OnDone(msg)
          [] msg.type = "complete"   -> OnComplete(msg)
          [] msg.type = "discarded"  -> OnDiscarded(msg)
          [] msg.type = "error"      -> OnError(msg)
          [] msg.type = "agent_done" -> UNCHANGED pageVars
  /\ UNCHANGED <<wireVars, up, fresh, queue, snap, conn, exitDue, agent, worldVars, count>>

(* The 750 ms timer of 'done' fires: the source is fetched only for the    *)
(* session that still waits.                                               *)
FetchStarts ==
  /\ fetching.id /= None /\ ~fetching.sent
  /\ fetching' = IF tab.arrived < N /\ tab.st = "GENERATING" /\ tab.cur = fetching.id
                 THEN [fetching EXCEPT !.sent = TRUE]
                 ELSE NoFetch
  /\ UNCHANGED <<tab, disk, observing, wireVars, serverVars, agent, worldVars, count>>

(* injectVariantsFromSource: what the fetch returns is put on the page,    *)
(* whatever the bar has moved on to.                                       *)
FetchLands ==
  LET s == fetching.id
      kept == IF tab.cur = s THEN tab.shown ELSE 0
      saved == IF disk.saved.id = s THEN disk.saved.shown ELSE 0
      shown == IF kept > 0 THEN kept ELSE IF saved > 0 THEN saved ELSE 1
  IN  /\ s /= None /\ fetching.sent
      /\ fetching' = NoFetch
      /\ dom' = IF up /\ fresh /\ Wrapped(src[s]) THEN [dom EXCEPT ![s] = src[s]] ELSE dom
      /\ CASE up /\ fresh /\ src[s] = "full" ->
                 /\ Show([tab EXCEPT !.st = "CYCLING", !.arrived = N, !.shown = shown])
                 /\ UNCHANGED observing
           [] up /\ fresh /\ src[s] = "wrap" -> Cleaned(FALSE)
           [] OTHER -> UNCHANGED <<tab, disk, observing>>
      /\ UNCHANGED <<wireVars, serverVars, agent, src, landed, count>>

-----------------------------------------------------------------------------
(* The helper. *)

Broadcast(msg) == sse' = IF conn THEN Append(sse, msg) ELSE sse
Notice(type, id) == [type |-> type, id |-> id, active |-> {}]

(* Every event is queued, also one that is there. *)
EnqueuedAgain(q, id, type, v) ==
  Append(q, [id |-> id, type |-> type, v |-> v, leased |-> FALSE])

(* enqueueEvent: at most one entry of an id and type. *)
Enqueued(q, id, type, v) ==
  IF \E i \in DOMAIN q : q[i].id = id /\ q[i].type = type THEN q
  ELSE Append(q, [id |-> id, type |-> type, v |-> v, leased |-> FALSE])

(* The page waits for the answer to a discard, and for a failed accept; a  *)
(* failed generate is dropped.                                             *)
Answering(r, ok) ==
  IF r.type = "discard" \/ (r.type = "accept" /\ ~ok)
  THEN answers \union {[type |-> r.type, id |-> r.id, ok |-> ok]} ELSE answers

(* POST /events. *)
Receive(r) ==
  /\ r \in net /\ up
  /\ net' = net \ {r}
  /\ IF ~fresh
     THEN UNCHANGED <<snap, queue>>
     ELSE /\ snap' = [snap EXCEPT ![r.id] = ApplyEvent(@, r)]
          /\ queue' = Enqueued(queue, r.id, r.type, r.v)
  /\ answers' = Answering(r, fresh)
  /\ UNCHANGED <<pageVars, up, fresh, conn, sse, exitDue, agent, worldVars, count>>

(* A request that cannot reach the helper. *)
Unreachable(r) ==
  /\ r \in net /\ ~up
  /\ net' = net \ {r}
  /\ answers' = Answering(r, FALSE)
  /\ UNCHANGED <<pageVars, serverVars, agent, worldVars, count>>

(* cancelQueuedAnonymousExitEvents: there is one exit in the queue at most. *)
CancelExit ==
  \/ \E i \in DOMAIN queue : queue[i].type = "exit" /\ queue' = RemoveAt(queue, i)
  \/ (\A i \in DOMAIN queue : queue[i].type /= "exit") /\ UNCHANGED queue

(* GET /events: a page with the token connects; the exit timer and an exit *)
(* nobody has taken are cancelled.                                         *)
Connect ==
  /\ up /\ fresh /\ ~conn
  /\ conn' = TRUE
  /\ exitDue' = FALSE
  /\ CancelExit
  /\ sse' = <<[type |-> "connected", id |-> None, active |-> Summaries(snap)]>>
  /\ UNCHANGED <<pageVars, wireVars, up, fresh, snap, agent, worldVars, count>>

(* The stream breaks: what was on it is lost, the page's EventSource will  *)
(* connect again and the 8 s exit timer runs.                              *)
Drop ==
  /\ "drop" \in Faults /\ count.faults < MaxFaults
  /\ conn
  /\ conn' = FALSE /\ sse' = <<>> /\ exitDue' = TRUE
  /\ count' = [count EXCEPT !.faults = @ + 1]
  /\ UNCHANGED <<pageVars, wireVars, up, fresh, queue, snap, agent, worldVars>>

ExitTimer ==
  /\ exitDue /\ up
  /\ exitDue' = FALSE
  /\ queue' = Append(queue, [NoEvent EXCEPT !.type = "exit"])
  /\ UNCHANGED <<pageVars, wireVars, up, fresh, snap, conn, sse, agent, worldVars, count>>

(* shutdown or a crash: the queue, the leases and the streams go. *)
Stop ==
  /\ "stop" \in Faults /\ count.faults < MaxFaults
  /\ up
  /\ up' = FALSE /\ queue' = <<>> /\ conn' = FALSE /\ sse' = <<>> /\ exitDue' = FALSE
  /\ count' = [count EXCEPT !.faults = @ + 1, !.stops = @ + 1]
  /\ UNCHANGED <<pageVars, wireVars, fresh, snap, agent, worldVars>>

(* A restarted helper begins with an empty queue. *)
StartEmpty ==
  /\ ~up
  /\ up' = TRUE /\ fresh' = FALSE
  /\ queue' = <<>>
  /\ UNCHANGED <<pageVars, wireVars, snap, conn, sse, exitDue, agent, worldVars, count>>

(* The helper starts with a new token; the pending event of every active   *)
(* session is queued again, in the order of the ids.                       *)
Start ==
  /\ ~up
  /\ up' = TRUE /\ fresh' = FALSE
  /\ LET pending == {s \in ActiveSessions(snap) : snap[s].pending /= Idle}
     IN \E order \in SetToSeqs(pending) :
          queue' = [i \in DOMAIN order |->
                      [id |-> order[i], type |-> snap[order[i]].pending.type,
                       v |-> snap[order[i]].pending.v, leased |-> FALSE]]
  /\ UNCHANGED <<pageVars, wireVars, snap, conn, sse, exitDue, agent, worldVars, count>>

(* The page reloads from the helper and the dev server: the bar starts     *)
(* over (init), requests under way may or may not have left.               *)
Reload ==
  /\ "reload" \in Faults /\ count.faults < MaxFaults
  /\ up
  /\ count' = [count EXCEPT !.faults = @ + 1]
  /\ fresh' = TRUE /\ conn' = FALSE /\ sse' = <<>> /\ exitDue' = (exitDue \/ conn)
  /\ net' \in SUBSET net
  /\ answers' = {}
  /\ dom' = src
  /\ UNCHANGED <<up, queue, snap, agent, src, landed>>
  /\ LET blank == [st |-> "PICKING", cur |-> None, arrived |-> 0, shown |-> 0, accept |-> NoAccept]
         wrappers == {s \in Sessions : Wrapped(src[s])}
     IN \/ \E s \in wrappers :
             /\ fetching' = NoFetch
             /\ IF disk.handled = s
                THEN /\ tab' = blank
                     /\ observing' = [variants |-> None, scout |-> TRUE]
                     /\ UNCHANGED disk
                ELSE /\ Show([Resumed(s, src[s]) EXCEPT !.accept = NoAccept])
                     /\ observing' = [variants |-> s, scout |-> FALSE]
        \/ /\ wrappers = {}
           /\ IF Restorable({})
              THEN /\ Show([Restored EXCEPT !.accept = NoAccept])
                   /\ observing' = [variants |-> disk.saved.id, scout |-> FALSE]
                   /\ fetching' \in {NoFetch, [id |-> disk.saved.id, sent |-> TRUE]}
              ELSE /\ tab' = blank
                   /\ disk' = [saved |-> NoSaved, handled |-> None]
                   /\ observing' = [variants |-> None, scout |-> TRUE]
                   /\ fetching' = NoFetch

-----------------------------------------------------------------------------
(* The poller and the agent. *)

(* findAvailablePendingEvent and leaseEvent, to a poll that waits or comes: *)
(* an event without an id leaves the queue as it is handed out.             *)
Deliver ==
  /\ up /\ agent.at = "idle"
  /\ \E i \in DOMAIN queue :
       /\ ~queue[i].leased
       /\ \A j \in 1..(i - 1) : queue[j].leased
       /\ IF queue[i].id = None
          THEN queue' = RemoveAt(queue, i) /\ agent' = [Resting EXCEPT !.at = "off"]
          ELSE /\ queue' = [queue EXCEPT ![i].leased = TRUE]
               /\ agent' = [Resting EXCEPT !.at = "work", !.ev = queue[i], !.stops = count.stops]
  /\ UNCHANGED <<pageVars, wireVars, up, fresh, snap, conn, sse, exitDue, worldVars, count>>

(* A lease nobody works under any more runs out. *)
LeaseEnds ==
  /\ agent.at \in {"idle", "off"}
  /\ \E i \in DOMAIN queue :
       /\ queue[i].leased
       /\ queue' = [queue EXCEPT ![i].leased = FALSE]
  /\ UNCHANGED <<pageVars, wireVars, up, fresh, snap, conn, sse, exitDue, agent, worldVars, count>>

Replying(answer, carbonize) ==
  agent' = [agent EXCEPT !.at = "reply", !.answer = answer, !.carbonize = carbonize]

(* The agent serves a generate: it wraps the element, writes the variants, *)
(* then answers; or it gives up, reverts its wrapper and answers an error. *)
(* An assumption on the agent, which no code here enforces: handed the     *)
(* event again, it does not wrap a source where the session was decided.   *)
(* DecidedOnce rests on it.                                                *)
Generate ==
  /\ agent.at = "work" /\ agent.ev.type = "generate"
  /\ LET s == agent.ev.id
     IN \/ /\ src[s] = "none"
           /\ src' = [src EXCEPT ![s] = "wrap"]
           /\ UNCHANGED agent
        \/ /\ src[s] = "wrap"
           /\ src' = [src EXCEPT ![s] = "full"]
           /\ UNCHANGED agent
        \/ /\ src[s] \notin {"none", "wrap"}
           /\ Replying("done", FALSE)
           /\ UNCHANGED src
        \/ /\ src[s] \in {"none", "wrap"}
           /\ Replying("error", FALSE)
           /\ src' = [src EXCEPT ![s] = "restored"]
  /\ UNCHANGED <<pageVars, wireVars, serverVars, dom, landed, count>>

(* A live-accept that failed is reported like one that found no markers. *)
OutcomeWithoutError(type, result) ==
  CompletionType(type, [handled |-> result \in {"plain", "carbonize"},
                        carbonize |-> result = "carbonize", mode |-> "none"])

(* augmentEventWithAcceptHandling runs live-accept: the markers found, the *)
(* variant is kept or the original restored; not found, nothing is written *)
(* and the answer says so.                                                 *)
Outcome(type, result) ==
  CompletionType(type, [handled |-> result \in {"plain", "carbonize"},
                        carbonize |-> result = "carbonize",
                        mode |-> IF result = "failed" THEN "error" ELSE "none"])

(* A wrap leaves what the markers of an earlier decision held. *)
ApplyToAny ==
  /\ agent.at = "work" /\ agent.ev.type \in {"accept", "discard"}
  /\ \E result \in Results \ {"fallback", "failed"} :
       /\ (result = "carbonize") => (agent.ev.type = "accept")
       /\ Replying(Outcome(agent.ev.type, result), result = "carbonize")
       /\ src' = [src EXCEPT ![agent.ev.id] = IF agent.ev.type = "accept" THEN "kept" ELSE "restored"]
       /\ landed' = [landed EXCEPT ![agent.ev.id] = agent.ev.v]
  /\ UNCHANGED <<pageVars, wireVars, serverVars, dom, count>>

Apply ==
  /\ agent.at = "work" /\ agent.ev.type \in {"accept", "discard"}
  /\ \E result \in Results \union {"missing"} :
       LET s == agent.ev.id
           found == src[s] = "full" \/ (src[s] = "wrap" /\ agent.ev.type = "discard")
           writes == result \in {"plain", "carbonize"}
           undone == agent.ev.type = "discard" /\ ~writes
       IN /\ (result = "missing") <=> ~found
          /\ (result = "carbonize") => (agent.ev.type = "accept")
          /\ Replying(Outcome(agent.ev.type, result), result = "carbonize")
          /\ src' = [src EXCEPT ![s] = IF ~writes THEN @
                                       ELSE IF agent.ev.type = "accept" THEN "kept" ELSE "restored"]
          /\ landed' = [landed EXCEPT ![s] = IF writes /\ agent.ev.type = "accept"
                                             THEN agent.ev.v ELSE @]
          /\ undone /\ found => count.faults < MaxFaults
          /\ count' = [count EXCEPT !.faults = IF undone THEN @ + 1 ELSE @]
  /\ UNCHANGED <<pageVars, wireVars, serverVars, dom>>

(* handlePollPost: the reply acknowledges the first entry of its id,       *)
(* whatever its type, is journaled unless it acknowledges nothing of a     *)
(* finished session, and is broadcast.                                     *)
Ack(s) ==
  \/ \E i \in DOMAIN queue :
       /\ queue[i].id = s /\ \A j \in 1..(i - 1) : queue[j].id /= s
       /\ queue' = RemoveAt(queue, i)
  \/ (\A i \in DOMAIN queue : queue[i].id /= s) /\ UNCHANGED queue

PollPost(s, answer, carbonize) ==
  LET acks  == \E i \in DOMAIN queue : queue[i].id = s
      known == acks \/ snap[s] /= BaseSnapshot
      event == [type |-> ReplyType(answer), carbonize |-> carbonize]
  IN  /\ Ack(s)
      /\ snap' = IF known /\ (acks \/ ~Terminal(snap[s]))
                 THEN [snap EXCEPT ![s] = ApplyEvent(@, event)] ELSE snap
      /\ IF known THEN Broadcast(Notice(answer, s)) ELSE UNCHANGED sse

(* The poller answers an accept or a discard with the token it polled      *)
(* with; the agent's own replies read the token anew.                      *)
Reachable == up /\ (agent.ev.type = "generate" \/ agent.stops = count.stops)

(* The agent posts its answer; after a carbonize accept it cleans up, and  *)
(* completes the session before it polls again.                            *)
Reply ==
  /\ agent.at = "reply" /\ Reachable
  /\ PollPost(agent.ev.id, agent.answer, agent.carbonize)
  /\ agent' = IF agent.carbonize
              THEN [agent EXCEPT !.at = "cleanup", !.answer = "complete"] ELSE Resting
  /\ UNCHANGED <<pageVars, wireVars, up, fresh, conn, exitDue, worldVars, count>>

(* The reply finds no helper, or another one: a discard carried out is     *)
(* completed by hand.                                                      *)
ReplyFails ==
  /\ agent.at = "reply" /\ ~Reachable
  /\ agent' = IF agent.answer = "discarded" \/ agent.carbonize
              THEN [agent EXCEPT !.at = "cleanup",
                      !.answer = IF agent.carbonize THEN "complete" ELSE "discarded"]
              ELSE Resting
  /\ UNCHANGED <<pageVars, wireVars, serverVars, worldVars, count>>

(* live-complete, through the helper or into the journal itself. *)
LiveComplete ==
  /\ agent.at = "cleanup"
  /\ agent' = Resting
  /\ IF up
     THEN PollPost(agent.ev.id, agent.answer, FALSE)
     ELSE /\ snap' = [snap EXCEPT ![agent.ev.id] =
                        ApplyEvent(@, [type |-> ReplyType(agent.answer), carbonize |-> FALSE])]
          /\ UNCHANGED <<queue, sse>>
  /\ UNCHANGED <<pageVars, wireVars, up, fresh, conn, exitDue, worldVars, count>>

(* The agent is interrupted: what it was doing is not finished. *)
Kill ==
  /\ "kill" \in Faults /\ count.faults < MaxFaults
  /\ agent.at \in {"work", "reply", "cleanup"}
  /\ agent' = Resting
  /\ count' = [count EXCEPT !.faults = @ + 1]
  /\ UNCHANGED <<pageVars, wireVars, serverVars, worldVars>>

-----------------------------------------------------------------------------
PageStep ==
  \/ \E s \in Sessions : Go(s) \/ HotUpdate(s)
  \/ \E v \in 1..N : Cycle(v)
  \/ Accept \/ Discard \/ Checkpoint
  \/ \E a \in answers : Answered(a)
  \/ Confirmed \/ Message \/ FetchStarts \/ FetchLands

HelperStep ==
  \/ \E r \in net : Receive(r) \/ Unreachable(r)
  \/ Connect \/ ExitTimer \/ Start \/ LeaseEnds

AgentStep == Deliver \/ Generate \/ Apply \/ Reply \/ ReplyFails \/ LiveComplete

FaultStep == Stop \/ Reload \/ Drop \/ Kill

Next == PageStep \/ HelperStep \/ AgentStep \/ FaultStep

Spec == Init /\ [][Next]_vars
-----------------------------------------------------------------------------
Ids      == Sessions \union {None}
Views    == {"none", "wrap", "full", "kept", "restored"}
Asks     == {"generate", "accept", "discard"}
Replies  == {"done", "complete", "discarded", "agent_done", "error"}
Pending  == [type : Asks, v : 0..N] \union {Idle}
Phases   == {"new", "in_page", "generate_requested", "accept_requested", "discard_requested",
             "carbonize_required", "variants_ready", "discarded", "completed", "agent_error"}
Entries  == [id : Sessions, type : Asks, v : 0..N, leased : BOOLEAN]
            \union {[NoEvent EXCEPT !.type = "exit"]}
Messages == [type : Replies, id : Sessions, active : {{}}]
            \union [type : {"connected"}, id : {None}, active : SUBSET [id : Sessions, phase : Phases]]
Handled  == [id : Sessions, type : Asks, v : 0..N, leased : BOOLEAN]

(* Every variable has its type; the queue holds one entry of an id and     *)
(* type, the exit included.                                                *)
TypeOK ==
  /\ tab \in [st : TabStates, cur : Ids, arrived : {0, N}, shown : 0..N,
              accept : [id : Ids, v : 0..N]]
  /\ disk \in [saved : [id : Ids, st : TabStates, shown : 0..N], handled : Ids]
  /\ observing \in [variants : Ids, scout : BOOLEAN]
  /\ fetching \in [id : Ids, sent : BOOLEAN]
  /\ net \subseteq [type : Asks, id : Sessions, v : 0..N]
  /\ answers \subseteq [type : {"accept", "discard"}, id : Sessions, ok : BOOLEAN]
  /\ up \in BOOLEAN /\ fresh \in BOOLEAN /\ conn \in BOOLEAN /\ exitDue \in BOOLEAN
  /\ queue \in Seq(Entries)
  /\ \A i, j \in DOMAIN queue : queue[i].id = queue[j].id /\ queue[i].type = queue[j].type => i = j
  /\ snap \in [Sessions -> [phase : Phases, pending : Pending]]
  /\ sse \in Seq(Messages)
  /\ agent \in [at : {"idle", "off", "work", "reply", "cleanup"}, ev : Handled \union {NoEvent},
                answer : Replies \union {"none"}, carbonize : BOOLEAN, stops : Nat]
  /\ src \in [Sessions -> Views] /\ dom \in [Sessions -> Views]
  /\ landed \in [Sessions -> 0..N]
  /\ count \in [asks : Nat, faults : Nat, stops : Nat]

(* Nothing stopped, broke or was interrupted, and every discard was        *)
(* carried out.                                                            *)
NoFault == count.faults = 0

(* While the helper runs, the event a session's journal holds as pending   *)
(* is in the queue: what a restart would bring back is also delivered      *)
(* without one (enqueueEvent, acknowledgePendingEvent,                     *)
(* restorePendingEventsFromStore).                                         *)
JournalPendingIsQueued ==
  up => \A s \in ActiveSessions(snap) :
          snap[s].pending /= Idle =>
            \E i \in DOMAIN queue : queue[i].id = s /\ queue[i].type = snap[s].pending.type

(* What the bar confirms is what live-accept wrote into the source, as     *)
(* long as nothing goes wrong.  A discard that is not carried out does: its *)
(* error gives the bar back while an accept of the session is still        *)
(* queued, and the next accept is taken for the one that is there          *)
(* (enqueueEvent, live-browser.js case 'error').                           *)
ConfirmedIsLanded ==
  NoFault /\ tab.st = "CONFIRMED" /\ tab.accept.id /= None => landed[tab.accept.id] = tab.accept.v

(* A source once decided is not decided again, however often an accept or  *)
(* a discard is delivered: the markers are gone (live-accept).             *)
StaysDecided ==
  \A s \in Sessions : src[s] \in {"kept", "restored"} =>
    src'[s] = src[s] /\ landed'[s] = landed[s]
DecidedOnce == [][StaysDecided]_vars

Working(s) ==
  \/ agent.at \notin {"idle", "off"} /\ agent.ev.id = s
  \/ \E i \in DOMAIN queue : queue[i].id = s

(* Without a fault, a bar that waits for an accept waits for something     *)
(* that is still under way.                                                *)
SavingHasWork ==
  NoFault /\ tab.st = "SAVING" =>
    \/ \E r \in net : r.type = "accept" /\ r.id = tab.accept.id
    \/ Working(tab.accept.id)
    \/ \E i \in DOMAIN sse : sse[i].id = tab.accept.id /\ sse[i].type /= "agent_done"
    \/ \E a \in answers : a.id = tab.cur /\ a.type = "discard"

(* Without a fault, neither does a bar that waits for its variants. *)
GeneratingHasWork ==
  NoFault /\ tab.st = "GENERATING" =>
    \/ \E r \in net : r.type = "generate" /\ r.id = tab.cur
    \/ Working(tab.cur)
    \/ \E i \in DOMAIN sse : sse[i].id = tab.cur
    \/ fetching.id = tab.cur
    \/ dom[tab.cur] /= src[tab.cur]

(* The journal, the queue and the page agree on every session: what the    *)
(* journal holds is queued, what the page shows as confirmed is in the     *)
(* source.                                                                 *)
SessionsAgree == TypeOK /\ JournalPendingIsQueued /\ ConfirmedIsLanded

(* Without a fault no bar waits for something that will not come.          *)
NoBarWaitsForNothing == SavingHasWork /\ GeneratingHasWork
=============================================================================
