-------------------------- MODULE LiveSessionProofs --------------------------
(***************************************************************************)
(* Proofs about LiveSession, for any number of sessions, variants, presses *)
(* and faults:                                                             *)
(*                                                                         *)
(*   LiveTypes            every variable has its type, and the queue one   *)
(*                        entry of an id and type;                         *)
(*   PendingQueued        what a journal holds as pending is queued;       *)
(*   DecisionsStand       a decided source is not decided again;           *)
(*   SessionsAlwaysAgree  all of it, and what a bar confirms is what       *)
(*                        live-accept wrote;                               *)
(*   BarsDoNotWait        no bar waits for something that will not come.   *)
(*                                                                         *)
(* The first three follow from Sound, which every step keeps.  The fourth  *)
(* needs Quiet as well, eight statements about a run in which nothing went *)
(* wrong: the agent works on the head of the queue; what it answers, and   *)
(* what is on its way to the page, is what it did to the source; an        *)
(* undecided session has one accept under way at most, and the bar that    *)
(* shows the session awaits that very one; and this stays so when the      *)
(* source is written, until the bar is told.  PageMoves and the lemmas     *)
(* after it say what a step does to these parts; one lemma for each part   *)
(* then shows that it is kept.  The last theorem adds Served: a request is *)
(* under way until the source is written, and the notice of it until the   *)
(* page is told; BarShows says how a bar comes to wait, VariantsKeepComing *)
(* and EndKeepsComing that what it waits for does not get lost.            *)
(***************************************************************************)
EXTENDS LiveSession, SequenceTheorems, FiniteSetTheorems, TLAPS

LEMMA RemoveAtFacts ==
  ASSUME NEW S, NEW q \in Seq(S), NEW i \in 1..Len(q)
  PROVE  /\ RemoveAt(q, i) \in Seq(S)
         /\ Len(RemoveAt(q, i)) = Len(q) - 1
         /\ \A j \in 1..(Len(q) - 1) : RemoveAt(q, i)[j] = IF j < i THEN q[j] ELSE q[j + 1]
<1> DEFINE a == SubSeq(q, 1, i - 1)  b == SubSeq(q, i + 1, Len(q))
<1>0. Len(q) \in Nat
  BY LenProperties
<1>1. a \in Seq(S) /\ Len(a) = i - 1 /\ \A j \in 1..(i - 1) : a[j] = q[j]
  BY <1>0, SubSeqProperties
<1>2. b \in Seq(S) /\ Len(b) = Len(q) - i /\ \A j \in 1..(Len(q) - i) : b[j] = q[i + j]
  BY <1>0, SubSeqProperties
<1> HIDE DEF a, b
<1>3. /\ a \o b \in Seq(S) /\ Len(a \o b) = Len(a) + Len(b)
      /\ \A j \in 1..(Len(a) + Len(b)) : (a \o b)[j] = IF j <= Len(a) THEN a[j] ELSE b[j - Len(a)]
  BY <1>1, <1>2, ConcatProperties
<1>4. Len(a) + Len(b) = Len(q) - 1
  BY <1>0, <1>1, <1>2
<1>5. ASSUME NEW j \in 1..(Len(q) - 1)
      PROVE  (a \o b)[j] = IF j < i THEN q[j] ELSE q[j + 1]
  <2>1. CASE j < i
    BY <2>1, <1>0, <1>1, <1>3, <1>4
  <2>2. CASE ~(j < i)
    <3>1. (a \o b)[j] = b[j - (i - 1)] /\ j - (i - 1) \in 1..(Len(q) - i)
      BY <2>2, <1>0, <1>1, <1>3, <1>4
    <3>2. b[j - (i - 1)] = q[i + (j - (i - 1))]
      BY <3>1, <1>2
    <3> QED
      BY <3>1, <3>2, <2>2, <1>0
  <2> QED
    BY <2>1, <2>2
<1>6. RemoveAt(q, i) = a \o b
  BY DEF RemoveAt, a, b
<1> QED
  BY <1>3, <1>4, <1>5, <1>6

-----------------------------------------------------------------------------
(* Types, in the groups that change together. *)

PageTyped ==
  /\ tab \in [st : TabStates, cur : Ids, arrived : {0, N}, shown : 0..N,
              accept : [id : Ids, v : 0..N]]
  /\ disk \in [saved : [id : Ids, st : TabStates, shown : 0..N], handled : Ids]
  /\ observing \in [variants : Ids, scout : BOOLEAN]
  /\ fetching \in [id : Ids, sent : BOOLEAN]

WireTyped ==
  /\ net \subseteq [type : Asks, id : Sessions, v : 0..N]
  /\ answers \subseteq [type : {"accept", "discard"}, id : Sessions, ok : BOOLEAN]

FlagsTyped == up \in BOOLEAN /\ fresh \in BOOLEAN /\ conn \in BOOLEAN /\ exitDue \in BOOLEAN

QueueTyped ==
  /\ queue \in Seq(Entries)
  /\ \A i, j \in DOMAIN queue : queue[i].id = queue[j].id /\ queue[i].type = queue[j].type => i = j

JournalTyped == snap \in [Sessions -> [phase : Phases, pending : Pending]]

StreamTyped == sse \in Seq(Messages)

AgentTyped ==
  agent \in [at : {"idle", "off", "work", "reply", "cleanup"}, ev : Handled \union {NoEvent},
             answer : Replies \union {"none"}, carbonize : BOOLEAN, stops : Nat]

WorldTyped ==
  /\ src \in [Sessions -> Views] /\ dom \in [Sessions -> Views]
  /\ landed \in [Sessions -> 0..N]
  /\ count \in [asks : Nat, faults : Nat, stops : Nat]

LEMMA TypeParts ==
  TypeOK <=> /\ PageTyped /\ WireTyped /\ FlagsTyped /\ QueueTyped /\ JournalTyped
             /\ StreamTyped /\ AgentTyped /\ WorldTyped
BY DEF TypeOK, PageTyped, WireTyped, FlagsTyped, QueueTyped, JournalTyped, StreamTyped, AgentTyped,
  WorldTyped

(* A session is none of the ids that stand for no session. *)
LEMMA Constants ==
  /\ None \notin Sessions /\ Sessions \subseteq Ids /\ None \in Ids
  /\ N \in Nat /\ N > 0 /\ 0 \in 0..N /\ 1 \in 0..N /\ N \in {0, N}
BY LiveAssumption DEF Ids

LEMMA BlankTyped ==
  /\ NoAccept \in [id : Ids, v : 0..N]
  /\ NoFetch \in [id : Ids, sent : BOOLEAN]
  /\ NoSaved \in [id : Ids, st : TabStates, shown : 0..N]
  /\ NoEvent \notin Handled
BY Constants DEF NoAccept, NoFetch, NoSaved, NoEvent, Handled, TabStates, Asks

LEMMA InitTyped == Init => TypeOK
<1> SUFFICES ASSUME Init PROVE TypeOK
  OBVIOUS
<1>1. PageTyped
  BY Constants, BlankTyped DEF Init, PageTyped, TabStates
<1>2. WireTyped /\ FlagsTyped
  BY DEF Init, WireTyped, FlagsTyped
<1>3. QueueTyped
  BY EmptySeq DEF Init, QueueTyped
<1>4. JournalTyped
  BY DEF Init, JournalTyped, BaseSnapshot, Phases, Pending
<1>5. StreamTyped
  BY EmptySeq DEF Init, StreamTyped
<1>6. AgentTyped
  BY DEF Init, AgentTyped, Resting
<1>7. WorldTyped
  BY Constants DEF Init, WorldTyped, Views
<1> QED
  BY <1>1, <1>2, <1>3, <1>4, <1>5, <1>6, <1>7, TypeParts

-----------------------------------------------------------------------------
(* The page keeps its types. *)

Tabs == [st : TabStates, cur : Ids, arrived : {0, N}, shown : 0..N, accept : [id : Ids, v : 0..N]]

TabDiskTyped ==
  /\ tab \in Tabs
  /\ disk \in [saved : [id : Ids, st : TabStates, shown : 0..N], handled : Ids]

LEMMA TabFields ==
  ASSUME NEW t \in Tabs
  PROVE  /\ t.st \in TabStates /\ t.cur \in Ids /\ t.arrived \in {0, N} /\ t.shown \in 0..N
         /\ t.accept \in [id : Ids, v : 0..N] /\ t.accept.id \in Ids /\ t.accept.v \in 0..N
BY DEF Tabs

LEMMA ShowTyped ==
  ASSUME TabDiskTyped, NEW t \in Tabs, Show(t)
  PROVE  TabDiskTyped' /\ tab' = t /\ disk'.handled = disk.handled
<1>1. Saved(t) \in [id : Ids, st : TabStates, shown : 0..N]
  BY TabFields DEF Saved, TabDiskTyped
<1>2. disk' = [disk EXCEPT !.saved = Saved(t)] /\ tab' = t
  BY DEF Show
<1>3. disk' \in [saved : [id : Ids, st : TabStates, shown : 0..N], handled : Ids]
      /\ disk'.handled = disk.handled
  BY <1>1, <1>2 DEF TabDiskTyped
<1> QED
  BY <1>2, <1>3 DEF TabDiskTyped

LEMMA CleanedTyped ==
  ASSUME TabDiskTyped, observing \in [variants : Ids, scout : BOOLEAN], NEW marks \in BOOLEAN, Cleaned(marks)
  PROVE  /\ TabDiskTyped' /\ observing' \in [variants : Ids, scout : BOOLEAN]
         /\ tab' = [tab EXCEPT !.st = "PICKING", !.cur = None]
         /\ observing'.scout = observing.scout
<1>1. tab' \in Tabs
  BY Constants DEF Cleaned, TabDiskTyped, Tabs, TabStates
<1>2. disk' \in [saved : [id : Ids, st : TabStates, shown : 0..N], handled : Ids]
  BY BlankTyped, TabFields DEF Cleaned, TabDiskTyped
<1>3. observing' \in [variants : Ids, scout : BOOLEAN] /\ observing'.scout = observing.scout
  BY Constants DEF Cleaned
<1> QED
  BY <1>1, <1>2, <1>3 DEF TabDiskTyped, Cleaned

LEMMA ResumedTyped ==
  ASSUME TabDiskTyped, NEW s \in Sessions, NEW view \in Views
  PROVE  /\ Resumed(s, view) \in Tabs
         /\ Resumed(s, view).cur = s /\ Resumed(s, view).accept = tab.accept
         /\ Resumed(s, view).st \in {"CYCLING", "GENERATING"}
<1>1. Arrived(view) \in {0, N} /\ Arrived(view) \in 0..N /\ (Arrived(view) > 0 => 1 \in 0..N)
  BY Constants DEF Arrived
<1>2. disk.saved.shown \in 0..N
  BY DEF TabDiskTyped
<1> DEFINE shown == IF disk.saved.id = s /\ disk.saved.shown \in 1..Arrived(view) THEN disk.saved.shown
                    ELSE IF Arrived(view) > 0 THEN 1 ELSE 0
<1>3. shown \in 0..N
  BY <1>1, <1>2, Constants
<1>4. Resumed(s, view) = [st |-> IF view = "full" THEN "CYCLING" ELSE "GENERATING",
                          cur |-> s, arrived |-> Arrived(view), shown |-> shown, accept |-> tab.accept]
  BY DEF Resumed
<1>5. tab.accept \in [id : Ids, v : 0..N]
  BY TabFields DEF TabDiskTyped
<1> HIDE DEF shown
<1> QED
  BY <1>1, <1>3, <1>4, <1>5, Constants DEF Tabs, TabStates

LEMMA ObserveTyped ==
  ASSUME PageTyped, NEW s \in Sessions, NEW view \in Views, Observe(s, view)
  PROVE  /\ TabDiskTyped' /\ observing' = observing
         /\ \/ tab' = tab
            \/ /\ view = "full"
               /\ \E w \in 0..N : tab' = [tab EXCEPT !.st = "CYCLING", !.arrived = N, !.shown = w]
<1>0. TabDiskTyped
  BY DEF PageTyped, TabDiskTyped, Tabs
<1>1. CASE s = observing.variants /\ Arrived(view) > tab.arrived
  <2> DEFINE w == IF tab.shown /= 0 THEN tab.shown
                  ELSE IF disk.saved.id = s /\ disk.saved.shown \in 1..N THEN disk.saved.shown ELSE 1
  <2>1. w \in 0..N
    BY Constants, TabFields, <1>0 DEF TabDiskTyped
  <2>2. Show([tab EXCEPT !.st = "CYCLING", !.arrived = N, !.shown = w]) /\ observing' = observing
    BY <1>1 DEF Observe
  <2> HIDE DEF w
  <2>3. [tab EXCEPT !.st = "CYCLING", !.arrived = N, !.shown = w] \in Tabs
    BY <2>1, <1>0, Constants DEF TabDiskTyped, Tabs, TabStates
  <2>4. view = "full"
    BY <1>1, <1>0, Constants, TabFields DEF TabDiskTyped, Arrived
  <2> QED
    BY <2>1, <2>2, <2>3, <2>4, <1>0, ShowTyped
<1>2. CASE ~(s = observing.variants /\ Arrived(view) > tab.arrived)
  BY <1>2, <1>0 DEF Observe, TabDiskTyped
<1> QED
  BY <1>1, <1>2

LEMMA RestoredTyped ==
  ASSUME TabDiskTyped
  PROVE  /\ Restored \in Tabs /\ [Restored EXCEPT !.accept = NoAccept] \in Tabs
         /\ disk.saved.id \in Ids
<1>1. disk.saved.id \in Ids /\ disk.saved.shown \in 0..N
  BY DEF TabDiskTyped
<1>2. (IF disk.saved.st = "CYCLING" THEN N ELSE 0) \in {0, N}
  BY Constants
<1>3. Restored \in Tabs
  BY <1>1, <1>2 DEF Restored, TabDiskTyped, Tabs, TabStates
<1> QED
  BY <1>1, <1>3, BlankTyped DEF Tabs

LEMMA RestoreTyped ==
  ASSUME PageTyped, Restore
  PROVE  PageTyped'
<1>0. TabDiskTyped
  BY DEF PageTyped, TabDiskTyped, Tabs
<1>1. TabDiskTyped'
  BY <1>0, RestoredTyped, ShowTyped DEF Restore
<1>2. disk.saved.id \in Ids
  BY <1>0, RestoredTyped
<1>3. observing' \in [variants : Ids, scout : BOOLEAN]
  <2>1. observing' = [observing EXCEPT !.variants = disk.saved.id]
    BY DEF Restore
  <2> QED
    BY <2>1, <1>2 DEF PageTyped
<1>4. fetching' \in [id : Ids, sent : BOOLEAN]
  <2>1. fetching' = fetching \/ fetching' = [id |-> disk.saved.id, sent |-> TRUE]
    BY DEF Restore
  <2>2. [id |-> disk.saved.id, sent |-> TRUE] \in [id : Ids, sent : BOOLEAN]
    BY <1>2
  <2>3. fetching \in [id : Ids, sent : BOOLEAN]
    BY DEF PageTyped
  <2> QED
    BY <2>1, <2>2, <2>3
<1> QED
  BY <1>1, <1>3, <1>4 DEF PageTyped, TabDiskTyped, Tabs

LEMMA ResumeTyped ==
  ASSUME PageTyped, NEW s \in Sessions, NEW view \in Views, Resume(s, view)
  PROVE  /\ TabDiskTyped' /\ observing' \in [variants : Ids, scout : BOOLEAN] /\ observing'.scout = FALSE
         /\ \/ tab' = tab
            \/ tab'.cur = s /\ tab'.accept = tab.accept /\ tab'.st \in {"CYCLING", "GENERATING"}
<1>0. TabDiskTyped
  BY DEF PageTyped, TabDiskTyped, Tabs
<1>1. CASE disk.handled = s
  <2>1. tab' = tab /\ disk' = disk /\ observing' = [observing EXCEPT !.scout = FALSE]
    BY <1>1 DEF Resume
  <2> QED
    BY <2>1, <1>0 DEF PageTyped, TabDiskTyped
<1>2. CASE disk.handled /= s
  <2>1. Show(Resumed(s, view)) /\ observing' = [variants |-> s, scout |-> FALSE]
    BY <1>2 DEF Resume
  <2>2. TabDiskTyped' /\ tab' = Resumed(s, view)
    BY <2>1, <1>0, ResumedTyped, ShowTyped
  <2> QED
    BY <2>1, <2>2, <1>0, ResumedTyped, Constants
<1> QED
  BY <1>1, <1>2

LEMMA PageStepsTyped ==
  ASSUME TypeOK, PageStep
  PROVE  PageTyped'
<1>0. /\ PageTyped /\ StreamTyped /\ WireTyped /\ TabDiskTyped /\ src \in [Sessions -> Views]
      /\ tab \in Tabs
  BY TypeParts DEF PageTyped, TabDiskTyped, Tabs, WorldTyped
<1>t. ASSUME TabDiskTyped', observing' \in [variants : Ids, scout : BOOLEAN],
             fetching' \in [id : Ids, sent : BOOLEAN]
      PROVE  PageTyped'
  BY <1>t DEF PageTyped, TabDiskTyped, Tabs
<1>s. ASSUME UNCHANGED <<tab, disk>>, UNCHANGED <<observing, fetching>> PROVE PageTyped'
  BY <1>s, <1>0 DEF PageTyped
<1>1. ASSUME NEW s \in Sessions, Go(s) PROVE PageTyped'
  <2> DEFINE t == [st |-> "GENERATING", cur |-> s, arrived |-> 0, shown |-> 0, accept |-> NoAccept]
  <2>1. t \in Tabs
    BY Constants, BlankTyped DEF Tabs, TabStates
  <2>2. Show(t) /\ observing' = [observing EXCEPT !.variants = s] /\ fetching' = fetching
    BY <1>1 DEF Go
  <2> HIDE DEF t
  <2> QED
    BY <1>t, <1>0, <2>1, <2>2, ShowTyped, Constants DEF PageTyped
<1>2. ASSUME NEW s \in Sessions, HotUpdate(s) PROVE PageTyped'
  <2>1. fetching' = fetching /\ src[s] \in Views
    BY <1>2, <1>0 DEF HotUpdate
  <2>2. CASE observing.scout /\ Wrapped(src[s])
    BY <2>1, <2>2, <1>2, <1>t, <1>0, ResumeTyped DEF HotUpdate, PageTyped
  <2>3. CASE ~(observing.scout /\ Wrapped(src[s]))
    BY <2>1, <2>3, <1>2, <1>t, <1>0, ObserveTyped DEF HotUpdate, PageTyped
  <2> QED
    BY <2>2, <2>3
<1>3. ASSUME NEW v \in 1..N, Cycle(v) PROVE PageTyped'
  <2>1. Show([tab EXCEPT !.shown = v]) /\ UNCHANGED <<observing, fetching>>
    BY <1>3 DEF Cycle
  <2>2. [tab EXCEPT !.shown = v] \in Tabs
    BY <1>0, Constants DEF Tabs
  <2> QED
    BY <1>t, <1>0, <2>1, <2>2, ShowTyped DEF PageTyped
<1>4. CASE Accept
  <2>1. /\ Show([tab EXCEPT !.st = "SAVING", !.accept = [id |-> tab.cur, v |-> tab.shown]])
        /\ UNCHANGED <<observing, fetching>>
    BY <1>4 DEF Accept
  <2>2. [tab EXCEPT !.st = "SAVING", !.accept = [id |-> tab.cur, v |-> tab.shown]] \in Tabs
    BY <1>0 DEF Tabs, TabStates
  <2> QED
    BY <1>t, <1>0, <2>1, <2>2, ShowTyped DEF PageTyped
<1>5. CASE Discard
  BY <1>5, <1>s DEF Discard, pageVars
<1>6. CASE Checkpoint
  BY <1>6, <1>s DEF Checkpoint, pageVars
<1>7. ASSUME NEW a \in answers, Answered(a) PROVE PageTyped'
  <2>1. fetching' = fetching
    BY <1>7 DEF Answered
  <2>2. CASE a.type = "accept" /\ ~a.ok
    <3> DEFINE t == [tab EXCEPT !.st = "CYCLING", !.accept = IF @.id = a.id THEN NoAccept ELSE @]
    <3>1. tab' = t /\ UNCHANGED <<disk, observing>>
      BY <2>2, <1>7 DEF Answered
    <3>2. t \in Tabs
      BY <1>0, BlankTyped DEF Tabs, TabStates
    <3> QED
      BY <1>t, <1>0, <3>1, <3>2, <2>1 DEF PageTyped, TabDiskTyped
  <2>3. CASE a.type = "discard" /\ a.ok
    <3>1. Cleaned(TRUE)
      BY <2>3, <1>7 DEF Answered
    <3> QED
      BY <1>t, <1>0, <3>1, <2>1, CleanedTyped DEF PageTyped
  <2>4. CASE ~(a.type = "accept" /\ ~a.ok) /\ ~(a.type = "discard" /\ a.ok)
    BY <2>4, <2>1, <1>7, <1>s DEF Answered
  <2> QED
    BY <2>2, <2>3, <2>4
<1>8. CASE Confirmed
  <2>1. /\ tab' = [tab EXCEPT !.st = "PICKING", !.cur = None, !.accept = NoAccept]
        /\ disk' = [disk EXCEPT !.saved = NoSaved]
        /\ observing' = [observing EXCEPT !.variants = None] /\ fetching' = fetching
    BY <1>8 DEF Confirmed
  <2>2. tab' \in Tabs
    BY <2>1, <1>0, Constants, BlankTyped DEF Tabs, TabStates
  <2>3. disk' \in [saved : [id : Ids, st : TabStates, shown : 0..N], handled : Ids]
    BY <2>1, <1>0, BlankTyped DEF TabDiskTyped
  <2> QED
    BY <1>t, <1>0, <2>1, <2>2, <2>3, Constants DEF PageTyped, TabDiskTyped
<1>9. CASE Message
  <2> DEFINE msg == Head(sse)
  <2>0. msg \in Messages /\ sse /= <<>>
    BY <1>9, <1>0, HeadTailProperties DEF Message, StreamTyped
  <2>i. msg.id \in Ids
    BY <2>0, Constants DEF Messages
  <2>1. CASE msg.type = "connected"
    <3>1. OnConnected(msg)
      BY <2>1, <1>9 DEF Message
    <3> QED
      BY <3>1, <1>0, <1>s, RestoreTyped DEF OnConnected
  <2>2. CASE msg.type = "done"
    <3>1. OnDone(msg)
      BY <2>2, <1>9 DEF Message
    <3>2. tab' \in Tabs /\ disk' = disk /\ observing' = observing
      BY <3>1, <1>0 DEF OnDone, Tabs, TabStates
    <3>3. fetching' \in [id : Ids, sent : BOOLEAN]
      <4>1. fetching' = fetching \/ fetching' = [id |-> msg.id, sent |-> FALSE]
        BY <3>1 DEF OnDone
      <4>2. [id |-> msg.id, sent |-> FALSE] \in [id : Ids, sent : BOOLEAN]
        BY <2>i
      <4>3. fetching \in [id : Ids, sent : BOOLEAN]
        BY <1>0 DEF PageTyped
      <4> QED
        BY <4>1, <4>2, <4>3
    <3> QED
      BY <1>t, <1>0, <3>2, <3>3 DEF PageTyped, TabDiskTyped
  <2>3. CASE msg.type = "complete"
    <3>1. OnComplete(msg)
      BY <2>3, <1>9 DEF Message
    <3>2. tab' \in Tabs /\ observing' = observing /\ fetching' = fetching
      BY <3>1, <1>0, BlankTyped DEF OnComplete, Tabs, TabStates
    <3>3. disk' \in [saved : [id : Ids, st : TabStates, shown : 0..N], handled : Ids]
      BY <3>1, <1>0, TabFields DEF OnComplete, TabDiskTyped
    <3> QED
      BY <1>t, <1>0, <3>2, <3>3 DEF PageTyped, TabDiskTyped
  <2>4. CASE msg.type = "discarded"
    <3>1. OnDiscarded(msg)
      BY <2>4, <1>9 DEF Message
    <3>2. CASE msg.id = tab.cur
      BY <3>1, <3>2, <1>t, <1>0, CleanedTyped DEF OnDiscarded, PageTyped
    <3>3. CASE msg.id /= tab.cur
      BY <3>1, <3>3, <1>s DEF OnDiscarded
    <3> QED
      BY <3>2, <3>3
  <2>5. CASE msg.type = "error"
    <3>1. OnError(msg)
      BY <2>5, <1>9 DEF Message
    <3>2. tab' \in Tabs /\ disk' = disk /\ observing' = observing /\ fetching' = fetching
      BY <3>1, <1>0, BlankTyped DEF OnError, Tabs, TabStates
    <3> QED
      BY <1>t, <1>0, <3>2 DEF PageTyped, TabDiskTyped
  <2>6. CASE msg.type = "agent_done"
    BY <2>6, <1>9, <1>s DEF Message, pageVars
  <2>7. msg.type \in {"connected", "done", "complete", "discarded", "error", "agent_done"}
    BY <2>0 DEF Messages, Replies
  <2> QED
    BY <2>1, <2>2, <2>3, <2>4, <2>5, <2>6, <2>7
<1>10. CASE FetchStarts
  <2>1. UNCHANGED <<tab, disk, observing>> /\ fetching' \in [id : Ids, sent : BOOLEAN]
    BY <1>10, <1>0, BlankTyped DEF FetchStarts, PageTyped
  <2> QED
    BY <1>t, <1>0, <2>1 DEF PageTyped, TabDiskTyped
<1>11. CASE FetchLands
  <2> DEFINE s == fetching.id
             kept == IF tab.cur = s THEN tab.shown ELSE 0
             saved == IF disk.saved.id = s THEN disk.saved.shown ELSE 0
             shown == IF kept > 0 THEN kept ELSE IF saved > 0 THEN saved ELSE 1
  <2>1. shown \in 0..N
    BY <1>0, TabFields, Constants DEF TabDiskTyped
  <2>2. fetching' \in [id : Ids, sent : BOOLEAN]
    BY <1>11, BlankTyped DEF FetchLands
  <2>3. \/ Show([tab EXCEPT !.st = "CYCLING", !.arrived = N, !.shown = shown]) /\ observing' = observing
        \/ Cleaned(FALSE)
        \/ UNCHANGED <<tab, disk, observing>>
    BY <1>11 DEF FetchLands
  <2> HIDE DEF shown
  <2>4. [tab EXCEPT !.st = "CYCLING", !.arrived = N, !.shown = shown] \in Tabs
    BY <2>1, <1>0, Constants DEF Tabs, TabStates
  <2>5. TabDiskTyped' /\ observing' \in [variants : Ids, scout : BOOLEAN]
    BY <2>3, <2>4, <1>0, ShowTyped, CleanedTyped DEF PageTyped, TabDiskTyped
  <2> QED
    BY <2>2, <2>5, <1>t
<1> QED
  BY <1>1, <1>2, <1>3, <1>4, <1>5, <1>6, <1>7, <1>8, <1>9, <1>10, <1>11 DEF PageStep

LEMMA ReloadTyped ==
  ASSUME TypeOK, Reload
  PROVE  PageTyped'
<1>0. /\ PageTyped /\ TabDiskTyped /\ src \in [Sessions -> Views] /\ tab \in Tabs
  BY TypeParts DEF PageTyped, TabDiskTyped, Tabs, WorldTyped
<1>t. ASSUME TabDiskTyped', observing' \in [variants : Ids, scout : BOOLEAN],
             fetching' \in [id : Ids, sent : BOOLEAN]
      PROVE  PageTyped'
  BY <1>t DEF PageTyped, TabDiskTyped, Tabs
<1> DEFINE blank == [st |-> "PICKING", cur |-> None, arrived |-> 0, shown |-> 0, accept |-> NoAccept]
<1>1. blank \in Tabs
  BY Constants, BlankTyped DEF Tabs, TabStates
<1>2. \/ \E s \in Sessions :
           /\ fetching' = NoFetch
           /\ \/ tab' = blank /\ disk' = disk /\ observing' = [variants |-> None, scout |-> TRUE]
              \/ /\ Show([Resumed(s, src[s]) EXCEPT !.accept = NoAccept])
                 /\ observing' = [variants |-> s, scout |-> FALSE]
      \/ /\ Show([Restored EXCEPT !.accept = NoAccept])
         /\ observing' = [variants |-> disk.saved.id, scout |-> FALSE]
         /\ fetching' = NoFetch \/ fetching' = [id |-> disk.saved.id, sent |-> TRUE]
      \/ /\ tab' = blank
         /\ disk' = [saved |-> NoSaved, handled |-> None]
         /\ observing' = [variants |-> None, scout |-> TRUE]
         /\ fetching' = NoFetch
  BY DEF Reload
<1> HIDE DEF blank
<1>3. ASSUME NEW s \in Sessions, fetching' = NoFetch,
             \/ tab' = blank /\ disk' = disk /\ observing' = [variants |-> None, scout |-> TRUE]
             \/ /\ Show([Resumed(s, src[s]) EXCEPT !.accept = NoAccept])
                /\ observing' = [variants |-> s, scout |-> FALSE]
      PROVE  PageTyped'
  <2>1. fetching' \in [id : Ids, sent : BOOLEAN]
    BY <1>3, BlankTyped
  <2>2. CASE tab' = blank /\ disk' = disk /\ observing' = [variants |-> None, scout |-> TRUE]
    BY <2>1, <2>2, <1>1, <1>t, <1>0, Constants DEF TabDiskTyped
  <2>3. CASE /\ Show([Resumed(s, src[s]) EXCEPT !.accept = NoAccept])
             /\ observing' = [variants |-> s, scout |-> FALSE]
    <3>1. Resumed(s, src[s]) \in Tabs
      BY <1>0, ResumedTyped
    <3>2. [Resumed(s, src[s]) EXCEPT !.accept = NoAccept] \in Tabs
      BY <3>1, BlankTyped DEF Tabs
    <3>3. TabDiskTyped'
      BY <2>3, <3>2, <1>0, ShowTyped
    <3> QED
      BY <2>1, <2>3, <3>3, <1>t, Constants
  <2> QED
    BY <1>3, <2>2, <2>3
<1>4. ASSUME Show([Restored EXCEPT !.accept = NoAccept]),
             observing' = [variants |-> disk.saved.id, scout |-> FALSE],
             fetching' = NoFetch \/ fetching' = [id |-> disk.saved.id, sent |-> TRUE]
      PROVE  PageTyped'
  <2>1. [Restored EXCEPT !.accept = NoAccept] \in Tabs /\ disk.saved.id \in Ids
    BY <1>0, RestoredTyped
  <2>2. [id |-> disk.saved.id, sent |-> TRUE] \in [id : Ids, sent : BOOLEAN]
    BY <2>1
  <2>3. fetching' \in [id : Ids, sent : BOOLEAN]
    BY <1>4, <2>2, BlankTyped
  <2>4. TabDiskTyped'
    BY <1>4, <2>1, <1>0, ShowTyped
  <2> QED
    BY <1>4, <2>1, <2>3, <2>4, <1>t
<1>5. ASSUME tab' = blank, disk' = [saved |-> NoSaved, handled |-> None],
             observing' = [variants |-> None, scout |-> TRUE], fetching' = NoFetch
      PROVE  PageTyped'
  <2>1. disk' \in [saved : [id : Ids, st : TabStates, shown : 0..N], handled : Ids]
    BY <1>5, BlankTyped, Constants
  <2> QED
    BY <1>5, <2>1, <1>1, <1>t, BlankTyped, Constants DEF TabDiskTyped
<1> QED
  BY <1>2, <1>3, <1>4, <1>5

-----------------------------------------------------------------------------
(* What a step leaves alone. *)

LEMMA PageFrame ==
  ASSUME PageStep
  PROVE  /\ UNCHANGED <<up, fresh, queue, conn, exitDue, agent, src, landed>>
         /\ snap' = snap \/ Checkpoint
         /\ sse' = sse \/ Message
         /\ dom' = dom \/ FetchLands \/ \E s \in Sessions : HotUpdate(s)
         /\ count' = count \/ Accept \/ Discard
         /\ net' = net \/ Accept \/ Discard \/ \E s \in Sessions : Go(s)
         /\ answers' \subseteq answers
BY DEF PageStep, Go, HotUpdate, Cycle, Accept, Discard, Checkpoint, Answered, Confirmed, Message,
  FetchStarts, FetchLands, wireVars, serverVars, worldVars, pageVars

LEMMA HelperFrame ==
  ASSUME HelperStep
  PROVE  UNCHANGED <<tab, disk, observing, fetching, agent, src, dom, landed, count>>
BY DEF HelperStep, Receive, Unreachable, Connect, ExitTimer, Start, LeaseEnds, wireVars, serverVars,
  worldVars, pageVars

LEMMA AgentFrame ==
  ASSUME AgentStep
  PROVE  UNCHANGED <<tab, disk, observing, fetching, net, answers, up, fresh, conn, exitDue, dom>>
BY DEF AgentStep, Deliver, Generate, Apply, Reply, ReplyFails, LiveComplete, wireVars, serverVars,
  worldVars, pageVars

LEMMA FaultFrame ==
  ASSUME Stop \/ Drop \/ Kill
  PROVE  UNCHANGED <<tab, disk, observing, fetching, net, answers, fresh, snap, src, dom, landed>>
BY DEF Stop, Drop, Kill, wireVars, serverVars, worldVars, pageVars

LEMMA PageKeepsTypes ==
  ASSUME TypeOK, [Next]_vars
  PROVE  PageTyped'
<1>0. PageTyped
  BY TypeParts
<1>1. ASSUME UNCHANGED <<tab, disk, observing, fetching>> PROVE PageTyped'
  BY <1>0, <1>1 DEF PageTyped
<1>2. CASE PageStep
  BY <1>2, PageStepsTyped
<1>3. CASE HelperStep
  BY <1>1, <1>3, HelperFrame
<1>4. CASE AgentStep
  BY <1>1, <1>4, AgentFrame
<1>5. CASE Stop \/ Drop \/ Kill
  BY <1>1, <1>5, FaultFrame
<1>6. CASE Reload
  BY <1>6, ReloadTyped
<1>7. CASE UNCHANGED vars
  BY <1>1, <1>7 DEF vars
<1> QED
  BY <1>2, <1>3, <1>4, <1>5, <1>6, <1>7 DEF Next, FaultStep

-----------------------------------------------------------------------------
(* The wires, the flags and the world keep their types. *)

LEMMA AnsweringTyped ==
  ASSUME WireTyped, NEW r \in net, NEW ok \in BOOLEAN
  PROVE  Answering(r, ok) \subseteq [type : {"accept", "discard"}, id : Sessions, ok : BOOLEAN]
<1>1. r.id \in Sessions
  BY DEF WireTyped
<1> QED
  BY <1>1 DEF Answering, WireTyped

LEMMA WireKeepsTypes ==
  ASSUME TypeOK, [Next]_vars
  PROVE  WireTyped'
<1>0. WireTyped /\ FlagsTyped /\ tab.cur \in Ids /\ tab.shown \in 0..N
  BY TypeParts, TabFields DEF PageTyped, Tabs
<1>1. ASSUME net' \subseteq net, answers' \subseteq answers PROVE WireTyped'
  BY <1>0, <1>1 DEF WireTyped
<1>2. CASE PageStep
  <2>1. CASE Accept
    <3>1. tab.cur \in Sessions
      BY <2>1, <1>0 DEF Accept, Ids
    <3>2. net' = net \union {Request("accept", tab.cur, tab.shown)} /\ answers' = answers
      BY <2>1 DEF Accept
    <3> QED
      BY <3>1, <3>2, <1>0 DEF WireTyped, Request, Asks
  <2>2. CASE Discard
    <3>1. tab.cur \in Sessions
      BY <2>2, <1>0 DEF Discard, Ids
    <3>2. net' = net \union {Request("discard", tab.cur, 0)} /\ answers' = answers
      BY <2>2 DEF Discard
    <3> QED
      BY <3>1, <3>2, <1>0, Constants DEF WireTyped, Request, Asks
  <2>3. ASSUME NEW s \in Sessions, Go(s) PROVE WireTyped'
    <3>2. net' = net \union {Request("generate", s, 0)} /\ answers' = answers
      BY <2>3 DEF Go
    <3> QED
      BY <3>2, <1>0, Constants DEF WireTyped, Request, Asks
  <2> QED
    BY <1>1, <1>2, <2>1, <2>2, <2>3, PageFrame
<1>3. CASE HelperStep
  <2>1. ASSUME NEW r \in net, Receive(r) PROVE WireTyped'
    <3>1. net' \subseteq net /\ answers' = Answering(r, fresh) /\ fresh \in BOOLEAN
      BY <2>1, <1>0 DEF Receive, FlagsTyped
    <3> QED
      BY <3>1, <1>0, AnsweringTyped DEF WireTyped
  <2>2. ASSUME NEW r \in net, Unreachable(r) PROVE WireTyped'
    <3>1. net' \subseteq net /\ answers' = Answering(r, FALSE)
      BY <2>2 DEF Unreachable
    <3> QED
      BY <3>1, <1>0, AnsweringTyped DEF WireTyped
  <2>3. CASE Connect \/ ExitTimer \/ Start \/ LeaseEnds
    BY <2>3, <1>1 DEF Connect, ExitTimer, Start, LeaseEnds, wireVars
  <2> QED
    BY <1>3, <2>1, <2>2, <2>3 DEF HelperStep
<1>4. CASE AgentStep
  BY <1>1, <1>4, AgentFrame
<1>5. CASE Stop \/ Drop \/ Kill
  BY <1>1, <1>5, FaultFrame
<1>6. CASE Reload
  BY <1>1, <1>6 DEF Reload
<1>7. CASE UNCHANGED vars
  BY <1>1, <1>7 DEF vars
<1> QED
  BY <1>2, <1>3, <1>4, <1>5, <1>6, <1>7 DEF Next, FaultStep

LEMMA FlagsKeepTypes ==
  ASSUME TypeOK, [Next]_vars
  PROVE  FlagsTyped'
<1>0. FlagsTyped
  BY TypeParts
<1>2. CASE PageStep
  BY <1>0, <1>2, PageFrame DEF FlagsTyped
<1>3. CASE HelperStep
  BY <1>0, <1>3 DEF HelperStep, Receive, Unreachable, Connect, ExitTimer, Start, LeaseEnds, FlagsTyped,
    serverVars
<1>4. CASE AgentStep
  BY <1>0, <1>4, AgentFrame DEF FlagsTyped
<1>5. CASE FaultStep
  BY <1>0, <1>5 DEF FaultStep, Stop, Reload, Drop, Kill, FlagsTyped, serverVars
<1>7. CASE UNCHANGED vars
  BY <1>0, <1>7 DEF vars, FlagsTyped
<1> QED
  BY <1>2, <1>3, <1>4, <1>5, <1>7 DEF Next

(* The agent that works has an event in hand, and one that answers an answer. *)
AgentHasEvent ==
  /\ agent.at \in {"work", "reply", "cleanup"} => agent.ev \in Handled
  /\ agent.at \in {"reply", "cleanup"} => agent.answer \in Replies

LEMMA HandledFields ==
  ASSUME NEW e \in Handled
  PROVE  e.id \in Sessions /\ e.type \in Asks /\ e.v \in 0..N
BY DEF Handled

LEMMA EntryFields ==
  ASSUME NEW e \in Entries
  PROVE  /\ e.id \in Ids /\ (e.id = None <=> e.type = "exit")
         /\ e.id /= None => e \in Handled
BY Constants DEF Entries, NoEvent, Handled, Asks, Ids

LEMMA QueueEntry ==
  ASSUME QueueTyped, NEW i \in DOMAIN queue
  PROVE  queue[i] \in Entries /\ i \in 1..Len(queue) /\ DOMAIN queue = 1..Len(queue) /\ Len(queue) \in Nat
BY ElementOfSeq, LenProperties DEF QueueTyped

LEMMA RestingTyped == Resting \in [at : {"idle", "off", "work", "reply", "cleanup"},
  ev : Handled \union {NoEvent}, answer : Replies \union {"none"}, carbonize : BOOLEAN, stops : Nat]
BY DEF Resting

LEMMA OutcomeTyped ==
  ASSUME NEW type, NEW result
  PROVE  Outcome(type, result) \in Replies
BY DEF Outcome, CompletionType, Replies

LEMMA AgentKeepsTypes ==
  ASSUME TypeOK, AgentHasEvent, [Next]_vars
  PROVE  AgentTyped' /\ AgentHasEvent'
<1> DEFINE Agents == [at : {"idle", "off", "work", "reply", "cleanup"}, ev : Handled \union {NoEvent},
                      answer : Replies \union {"none"}, carbonize : BOOLEAN, stops : Nat]
<1>0. agent \in Agents /\ QueueTyped /\ count.stops \in Nat
  BY TypeParts DEF AgentTyped, WorldTyped
<1>1. ASSUME agent' = agent PROVE AgentTyped' /\ AgentHasEvent'
  BY <1>0, <1>1 DEF AgentTyped, AgentHasEvent
<1>2. ASSUME agent' = Resting PROVE AgentTyped' /\ AgentHasEvent'
  BY <1>2, RestingTyped DEF AgentTyped, AgentHasEvent, Resting
<1>3. CASE Deliver
  <2>1. PICK i \in DOMAIN queue :
          IF queue[i].id = None
          THEN agent' = [Resting EXCEPT !.at = "off"]
          ELSE agent' = [Resting EXCEPT !.at = "work", !.ev = queue[i], !.stops = count.stops]
    BY <1>3 DEF Deliver
  <2>2. queue[i] \in Entries
    BY <1>0, QueueEntry
  <2>3. CASE queue[i].id = None
    <3>1. agent' = [at |-> "off", ev |-> NoEvent, answer |-> "none", carbonize |-> FALSE, stops |-> 0]
      BY <2>1, <2>3 DEF Resting
    <3> QED
      BY <3>1 DEF AgentTyped, AgentHasEvent
  <2>4. CASE queue[i].id /= None
    <3>1. queue[i] \in Handled
      BY <2>2, <2>4, EntryFields
    <3>2. agent' = [at |-> "work", ev |-> queue[i], answer |-> "none", carbonize |-> FALSE, stops |-> count.stops]
      BY <2>1, <2>4 DEF Resting
    <3> QED
      BY <3>1, <3>2, <1>0 DEF AgentTyped, AgentHasEvent
  <2> QED
    BY <2>3, <2>4
<1>4. ASSUME NEW answer \in Replies, NEW c \in BOOLEAN, Replying(answer, c), agent.at = "work"
      PROVE  AgentTyped' /\ AgentHasEvent'
  <2>1. agent' = [agent EXCEPT !.at = "reply", !.answer = answer, !.carbonize = c]
    BY <1>4 DEF Replying
  <2>2. agent.ev \in Handled
    BY <1>4 DEF AgentHasEvent
  <2> QED
    BY <2>1, <2>2, <1>0, <1>4 DEF AgentTyped, AgentHasEvent
<1>5. CASE Generate
  <2>1. agent' = agent \/ Replying("done", FALSE) \/ Replying("error", FALSE)
    BY <1>5 DEF Generate
  <2> QED
    BY <2>1, <1>1, <1>4, <1>5 DEF Generate, Replies
<1>6. CASE Apply
  <2>1. PICK result \in Results \union {"missing"} :
          Replying(Outcome(agent.ev.type, result), result = "carbonize")
    BY <1>6 DEF Apply
  <2>2. (result = "carbonize") \in BOOLEAN
    OBVIOUS
  <2> QED
    BY <2>1, <2>2, <1>4, <1>6, OutcomeTyped DEF Apply
<1>7. ASSUME NEW answer \in Replies, agent.at = "reply",
             agent' = [agent EXCEPT !.at = "cleanup", !.answer = answer]
      PROVE  AgentTyped' /\ AgentHasEvent'
  <2>1. agent.ev \in Handled
    BY <1>7 DEF AgentHasEvent
  <2> QED
    BY <2>1, <1>0, <1>7 DEF AgentTyped, AgentHasEvent
<1>8. CASE Reply
  BY <1>2, <1>7, <1>8 DEF Reply, Replies
<1>9. CASE ReplyFails
  <2>1. \/ agent' = Resting
        \/ agent' = [agent EXCEPT !.at = "cleanup", !.answer = "complete"]
        \/ agent' = [agent EXCEPT !.at = "cleanup", !.answer = "discarded"]
    BY <1>9 DEF ReplyFails
  <2> QED
    BY <2>1, <1>2, <1>7, <1>9 DEF ReplyFails, Replies
<1>10. CASE LiveComplete \/ Kill
  BY <1>2, <1>10 DEF LiveComplete, Kill
<1>11. CASE PageStep \/ HelperStep \/ Stop \/ Drop \/ Reload \/ UNCHANGED vars
  BY <1>1, <1>11, PageFrame, HelperFrame DEF Stop, Drop, Reload, vars
<1> QED
  BY <1>3, <1>5, <1>6, <1>8, <1>9, <1>10, <1>11 DEF Next, AgentStep, FaultStep

(* What live-accept does: it finds what it writes, and writes it once. *)
LEMMA ApplyFacts ==
  ASSUME TypeOK, AgentHasEvent, Apply
  PROVE  LET s == agent.ev.id
         IN /\ s \in Sessions /\ agent.at = "work"
            /\ \/ /\ agent.ev.type = "accept" /\ src[s] = "full"
                  /\ src' = [src EXCEPT ![s] = "kept"] /\ landed' = [landed EXCEPT ![s] = agent.ev.v]
                  /\ agent' = [agent EXCEPT !.at = "reply", !.answer = "complete", !.carbonize = FALSE]
                     \/ agent' = [agent EXCEPT !.at = "reply", !.answer = "agent_done", !.carbonize = TRUE]
                  /\ count' = count
               \/ /\ agent.ev.type = "accept" /\ src' = src /\ landed' = landed /\ count' = count
                  /\ \/ agent' = [agent EXCEPT !.at = "reply", !.answer = "agent_done", !.carbonize = FALSE]
                     \/ /\ src[s] = "full"
                        /\ agent' = [agent EXCEPT !.at = "reply", !.answer = "error", !.carbonize = FALSE]
               \/ /\ agent.ev.type = "discard" /\ src[s] \in {"wrap", "full"}
                  /\ src' = [src EXCEPT ![s] = "restored"] /\ landed' = landed /\ count' = count
                  /\ agent' = [agent EXCEPT !.at = "reply", !.answer = "discarded", !.carbonize = FALSE]
               \/ /\ agent.ev.type = "discard" /\ src' = src /\ landed' = landed
                  /\ count' = [count EXCEPT !.faults = @ + 1]
                  /\ agent' = [agent EXCEPT !.at = "reply", !.answer = "error", !.carbonize = FALSE]
<1> DEFINE s == agent.ev.id
<1>0. /\ agent.at = "work" /\ agent.ev \in Handled /\ s \in Sessions
      /\ src \in [Sessions -> Views] /\ landed \in [Sessions -> 0..N]
      /\ count \in [asks : Nat, faults : Nat, stops : Nat]
      /\ agent.ev.type \in {"accept", "discard"}
  BY TypeParts, HandledFields DEF Apply, AgentHasEvent, WorldTyped
<1> DEFINE found == src[s] = "full" \/ (src[s] = "wrap" /\ agent.ev.type = "discard")
<1>1. PICK result \in Results \union {"missing"} :
        LET writes == result \in {"plain", "carbonize"}
            undone == agent.ev.type = "discard" /\ ~writes
        IN /\ (result = "missing") <=> ~found
           /\ (result = "carbonize") => (agent.ev.type = "accept")
           /\ Replying(Outcome(agent.ev.type, result), result = "carbonize")
           /\ src' = [src EXCEPT ![s] = IF ~writes THEN @
                                        ELSE IF agent.ev.type = "accept" THEN "kept" ELSE "restored"]
           /\ landed' = [landed EXCEPT ![s] = IF writes /\ agent.ev.type = "accept"
                                              THEN agent.ev.v ELSE @]
           /\ count' = [count EXCEPT !.faults = IF undone THEN @ + 1 ELSE @]
  BY <1>0 DEF Apply
<1>2. result \in {"plain", "carbonize", "fallback", "failed", "missing"}
  BY LiveAssumption
<1>3. ~(agent.ev.type = "discard" /\ result \notin {"plain", "carbonize"}) => count' = count
  BY <1>0, <1>1
<1>4. result \notin {"plain", "carbonize"} => src' = src /\ landed' = landed
  BY <1>0, <1>1
<1>5. agent.ev.type = "discard" => landed' = landed
  BY <1>0, <1>1
<1>6. agent' = [agent EXCEPT !.at = "reply", !.answer = Outcome(agent.ev.type, result),
                             !.carbonize = (result = "carbonize")]
  BY <1>1 DEF Replying
<1>c. CASE result = "carbonize"
  <2>a. agent.ev.type = "accept"
    BY <1>c, <1>1
  <2>b. src[s] = "full"
    BY <1>c, <1>1, <2>a
  <2>1. (agent.ev.type = "accept" /\ result = "carbonize") =>
            Outcome(agent.ev.type, result) = "agent_done"
    BY DEF Outcome, CompletionType
  <2>2. agent' = [agent EXCEPT !.at = "reply", !.answer = "agent_done", !.carbonize = TRUE]
    BY <1>c, <1>6, <2>1, <2>a
  <2>3. src' = [src EXCEPT ![s] = "kept"] /\ landed' = [landed EXCEPT ![s] = agent.ev.v]
    BY <1>c, <1>1, <2>a
  <2> QED
    BY <1>0, <1>c, <1>3, <2>a, <2>b, <2>2, <2>3
<1>p. result /= "carbonize" =>
        agent' = [agent EXCEPT !.at = "reply", !.answer = Outcome(agent.ev.type, result),
                               !.carbonize = FALSE]
  BY <1>6
<1>7. CASE agent.ev.type = "accept" /\ result = "plain"
  <2>1. src[s] = "full" /\ src' = [src EXCEPT ![s] = "kept"] /\ landed' = [landed EXCEPT ![s] = agent.ev.v]
    BY <1>7, <1>1
  <2>2. Outcome(agent.ev.type, result) = "complete"
    BY <1>7 DEF Outcome, CompletionType
  <2> QED
    BY <2>1, <2>2, <1>0, <1>3, <1>p, <1>7
<1>8. CASE agent.ev.type = "accept" /\ result \notin {"plain", "carbonize"}
  <2>1. result = "failed" => Outcome(agent.ev.type, result) = "error" /\ src[s] = "full"
    BY <1>8, <1>1 DEF Outcome, CompletionType
  <2>2. result /= "failed" => Outcome(agent.ev.type, result) = "agent_done"
    BY <1>8 DEF Outcome, CompletionType
  <2>3. CASE result = "failed"
    BY <2>1, <2>3, <1>0, <1>3, <1>4, <1>p, <1>8
  <2>4. CASE result /= "failed"
    BY <2>2, <2>4, <1>0, <1>3, <1>4, <1>p, <1>8
  <2> QED
    BY <2>3, <2>4
<1>9. CASE agent.ev.type = "discard" /\ result = "plain"
  <2>1. Outcome(agent.ev.type, result) = "discarded" /\ src[s] \in {"wrap", "full"}
    BY <1>9, <1>1 DEF Outcome, CompletionType
  <2>2. src' = [src EXCEPT ![s] = "restored"]
    BY <1>9, <1>1
  <2> QED
    BY <2>1, <2>2, <1>0, <1>3, <1>5, <1>p, <1>9
<1>10. CASE agent.ev.type = "discard" /\ result /= "plain"
  <2>0. result \notin {"plain", "carbonize"}
    BY <1>10, <1>1
  <2>1. Outcome(agent.ev.type, result) = "error"
    BY <2>0, <1>10 DEF Outcome, CompletionType
  <2>2. count' = [count EXCEPT !.faults = @ + 1]
    BY <2>0, <1>10, <1>1
  <2> QED
    BY <2>0, <2>1, <2>2, <1>0, <1>4, <1>5, <1>p, <1>10
<1> QED
  BY <1>0, <1>c, <1>7, <1>8, <1>9, <1>10

(* What the agent does to the source for a generate. *)
LEMMA GenerateFacts ==
  ASSUME TypeOK, AgentHasEvent, Generate
  PROVE  LET s == agent.ev.id
         IN /\ s \in Sessions /\ agent.at = "work" /\ agent.ev.type = "generate"
            /\ \/ /\ src[s] = "none" /\ src' = [src EXCEPT ![s] = "wrap"] /\ agent' = agent
               \/ /\ src[s] = "wrap" /\ src' = [src EXCEPT ![s] = "full"] /\ agent' = agent
               \/ /\ src' = src
                  /\ agent' = [agent EXCEPT !.at = "reply", !.answer = "done", !.carbonize = FALSE]
               \/ /\ src[s] \in {"none", "wrap"} /\ src' = [src EXCEPT ![s] = "restored"]
                  /\ agent' = [agent EXCEPT !.at = "reply", !.answer = "error", !.carbonize = FALSE]
BY HandledFields DEF Generate, AgentHasEvent, Replying

(* The source only moves forward: none, wrap, full, and a decision at the end. *)
LEMMA SourceMoves ==
  ASSUME TypeOK, AgentHasEvent, [Next]_vars, NEW s \in Sessions
  PROVE  /\ src[s] \in {"kept", "restored"} => src'[s] = src[s] /\ landed'[s] = landed[s]
         /\ src'[s] = src[s] \/ src[s] = "none" \/ src'[s] \in {"full", "kept", "restored"}
         /\ src[s] = "full" => src'[s] \in {"full", "kept", "restored"}
         /\ src'[s] \in Views /\ landed'[s] \in 0..N
         /\ ~(Generate \/ Apply) => src' = src /\ landed' = landed
         /\ src' \in [Sessions -> Views] /\ landed' \in [Sessions -> 0..N]
<1>0. src \in [Sessions -> Views] /\ landed \in [Sessions -> 0..N]
  BY TypeParts DEF WorldTyped
<1>1. CASE Generate
  <2>1. landed' = landed
    BY <1>1 DEF Generate
  <2> QED
    BY <2>1, <1>0, <1>1, GenerateFacts DEF Views
<1>2. CASE Apply
  <2>1. agent.ev.v \in 0..N
    BY <1>2, HandledFields DEF Apply, AgentHasEvent
  <2> QED
    BY <2>1, <1>0, <1>2, ApplyFacts DEF Views
<1>3. CASE ~(Generate \/ Apply)
  <2>1. src' = src /\ landed' = landed
    BY <1>3, PageFrame, HelperFrame, FaultFrame DEF Next, AgentStep, Deliver, Reply, ReplyFails, LiveComplete,
      FaultStep, Reload, worldVars, vars
  <2> QED
    BY <2>1, <1>0
<1> QED
  BY <1>1, <1>2, <1>3

(* What a page shows of a session comes from the source. *)
LEMMA ViewMoves ==
  ASSUME TypeOK, [Next]_vars, NEW s \in Sessions
  PROVE  dom'[s] = dom[s] \/ (dom'[s] = src[s] /\ src'[s] = src[s])
<1>0. src \in [Sessions -> Views] /\ dom \in [Sessions -> Views]
  BY TypeParts DEF WorldTyped
<1>1. ASSUME NEW r \in Sessions, HotUpdate(r) PROVE dom'[s] = dom[s] \/ (dom'[s] = src[s] /\ src'[s] = src[s])
  BY <1>0, <1>1 DEF HotUpdate
<1>2. CASE FetchLands
  BY <1>0, <1>2 DEF FetchLands
<1>3. CASE Reload
  BY <1>0, <1>3 DEF Reload
<1>4. CASE dom' = dom
  BY <1>4
<1> QED
  BY <1>1, <1>2, <1>3, <1>4, PageFrame, HelperFrame, AgentFrame, FaultFrame DEF Next, FaultStep, vars

LEMMA CountMoves ==
  ASSUME TypeOK, AgentHasEvent, [Next]_vars
  PROVE  /\ count' \in [asks : Nat, faults : Nat, stops : Nat]
         /\ count'.stops = count.stops \/ Stop
         /\ count'.faults = count.faults \/ count'.faults = count.faults + 1
         /\ FaultStep => count'.faults = count.faults + 1
<1>0. /\ count \in [asks : Nat, faults : Nat, stops : Nat]
      /\ count.asks \in Nat /\ count.faults \in Nat /\ count.stops \in Nat
  BY TypeParts DEF WorldTyped
<1>1. CASE FaultStep
  <2>1. \/ count' = [count EXCEPT !.faults = @ + 1]
        \/ count' = [count EXCEPT !.faults = @ + 1, !.stops = @ + 1] /\ Stop
    BY <1>1 DEF FaultStep, Stop, Drop, Reload, Kill
  <2>2. CASE count' = [count EXCEPT !.faults = @ + 1]
    BY <2>2, <1>0
  <2>3. CASE count' = [count EXCEPT !.faults = @ + 1, !.stops = @ + 1] /\ Stop
    <3>1. /\ DOMAIN count = {"asks", "faults", "stops"}
          /\ count' = [asks |-> count.asks, faults |-> count.faults + 1, stops |-> count.stops + 1]
      BY <2>3, <1>0
    <3>2. count.faults + 1 \in Nat /\ count.stops + 1 \in Nat
      BY <1>0
    <3> QED
      BY <2>3, <3>1, <3>2, <1>0
  <2> QED
    BY <2>1, <2>2, <2>3
<1>2. CASE ~FaultStep
  <2>1. \/ count' = count
        \/ count' = [count EXCEPT !.asks = @ + 1]
        \/ count' = [count EXCEPT !.faults = @ + 1]
    BY <1>2, ApplyFacts, PageFrame, HelperFrame DEF Next, Accept, Discard, AgentStep, Deliver, Generate,
      Reply, ReplyFails, LiveComplete, vars
  <2> QED
    BY <2>1, <1>0, <1>2
<1> QED
  BY <1>1, <1>2

LEMMA WorldKeepsTypes ==
  ASSUME TypeOK, AgentHasEvent, [Next]_vars
  PROVE  WorldTyped'
<1>0. src \in [Sessions -> Views] /\ dom \in [Sessions -> Views] /\ landed \in [Sessions -> 0..N]
  BY TypeParts DEF WorldTyped
<1>1. src' \in [Sessions -> Views] /\ landed' \in [Sessions -> 0..N]
  <2>1. CASE \E s \in Sessions : TRUE
    BY <2>1, SourceMoves
  <2>2. CASE ~(\E s \in Sessions : TRUE)
    BY <2>2, <1>0, GenerateFacts, ApplyFacts, PageFrame, HelperFrame, FaultFrame
      DEF Next, AgentStep, Deliver, Reply, ReplyFails, LiveComplete, FaultStep, Reload, worldVars, vars
  <2> QED
    BY <2>1, <2>2
<1>2. dom' \in [Sessions -> Views]
  <2>1. ASSUME NEW s \in Sessions, HotUpdate(s) PROVE dom' \in [Sessions -> Views]
    BY <1>0, <2>1 DEF HotUpdate
  <2>2. CASE FetchLands
    BY <1>0, <2>2 DEF FetchLands
  <2>3. CASE Reload
    BY <1>0, <2>3 DEF Reload
  <2>4. CASE dom' = dom
    BY <1>0, <2>4
  <2> QED
    BY <2>1, <2>2, <2>3, <2>4, PageFrame, HelperFrame, AgentFrame, FaultFrame DEF Next, FaultStep, vars
<1>3. count' \in [asks : Nat, faults : Nat, stops : Nat]
  BY CountMoves
<1> QED
  BY <1>1, <1>2, <1>3 DEF WorldTyped

-----------------------------------------------------------------------------
(* The journal. *)

Journals == [phase : Phases, pending : Pending]

LEMMA AskApplied ==
  ASSUME NEW j \in Journals, NEW r \in [type : Asks, id : Sessions, v : 0..N]
  PROVE  /\ ApplyEvent(j, r) \in Journals /\ ApplyEvent(j, r).phase /= "new"
         /\ ~Terminal(ApplyEvent(j, r))
         /\ ApplyEvent(j, r).pending = [type |-> r.type, v |-> r.v]
<1>1. [type |-> r.type, v |-> r.v] \in Pending
  BY DEF Pending
<1>2. r.type \in {"generate", "accept", "discard"}
  BY DEF Asks
<1>3. CASE r.type = "generate"
  BY <1>1, <1>3 DEF ApplyEvent, Journals, Phases, Terminal
<1>4. CASE r.type = "accept"
  BY <1>1, <1>4 DEF ApplyEvent, Journals, Phases, Terminal
<1>5. CASE r.type = "discard"
  BY <1>1, <1>5 DEF ApplyEvent, Journals, Phases, Terminal
<1> QED
  BY <1>2, <1>3, <1>4, <1>5

LEMMA AnswerApplied ==
  ASSUME NEW j \in Journals, NEW c \in BOOLEAN, NEW e, NEW answer, e.type = ReplyType(answer), e.carbonize = c
  PROVE  /\ ApplyEvent(j, e) \in Journals /\ ApplyEvent(j, e).phase /= "new"
         /\ ApplyEvent(j, e).pending = Idle
<1>1. e.type \in {"agent_done", "discarded", "complete", "agent_error"}
  BY DEF ReplyType
<1>2. Idle \in Pending
  BY DEF Pending
<1>3. CASE e.type = "agent_done"
  BY <1>2, <1>3 DEF ApplyEvent, Journals, Phases
<1>4. CASE e.type = "discarded"
  BY <1>2, <1>4 DEF ApplyEvent, Journals, Phases
<1>5. CASE e.type = "complete"
  BY <1>2, <1>5 DEF ApplyEvent, Journals, Phases
<1>6. CASE e.type = "agent_error"
  BY <1>2, <1>6 DEF ApplyEvent, Journals, Phases
<1> QED
  BY <1>1, <1>3, <1>4, <1>5, <1>6

LEMMA CheckpointApplied ==
  ASSUME NEW j \in Journals, NEW e, e.type = "checkpoint", e.phase = "in_page"
  PROVE  /\ ApplyEvent(j, e) \in Journals /\ ApplyEvent(j, e).phase /= "new"
         /\ ApplyEvent(j, e).pending = j.pending
         /\ ApplyEvent(j, e) = j \/ ~Terminal(ApplyEvent(j, e))
BY DEF ApplyEvent, Journals, Phases, Terminal

(* What a step does to the journal of a session. *)
LEMMA JournalMoves ==
  ASSUME TypeOK, AgentHasEvent, [Next]_vars
  PROVE  /\ snap' \in [Sessions -> Journals]
         /\ \A s \in Sessions :
              /\ snap'[s] = snap[s] \/ snap'[s].phase /= "new"
              /\ snap'[s] = snap[s] \/ ~Terminal(snap'[s]) \/ snap'[s].pending = Idle
              /\ \/ snap'[s].pending = snap[s].pending
                 \/ snap'[s].pending = Idle
                 \/ \E r \in net : /\ Receive(r) /\ fresh /\ r.id = s
                                   /\ snap'[s].pending = [type |-> r.type, v |-> r.v]
<1>0. /\ snap \in [Sessions -> Journals] /\ tab.cur \in Ids
      /\ net \subseteq [type : Asks, id : Sessions, v : 0..N] /\ agent.carbonize \in BOOLEAN
  BY TypeParts, TabFields DEF PageTyped, Tabs, WireTyped, JournalTyped, Journals, AgentTyped
<1> DEFINE Moves == /\ snap' \in [Sessions -> Journals]
                    /\ \A s \in Sessions :
                         /\ snap'[s] = snap[s] \/ snap'[s].phase /= "new"
                         /\ snap'[s] = snap[s] \/ ~Terminal(snap'[s]) \/ snap'[s].pending = Idle
                         /\ \/ snap'[s].pending = snap[s].pending
                            \/ snap'[s].pending = Idle
                            \/ \E r \in net : /\ Receive(r) /\ fresh /\ r.id = s
                                              /\ snap'[s].pending = [type |-> r.type, v |-> r.v]
<1>1. ASSUME snap' = snap PROVE Moves
  BY <1>0, <1>1
<1>2. CASE Checkpoint
  <2> DEFINE e == [type |-> "checkpoint", phase |-> "in_page"]
  <2>1. tab.cur \in Sessions /\ snap' = [snap EXCEPT ![tab.cur] = ApplyEvent(@, e)]
    BY <1>0, <1>2 DEF Checkpoint, Ids
  <2>2. e.type = "checkpoint" /\ e.phase = "in_page" /\ snap[tab.cur] \in Journals
    BY <1>0, <2>1
  <2>3. /\ ApplyEvent(snap[tab.cur], e) \in Journals /\ ApplyEvent(snap[tab.cur], e).phase /= "new"
        /\ ApplyEvent(snap[tab.cur], e).pending = snap[tab.cur].pending
        /\ ApplyEvent(snap[tab.cur], e) = snap[tab.cur] \/ ~Terminal(ApplyEvent(snap[tab.cur], e))
    BY <2>2, CheckpointApplied
  <2> HIDE DEF e
  <2> QED
    BY <1>0, <2>1, <2>3
<1>3. ASSUME NEW r \in net, Receive(r) PROVE Moves
  <2>1. CASE ~fresh
    BY <2>1, <1>3, <1>1 DEF Receive
  <2>2. CASE fresh
    <3>1. snap' = [snap EXCEPT ![r.id] = ApplyEvent(@, r)] /\ r.id \in Sessions
      BY <2>2, <1>3, <1>0 DEF Receive
    <3>2. /\ ApplyEvent(snap[r.id], r) \in Journals /\ ApplyEvent(snap[r.id], r).phase /= "new"
          /\ ApplyEvent(snap[r.id], r).pending = [type |-> r.type, v |-> r.v]
          /\ ~Terminal(ApplyEvent(snap[r.id], r))
      BY <1>0, <3>1, AskApplied
    <3> QED
      BY <1>0, <1>3, <2>2, <3>1, <3>2
  <2> QED
    BY <2>1, <2>2
<1>4. ASSUME NEW e, NEW answer, NEW a \in Sessions, e.type = ReplyType(answer), e.carbonize \in BOOLEAN,
             snap' = [snap EXCEPT ![a] = ApplyEvent(@, e)]
      PROVE  Moves
  <2>1. /\ ApplyEvent(snap[a], e) \in Journals /\ ApplyEvent(snap[a], e).phase /= "new"
        /\ ApplyEvent(snap[a], e).pending = Idle
    BY <1>0, <1>4, AnswerApplied
  <2> QED
    BY <1>0, <1>4, <2>1
<1>5. ASSUME NEW answer, NEW c \in BOOLEAN, NEW a \in Sessions, PollPost(a, answer, c) PROVE Moves
  <2> DEFINE e == [type |-> ReplyType(answer), carbonize |-> c]
  <2>1. snap' = snap \/ snap' = [snap EXCEPT ![a] = ApplyEvent(@, e)]
    BY <1>5 DEF PollPost
  <2>2. e.type = ReplyType(answer) /\ e.carbonize \in BOOLEAN
    OBVIOUS
  <2> HIDE DEF e
  <2> QED
    BY <2>1, <2>2, <1>1, <1>4
<1>6. CASE Reply
  <2>1. agent.ev.id \in Sessions /\ PollPost(agent.ev.id, agent.answer, agent.carbonize)
    BY <1>6, HandledFields DEF Reply, AgentHasEvent
  <2> QED
    BY <2>1, <1>0, <1>5
<1>7. CASE LiveComplete
  <2>1. agent.ev.id \in Sessions
    BY <1>7, HandledFields DEF LiveComplete, AgentHasEvent
  <2>2. CASE up
    <3>1. PollPost(agent.ev.id, agent.answer, FALSE)
      BY <2>2, <1>7 DEF LiveComplete
    <3> QED
      BY <2>1, <3>1, <1>5
  <2>3. CASE ~up
    <3> DEFINE e == [type |-> ReplyType(agent.answer), carbonize |-> FALSE]
    <3>1. snap' = [snap EXCEPT ![agent.ev.id] = ApplyEvent(@, e)]
      BY <2>3, <1>7 DEF LiveComplete
    <3>2. e.type = ReplyType(agent.answer) /\ e.carbonize \in BOOLEAN
      OBVIOUS
    <3> HIDE DEF e
    <3> QED
      BY <2>1, <3>1, <3>2, <1>4
  <2> QED
    BY <2>2, <2>3
<1>8. CASE PageStep
  BY <1>1, <1>2, <1>8, PageFrame
<1>9. CASE HelperStep
  BY <1>1, <1>3, <1>9 DEF HelperStep, Unreachable, Connect, ExitTimer, Start, LeaseEnds, serverVars
<1>10. CASE Deliver \/ Generate \/ Apply \/ ReplyFails
  BY <1>1, <1>10 DEF Deliver, Generate, Apply, ReplyFails, serverVars
<1>11. CASE FaultStep
  BY <1>1, <1>11, FaultFrame DEF FaultStep, Reload
<1>12. CASE UNCHANGED vars
  BY <1>1, <1>12 DEF vars
<1> QED
  BY <1>6, <1>7, <1>8, <1>9, <1>10, <1>11, <1>12 DEF Next, AgentStep

-----------------------------------------------------------------------------
(* The operations on the queue. *)

Queues == {q \in Seq(Entries) :
             \A i, j \in DOMAIN q : q[i].id = q[j].id /\ q[i].type = q[j].type => i = j}

SameEvent(e, f) == e.id = f.id /\ e.type = f.type /\ e.v = f.v

LEMMA QueueIsQueue == QueueTyped <=> queue \in Queues
BY DEF QueueTyped, Queues

LEMMA QueueFields ==
  ASSUME NEW q \in Queues
  PROVE  /\ q \in Seq(Entries) /\ Len(q) \in Nat /\ DOMAIN q = 1..Len(q)
         /\ \A i \in DOMAIN q : q[i] \in Entries
         /\ \A i, j \in DOMAIN q : q[i].id = q[j].id /\ q[i].type = q[j].type => i = j
BY LenProperties, ElementOfSeq DEF Queues

LEMMA Appending ==
  ASSUME NEW q \in Queues, NEW e \in Entries,
         \A i \in DOMAIN q : ~(q[i].id = e.id /\ q[i].type = e.type)
  PROVE  /\ Append(q, e) \in Queues /\ DOMAIN Append(q, e) = 1..(Len(q) + 1)
         /\ \A i \in DOMAIN q : i \in DOMAIN Append(q, e) /\ Append(q, e)[i] = q[i]
         /\ Append(q, e)[Len(q) + 1] = e /\ Len(q) + 1 \in DOMAIN Append(q, e)
         /\ \A i \in DOMAIN Append(q, e) : i \in DOMAIN q \/ i = Len(q) + 1
<1>1. q \in Seq(Entries) /\ Len(q) \in Nat /\ DOMAIN q = 1..Len(q)
  BY QueueFields
<1>2. /\ Append(q, e) \in Seq(Entries) /\ Len(Append(q, e)) = Len(q) + 1
      /\ \A i \in 1..Len(q) : Append(q, e)[i] = q[i]
      /\ Append(q, e)[Len(q) + 1] = e
  BY <1>1, AppendProperties
<1>3. DOMAIN Append(q, e) = 1..(Len(q) + 1)
  BY <1>2, LenProperties
<1>4. \A i \in 1..(Len(q) + 1) : i \in 1..Len(q) \/ i = Len(q) + 1
  BY <1>1
<1>5. \A i \in 1..Len(q) : i \in 1..(Len(q) + 1)
  BY <1>1
<1>6. Len(q) + 1 \in 1..(Len(q) + 1)
  BY <1>1
<1>7. ASSUME NEW i \in DOMAIN Append(q, e), NEW j \in DOMAIN Append(q, e),
             Append(q, e)[i].id = Append(q, e)[j].id, Append(q, e)[i].type = Append(q, e)[j].type
      PROVE  i = j
  BY <1>1, <1>2, <1>3, <1>4, <1>7, QueueFields
<1> QED
  BY <1>1, <1>2, <1>3, <1>4, <1>5, <1>6, <1>7 DEF Queues

LEMMA Removing ==
  ASSUME NEW q \in Queues, NEW i \in DOMAIN q
  PROVE  /\ RemoveAt(q, i) \in Queues /\ Len(RemoveAt(q, i)) = Len(q) - 1
         /\ \A j \in DOMAIN RemoveAt(q, i) : \E k \in DOMAIN q : k /= i /\ RemoveAt(q, i)[j] = q[k]
         /\ \A k \in DOMAIN q : k /= i => \E j \in DOMAIN RemoveAt(q, i) : RemoveAt(q, i)[j] = q[k]
         /\ \A j \in 1..(Len(q) - 1) : RemoveAt(q, i)[j] = IF j < i THEN q[j] ELSE q[j + 1]
<1>1. q \in Seq(Entries) /\ Len(q) \in Nat /\ DOMAIN q = 1..Len(q) /\ i \in 1..Len(q)
  BY QueueFields
<1> DEFINE p == RemoveAt(q, i)
<1>2. /\ p \in Seq(Entries) /\ Len(p) = Len(q) - 1
      /\ \A j \in 1..(Len(q) - 1) : p[j] = IF j < i THEN q[j] ELSE q[j + 1]
  BY <1>1, RemoveAtFacts
<1>3. DOMAIN p = 1..(Len(q) - 1)
  BY <1>2, LenProperties
<1> HIDE DEF p
<1>4. ASSUME NEW j \in 1..(Len(q) - 1)
      PROVE  LET k == IF j < i THEN j ELSE j + 1 IN k \in 1..Len(q) /\ k /= i /\ p[j] = q[k]
  BY <1>1, <1>2
<1>5. ASSUME NEW k \in 1..Len(q), k /= i
      PROVE  LET j == IF k < i THEN k ELSE k - 1 IN j \in 1..(Len(q) - 1) /\ p[j] = q[k]
  <2>1. CASE k < i
    BY <2>1, <1>1, <1>2
  <2>2. CASE ~(k < i)
    <3>1. k - 1 \in 1..(Len(q) - 1) /\ ~(k - 1 < i) /\ (k - 1) + 1 = k
      BY <2>2, <1>1, <1>5
    <3>2. p[k - 1] = q[(k - 1) + 1]
      BY <3>1, <1>2
    <3> QED
      BY <2>2, <3>1, <3>2
  <2> QED
    BY <2>1, <2>2
<1>6. ASSUME NEW j \in DOMAIN p, NEW k \in DOMAIN p, p[j].id = p[k].id, p[j].type = p[k].type
      PROVE  j = k
  <2> DEFINE J == IF j < i THEN j ELSE j + 1
             K == IF k < i THEN k ELSE k + 1
  <2>1. J \in 1..Len(q) /\ p[j] = q[J] /\ K \in 1..Len(q) /\ p[k] = q[K]
    BY <1>3, <1>4
  <2>2. J = K
    BY <2>1, <1>1, <1>6, QueueFields
  <2> QED
    BY <2>2, <1>1, <1>3
<1>7. p \in Queues
  BY <1>2, <1>6 DEF Queues
<1> QED
  BY <1>1, <1>2, <1>3, <1>4, <1>5, <1>7 DEF p

LEMMA Leasing ==
  ASSUME NEW q \in Queues, NEW i \in DOMAIN q, q[i].id /= None, NEW b \in BOOLEAN
  PROVE  LET p == [q EXCEPT ![i].leased = b]
         IN /\ p \in Queues /\ DOMAIN p = DOMAIN q /\ Len(p) = Len(q)
            /\ \A j \in DOMAIN q : SameEvent(p[j], q[j]) /\ p[j].leased = IF j = i THEN b ELSE q[j].leased
<1>1. q \in Seq(Entries) /\ Len(q) \in Nat /\ DOMAIN q = 1..Len(q) /\ i \in 1..Len(q)
  BY QueueFields
<1>2. q[i] \in Entries
  BY QueueFields
<1>3. q[i] \in Handled
  BY <1>2, EntryFields
<1> DEFINE e == [q[i] EXCEPT !.leased = b]
<1>4. e \in Entries /\ e.id = q[i].id /\ e.type = q[i].type /\ e.v = q[i].v /\ e.leased = b
  BY <1>3 DEF Handled, Entries
<1> DEFINE p == [q EXCEPT ![i].leased = b]
<1>5. p = [q EXCEPT ![i] = e]
  OBVIOUS
<1> HIDE DEF e
<1>6. /\ p \in Seq(Entries) /\ Len(p) = Len(q)
      /\ \A j \in 1..Len(q) : p[j] = IF j = i THEN e ELSE q[j]
  BY <1>1, <1>4, <1>5, ExceptSeq
<1>7. DOMAIN p = 1..Len(q)
  BY <1>6, LenProperties
<1> HIDE DEF p
<1>8. \A j \in DOMAIN q : SameEvent(p[j], q[j]) /\ p[j].leased = IF j = i THEN b ELSE q[j].leased
  BY <1>1, <1>4, <1>6 DEF SameEvent
<1>9. \A j, k \in DOMAIN p : p[j].id = p[k].id /\ p[j].type = p[k].type => j = k
  BY <1>1, <1>7, <1>8, QueueFields DEF SameEvent
<1>10. p \in Queues
  BY <1>6, <1>9 DEF Queues
<1> QED
  BY <1>1, <1>6, <1>7, <1>8, <1>10 DEF p

(* What a restarted helper queues: the pending event of every active session. *)
LEMMA Restarting ==
  ASSUME TypeOK, Start
  PROVE  /\ queue' \in Queues
         /\ \A i \in DOMAIN queue' :
              LET s == queue'[i].id
              IN s \in ActiveSessions(snap) /\ s \in Sessions /\ snap[s].pending /= Idle
         /\ \A s \in ActiveSessions(snap) : snap[s].pending /= Idle =>
              \E i \in DOMAIN queue' : queue'[i].id = s /\ queue'[i].type = snap[s].pending.type
<1> DEFINE pending == {s \in ActiveSessions(snap) : snap[s].pending /= Idle}
<1>0. snap \in [Sessions -> Journals]
  BY TypeParts DEF JournalTyped, Journals
<1>1. PICK order \in SetToSeqs(pending) :
        queue' = [i \in DOMAIN order |->
                    [id |-> order[i], type |-> snap[order[i]].pending.type,
                     v |-> snap[order[i]].pending.v, leased |-> FALSE]]
  BY DEF Start
<1>2. pending \subseteq Sessions /\ pending \subseteq ActiveSessions(snap)
      /\ \A s \in pending : snap[s].pending /= Idle
  BY <1>0 DEF ActiveSessions
<1>3. IsFiniteSet(pending)
  BY <1>2, FS_Subset, LiveAssumption
<1>4. \A s \in ActiveSessions(snap) : snap[s].pending /= Idle => s \in pending
  OBVIOUS
<1> HIDE DEF pending
<1> DEFINE n == Cardinality(pending)
<1>5. n \in Nat
  BY <1>3, FS_CardinalityType
<1>6. order \in [1..n -> pending] /\ \A i, j \in 1..n : i /= j => order[i] /= order[j]
  BY DEF SetToSeqs
<1>7. order \in Surjection(1..n, pending)
  <2>1. order \in Injection(1..n, pending)
    BY <1>6 DEF Injection, IsInjective
  <2>2. IsFiniteSet(1..n) /\ Cardinality(1..n) = n
    BY <1>5, FS_Interval
  <2> QED
    BY <2>1, <2>2, <1>3, FS_Injection
<1>8. \A s \in pending : \E i \in 1..n : order[i] = s
  BY <1>7 DEF Surjection
<1>9. DOMAIN queue' = 1..n
  BY <1>1, <1>6
<1>10. ASSUME NEW i \in 1..n
       PROVE  /\ queue'[i] \in Entries /\ queue'[i].id = order[i] /\ order[i] \in pending
              /\ queue'[i].type = snap[order[i]].pending.type
  <2>1. queue'[i] = [id |-> order[i], type |-> snap[order[i]].pending.type,
                     v |-> snap[order[i]].pending.v, leased |-> FALSE]
    BY <1>1, <1>6
  <2>2. order[i] \in pending /\ order[i] \in Sessions
    BY <1>2, <1>6
  <2>3. snap[order[i]].pending \in [type : Asks, v : 0..N]
    BY <1>0, <1>2, <2>2 DEF Journals, Pending
  <2> QED
    BY <2>1, <2>2, <2>3 DEF Entries
<1>11. queue' \in Seq(Entries)
  <2>1. queue' \in [1..n -> Entries]
    BY <1>1, <1>9, <1>10
  <2> QED
    BY <2>1, <1>5, SeqDef
<1>12. \A i, j \in DOMAIN queue' : queue'[i].id = queue'[j].id /\ queue'[i].type = queue'[j].type => i = j
  BY <1>6, <1>9, <1>10
<1>13. queue' \in Queues
  BY <1>11, <1>12 DEF Queues
<1> QED
  BY <1>2, <1>4, <1>8, <1>9, <1>10, <1>13

-----------------------------------------------------------------------------
(* An exit is queued only while no stream is open and no timer runs. *)
ExitHasCause ==
  /\ conn => ~exitDue
  /\ conn \/ exitDue => \A i \in DOMAIN queue : queue[i].type /= "exit"

(* Every entry of the queue and every notice is of a session with a        *)
(* journal; a session without one has nothing pending, nor has one that is *)
(* at its end.                                                             *)
JournalKnows ==
  /\ \A s \in Sessions : snap[s].phase = "new" \/ Terminal(snap[s]) => snap[s].pending = Idle
  /\ \A i \in DOMAIN queue : queue[i].id /= None => snap[queue[i].id].phase /= "new"
  /\ \A i \in DOMAIN sse : sse[i].type /= "connected" => snap[sse[i].id].phase /= "new"

LEMMA AskEntry ==
  ASSUME NEW r \in [type : Asks, id : Sessions, v : 0..N]
  PROVE  LET e == [id |-> r.id, type |-> r.type, v |-> r.v, leased |-> FALSE]
         IN e \in Entries /\ e.id = r.id /\ e.type = r.type /\ e.v = r.v /\ e.leased = FALSE
<1> DEFINE e == [id |-> r.id, type |-> r.type, v |-> r.v, leased |-> FALSE]
<1>1. r.id \in Sessions /\ r.type \in Asks /\ r.v \in 0..N /\ FALSE \in BOOLEAN
  OBVIOUS
<1>2. e \in [id : Sessions, type : Asks, v : 0..N, leased : BOOLEAN]
  BY <1>1
<1> QED
  BY <1>2 DEF Entries

LEMMA ExitEntry ==
  LET e == [NoEvent EXCEPT !.type = "exit"]
  IN e \in Entries /\ e.id = None /\ e.type = "exit" /\ e.leased = FALSE
BY DEF Entries, NoEvent

(* What a step does to the queue. *)
QueueKept    == queue' = queue
QueueAdds(e) == /\ e \in Entries /\ e.leased = FALSE
                /\ \A i \in DOMAIN queue : ~(queue[i].id = e.id /\ queue[i].type = e.type)
                /\ queue' = Append(queue, e)
QueueDrops(i) == queue' = RemoveAt(queue, i)
QueueLeases(i, b) == queue[i].id /= None /\ queue' = [queue EXCEPT ![i].leased = b]

LEMMA ReceiveMoves ==
  ASSUME TypeOK, NEW r \in net, Receive(r)
  PROVE  \/ queue' = queue /\ (fresh => \E i \in DOMAIN queue : queue[i].id = r.id /\ queue[i].type = r.type)
         \/ /\ fresh
            /\ LET e == [id |-> r.id, type |-> r.type, v |-> r.v, leased |-> FALSE]
               IN QueueAdds(e) /\ e.id = r.id /\ e.type = r.type /\ e.v = r.v /\ e.leased = FALSE
<1> DEFINE e == [id |-> r.id, type |-> r.type, v |-> r.v, leased |-> FALSE]
<1>1. r \in [type : Asks, id : Sessions, v : 0..N]
  BY TypeParts DEF WireTyped
<1>2. e \in Entries /\ e.id = r.id /\ e.type = r.type /\ e.v = r.v /\ e.leased = FALSE
  BY <1>1, AskEntry
<1>3. CASE \/ ~fresh
           \/ \E i \in DOMAIN queue : queue[i].id = r.id /\ queue[i].type = r.type
  BY <1>3 DEF Receive, Enqueued
<1>4. CASE fresh /\ \A i \in DOMAIN queue : ~(queue[i].id = r.id /\ queue[i].type = r.type)
  <2>1. queue' = Append(queue, e)
    BY <1>4 DEF Receive, Enqueued
  <2> HIDE DEF e
  <2>2. QueueAdds(e)
    BY <2>1, <1>2, <1>4 DEF QueueAdds
  <2> QED
    BY <2>2, <1>2, <1>4 DEF e
<1> QED
  BY <1>3, <1>4

LEMMA AckMoves ==
  ASSUME NEW s, Ack(s)
  PROVE  \/ \E i \in DOMAIN queue : /\ QueueDrops(i) /\ queue[i].id = s
                                    /\ \A j \in 1..(i - 1) : queue[j].id /= s
         \/ QueueKept /\ \A i \in DOMAIN queue : queue[i].id /= s
BY DEF Ack, QueueDrops, QueueKept

LEMMA ExitTimerMoves ==
  ASSUME TypeOK, ExitHasCause, ExitTimer
  PROVE  LET e == [NoEvent EXCEPT !.type = "exit"]
         IN QueueAdds(e) /\ e.id = None /\ e.type = "exit" /\ e.leased = FALSE
<1> DEFINE e == [NoEvent EXCEPT !.type = "exit"]
<1>1. e \in Entries /\ e.id = None /\ e.type = "exit" /\ e.leased = FALSE
  BY ExitEntry
<1>2. queue' = Append(queue, e) /\ \A i \in DOMAIN queue : queue[i].type /= "exit"
  BY DEF ExitTimer, ExitHasCause
<1> HIDE DEF e
<1>3. QueueAdds(e)
  BY <1>1, <1>2 DEF QueueAdds
<1> QED
  BY <1>1, <1>3 DEF e

LEMMA QueueMoves ==
  ASSUME TypeOK, ExitHasCause, AgentHasEvent, [Next]_vars
  PROVE  \/ QueueKept
         \/ \E r \in net : /\ Receive(r) /\ fresh
                           /\ LET e == [id |-> r.id, type |-> r.type, v |-> r.v, leased |-> FALSE]
                              IN QueueAdds(e) /\ e.id = r.id /\ e.type = r.type /\ e.v = r.v
         \/ /\ ExitTimer
            /\ LET e == [NoEvent EXCEPT !.type = "exit"] IN QueueAdds(e) /\ e.id = None /\ e.type = "exit"
         \/ \E i \in DOMAIN queue : QueueDrops(i) /\ queue[i].id = None /\ (Connect \/ Deliver)
         \/ \E i \in DOMAIN queue : /\ QueueDrops(i) /\ (Reply \/ (LiveComplete /\ up))
                                    /\ queue[i].id = agent.ev.id
                                    /\ \A j \in 1..(i - 1) : queue[j].id /= agent.ev.id
         \/ \E i \in DOMAIN queue : QueueLeases(i, TRUE) /\ Deliver
         \/ \E i \in DOMAIN queue : QueueLeases(i, FALSE) /\ queue[i].leased /\ LeaseEnds
         \/ queue' = <<>> /\ Stop
         \/ Start
<1>0. \A i \in DOMAIN queue : queue[i] \in Entries
  BY TypeParts, QueueEntry
<1>1. CASE Connect
  <2>1. CancelExit
    BY <1>1 DEF Connect
  <2> QED
    BY <2>1, <1>0, <1>1, EntryFields DEF CancelExit, QueueKept, QueueDrops
<1>2. CASE Deliver
  <2>1. PICK i \in DOMAIN queue :
          IF queue[i].id = None
          THEN queue' = RemoveAt(queue, i)
          ELSE queue' = [queue EXCEPT ![i].leased = TRUE]
    BY <1>2 DEF Deliver
  <2> QED
    BY <2>1, <1>2 DEF QueueLeases, QueueDrops
<1>3. CASE LeaseEnds
  <2>1. PICK i \in DOMAIN queue : queue[i].leased /\ queue' = [queue EXCEPT ![i].leased = FALSE]
    BY <1>3 DEF LeaseEnds
  <2>2. queue[i].id /= None
    BY <2>1, <1>0, ExitEntry, Constants DEF Entries
  <2> QED
    BY <2>1, <2>2, <1>3 DEF QueueLeases
<1>4. CASE Reply \/ (LiveComplete /\ up)
  <2>1. Ack(agent.ev.id)
    BY <1>4 DEF Reply, LiveComplete, PollPost
  <2> QED
    BY <2>1, <1>4, AckMoves
<1>5. CASE LiveComplete /\ ~up
  BY <1>5 DEF LiveComplete, QueueKept
<1>6. ASSUME NEW r \in net, Receive(r) PROVE \/ QueueKept
         \/ \E x \in net : /\ Receive(x) /\ fresh
                           /\ LET e == [id |-> x.id, type |-> x.type, v |-> x.v, leased |-> FALSE]
                              IN QueueAdds(e) /\ e.id = x.id /\ e.type = x.type /\ e.v = x.v
  BY <1>6, ReceiveMoves DEF QueueKept
<1>7. CASE ExitTimer
  BY <1>7, ExitTimerMoves
<1>8. CASE PageStep
  BY <1>8, PageFrame DEF QueueKept
<1>9. CASE Generate \/ Apply \/ ReplyFails \/ Drop \/ Reload \/ Kill
  BY <1>9 DEF Generate, Apply, ReplyFails, Drop, Reload, Kill, serverVars, QueueKept
<1>10. CASE Stop
  BY <1>10 DEF Stop
<1>11. ASSUME NEW r \in net, Unreachable(r) PROVE QueueKept
  BY <1>11 DEF Unreachable, serverVars, QueueKept
<1>12. CASE UNCHANGED vars
  BY <1>12 DEF vars, QueueKept
<1> QED
  BY <1>1, <1>2, <1>3, <1>4, <1>5, <1>6, <1>7, <1>8, <1>9, <1>10, <1>11, <1>12
    DEF Next, HelperStep, AgentStep, FaultStep

(* The queue stays a queue. *)
LEMMA QueueKeepsTypes ==
  ASSUME TypeOK, ExitHasCause, AgentHasEvent, [Next]_vars
  PROVE  QueueTyped'
<1>0. queue \in Queues
  BY TypeParts, QueueIsQueue
<1>1. queue' \in Queues => QueueTyped'
  BY DEF QueueTyped, Queues
<1>2. ASSUME NEW e, QueueAdds(e) PROVE queue' \in Queues
  BY <1>0, <1>2, Appending DEF QueueAdds
<1>3. ASSUME NEW i \in DOMAIN queue, QueueDrops(i) PROVE queue' \in Queues
  BY <1>0, <1>3, Removing DEF QueueDrops
<1>4. ASSUME NEW i \in DOMAIN queue, NEW b \in BOOLEAN, QueueLeases(i, b) PROVE queue' \in Queues
  BY <1>0, <1>4, Leasing DEF QueueLeases
<1>5. queue' = <<>> => queue' \in Queues
  BY EmptySeq DEF Queues
<1>6. Start => queue' \in Queues
  BY Restarting
<1>7. QueueKept => queue' \in Queues
  BY <1>0 DEF QueueKept
<1> QED
  BY <1>1, <1>2, <1>3, <1>4, <1>5, <1>6, <1>7, QueueMoves

(* Where the entries of the queue come from. *)
LEMMA EntryComesFrom ==
  ASSUME TypeOK, ExitHasCause, AgentHasEvent, [Next]_vars, NEW i \in DOMAIN queue'
  PROVE  \/ \E j \in DOMAIN queue : SameEvent(queue'[i], queue[j])
         \/ \E r \in net : Receive(r) /\ fresh /\ SameEvent(queue'[i], r)
         \/ ExitTimer /\ queue'[i].type = "exit" /\ queue'[i].id = None
         \/ /\ Start /\ queue'[i].id \in Sessions
            /\ queue'[i].id \in ActiveSessions(snap)
<1>0. queue \in Queues
  BY TypeParts, QueueIsQueue
<1> DEFINE Comes == \/ \E j \in DOMAIN queue : SameEvent(queue'[i], queue[j])
                    \/ \E r \in net : Receive(r) /\ fresh /\ SameEvent(queue'[i], r)
                    \/ ExitTimer /\ queue'[i].type = "exit" /\ queue'[i].id = None
                    \/ /\ Start /\ queue'[i].id \in Sessions
                       /\ queue'[i].id \in ActiveSessions(snap)
<1>1. ASSUME \E j \in DOMAIN queue : queue'[i] = queue[j] PROVE Comes
  BY <1>1 DEF SameEvent
<1>2. ASSUME NEW e, QueueAdds(e) PROVE (\E j \in DOMAIN queue : queue'[i] = queue[j]) \/ queue'[i] = e
  <2>1. queue' = Append(queue, e) /\ i \in DOMAIN Append(queue, e)
    BY <1>2 DEF QueueAdds
  <2>2. i \in DOMAIN queue \/ i = Len(queue) + 1
    BY <2>1, <1>0, <1>2, Appending DEF QueueAdds
  <2> QED
    BY <2>1, <2>2, <1>0, <1>2, Appending DEF QueueAdds
<1>3. ASSUME NEW k \in DOMAIN queue, QueueDrops(k) PROVE Comes
  <2>1. queue' = RemoveAt(queue, k)
    BY <1>3 DEF QueueDrops
  <2> QED
    BY <2>1, <1>0, <1>1, Removing
<1>4. ASSUME NEW k \in DOMAIN queue, NEW b \in BOOLEAN, QueueLeases(k, b) PROVE Comes
  <2>1. queue' = [queue EXCEPT ![k].leased = b] /\ queue[k].id /= None
    BY <1>4 DEF QueueLeases
  <2>2. i \in DOMAIN queue /\ SameEvent(queue'[i], queue[i])
    BY <2>1, <1>0, Leasing
  <2> QED
    BY <2>2
<1>5. CASE queue' = <<>>
  BY <1>5
<1>6. CASE Start
  BY <1>6, Restarting
<1>7. CASE QueueKept
  BY <1>7, <1>1 DEF QueueKept
<1>8. ASSUME NEW r \in net, Receive(r), fresh,
             LET e == [id |-> r.id, type |-> r.type, v |-> r.v, leased |-> FALSE]
             IN QueueAdds(e) /\ e.id = r.id /\ e.type = r.type /\ e.v = r.v
      PROVE  Comes
  BY <1>1, <1>2, <1>8 DEF SameEvent
<1>9. ASSUME ExitTimer,
             LET e == [NoEvent EXCEPT !.type = "exit"] IN QueueAdds(e) /\ e.id = None /\ e.type = "exit"
      PROVE  Comes
  BY <1>1, <1>2, <1>9
<1> QED
  BY <1>3, <1>4, <1>5, <1>6, <1>7, <1>8, <1>9, QueueMoves

-----------------------------------------------------------------------------
(* The event stream. *)

LEMMA NoticeTyped ==
  ASSUME NEW answer \in Replies, NEW s \in Sessions
  PROVE  /\ Notice(answer, s) \in Messages /\ Notice(answer, s).type = answer
         /\ Notice(answer, s).id = s /\ answer /= "connected"
<1>1. {} \in {{}}
  OBVIOUS
<1> QED
  BY <1>1 DEF Notice, Messages, Replies

LEMMA PollPostMoves ==
  ASSUME TypeOK, NEW s \in Sessions, NEW answer \in Replies, NEW c, PollPost(s, answer, c)
  PROVE  \/ sse' = sse
         \/ /\ sse' = Append(sse, Notice(answer, s)) /\ conn
            /\ (\E i \in DOMAIN queue : queue[i].id = s) \/ snap[s] /= BaseSnapshot
BY DEF PollPost, Broadcast

(* What a step does to the stream. *)
LEMMA StreamMoves ==
  ASSUME TypeOK, AgentHasEvent, [Next]_vars
  PROVE  \/ sse' = sse
         \/ sse' = <<>> /\ (Stop \/ Drop \/ Reload)
         \/ sse' = Tail(sse) /\ sse /= <<>> /\ Message
         \/ /\ Connect /\ sse' = <<[type |-> "connected", id |-> None, active |-> Summaries(snap)]>>
         \/ /\ Reply \/ LiveComplete
            /\ agent.ev.id \in Sessions /\ agent.answer \in Replies
            /\ sse' = Append(sse, Notice(agent.answer, agent.ev.id)) /\ conn
            /\ (\E i \in DOMAIN queue : queue[i].id = agent.ev.id) \/ snap[agent.ev.id] /= BaseSnapshot
<1>1. CASE Reply \/ LiveComplete
  <2>1. agent.ev.id \in Sessions /\ agent.answer \in Replies
    BY <1>1, HandledFields DEF Reply, LiveComplete, AgentHasEvent
  <2>2. sse' = sse \/ \E c : PollPost(agent.ev.id, agent.answer, c)
    BY <1>1 DEF Reply, LiveComplete
  <2> QED
    BY <2>1, <2>2, <1>1, PollPostMoves
<1>2. CASE Message
  BY <1>2 DEF Message
<1>3. CASE Connect
  BY <1>3 DEF Connect
<1>4. CASE Stop \/ Drop \/ Reload
  BY <1>4 DEF Stop, Drop, Reload
<1>5. CASE PageStep
  BY <1>2, <1>5, PageFrame
<1>6. CASE HelperStep
  BY <1>3, <1>6 DEF HelperStep, Receive, Unreachable, ExitTimer, Start, LeaseEnds, serverVars
<1>7. CASE AgentStep \/ Kill \/ UNCHANGED vars
  BY <1>1, <1>7 DEF AgentStep, Deliver, Generate, Apply, ReplyFails, Kill, serverVars, vars
<1> QED
  BY <1>1, <1>2, <1>3, <1>4, <1>5, <1>6, <1>7 DEF Next, FaultStep

LEMMA StreamFields ==
  ASSUME StreamTyped
  PROVE  /\ Len(sse) \in Nat /\ DOMAIN sse = 1..Len(sse)
         /\ \A i \in DOMAIN sse : /\ sse[i] \in Messages
                                  /\ sse[i].type /= "connected" => sse[i].id \in Sessions
BY LenProperties, ElementOfSeq DEF StreamTyped, Messages

LEMMA StreamAppend ==
  ASSUME StreamTyped, NEW m \in Messages, sse' = Append(sse, m)
  PROVE  /\ StreamTyped' /\ DOMAIN sse' = 1..(Len(sse) + 1) /\ Len(sse) + 1 \in DOMAIN sse'
         /\ \A i \in DOMAIN sse' : i \in DOMAIN sse \/ i = Len(sse) + 1
         /\ \A i \in DOMAIN sse : i \in DOMAIN sse' /\ sse'[i] = sse[i]
         /\ sse'[Len(sse) + 1] = m
<1>1. sse \in Seq(Messages) /\ Len(sse) \in Nat /\ DOMAIN sse = 1..Len(sse)
  BY StreamFields DEF StreamTyped
<1>2. /\ sse' \in Seq(Messages) /\ Len(sse') = Len(sse) + 1
      /\ \A i \in 1..Len(sse) : sse'[i] = sse[i]
      /\ sse'[Len(sse) + 1] = m
  BY <1>1, AppendProperties
<1>3. DOMAIN sse' = 1..(Len(sse) + 1)
  BY <1>2, LenProperties
<1> QED
  BY <1>1, <1>2, <1>3 DEF StreamTyped

LEMMA StreamTail ==
  ASSUME StreamTyped, sse /= <<>>, sse' = Tail(sse)
  PROVE  /\ StreamTyped' /\ 1 \in DOMAIN sse /\ Head(sse) = sse[1]
         /\ \A i \in DOMAIN sse' : i + 1 \in DOMAIN sse /\ sse'[i] = sse[i + 1]
<1>1. sse \in Seq(Messages) /\ Len(sse) \in Nat \ {0} /\ DOMAIN sse = 1..Len(sse)
  BY StreamFields, EmptySeq DEF StreamTyped
<1>2. /\ sse' \in Seq(Messages) /\ Len(sse') = Len(sse) - 1
      /\ \A i \in 1..Len(sse') : sse'[i] = sse[i + 1]
  BY <1>1, HeadTailProperties
<1>3. DOMAIN sse' = 1..Len(sse')
  BY <1>2, LenProperties
<1> QED
  BY <1>1, <1>2, <1>3 DEF StreamTyped

(* Where the messages on the stream come from. *)
LEMMA MessageComesFrom ==
  ASSUME TypeOK, AgentHasEvent, [Next]_vars
  PROVE  /\ StreamTyped'
         /\ \A i \in DOMAIN sse' :
              \/ \E j \in DOMAIN sse : sse'[i] = sse[j]
              \/ Connect /\ sse'[i].type = "connected"
              \/ /\ Reply \/ LiveComplete
                 /\ sse'[i] = Notice(agent.answer, agent.ev.id)
                 /\ agent.ev.id \in Sessions /\ agent.answer \in Replies
                 /\ (\E k \in DOMAIN queue : queue[k].id = agent.ev.id) \/ snap[agent.ev.id] /= BaseSnapshot
<1>0. StreamTyped /\ snap \in [Sessions -> Journals]
  BY TypeParts DEF JournalTyped, Journals
<1>1. CASE sse' = sse
  BY <1>0, <1>1 DEF StreamTyped
<1>2. CASE sse' = <<>>
  BY <1>2, EmptySeq DEF StreamTyped
<1>3. CASE sse' = Tail(sse) /\ sse /= <<>>
  BY <1>0, <1>3, StreamTail
<1>4. CASE Connect /\ sse' = <<[type |-> "connected", id |-> None, active |-> Summaries(snap)]>>
  <2> DEFINE m == [type |-> "connected", id |-> None, active |-> Summaries(snap)]
  <2>1. Summaries(snap) \in SUBSET [id : Sessions, phase : Phases]
    BY <1>0 DEF Summaries, ActiveSessions, Journals
  <2>2. m \in [type : {"connected"}, id : {None}, active : SUBSET [id : Sessions, phase : Phases]] /\ m.type = "connected"
    BY <2>1
  <2>3. m \in Messages
    BY <2>2 DEF Messages
  <2> HIDE DEF m
  <2>4. sse' = <<m>>
    BY <1>4 DEF m
  <2>5. sse' \in Seq(Messages) /\ DOMAIN sse' = {1} /\ sse'[1] = m
    BY <2>3, <2>4
  <2> QED
    BY <2>2, <2>5, <1>4 DEF StreamTyped
<1>5. CASE /\ Reply \/ LiveComplete
           /\ agent.ev.id \in Sessions /\ agent.answer \in Replies
           /\ sse' = Append(sse, Notice(agent.answer, agent.ev.id))
           /\ (\E i \in DOMAIN queue : queue[i].id = agent.ev.id) \/ snap[agent.ev.id] /= BaseSnapshot
  <2>1. Notice(agent.answer, agent.ev.id) \in Messages
    BY <1>5, NoticeTyped
  <2> QED
    BY <2>1, <1>0, <1>5, StreamAppend
<1> QED
  BY <1>1, <1>2, <1>3, <1>4, <1>5, StreamMoves

-----------------------------------------------------------------------------
(* The journal knows every session the helper works for. *)

LEMMA ReceiveJournals ==
  ASSUME TypeOK, NEW r \in net, Receive(r), fresh
  PROVE  /\ r.id \in Sessions /\ snap'[r.id].phase /= "new"
         /\ snap'[r.id].pending = [type |-> r.type, v |-> r.v]
<1>1. /\ r \in [type : Asks, id : Sessions, v : 0..N] /\ snap \in [Sessions -> Journals]
      /\ snap' = [snap EXCEPT ![r.id] = ApplyEvent(@, r)]
  BY TypeParts DEF WireTyped, JournalTyped, Journals, Receive
<1> QED
  BY <1>1, AskApplied

LEMMA ExitKeepsCause ==
  ASSUME TypeOK, ExitHasCause, AgentHasEvent, [Next]_vars
  PROVE  ExitHasCause'
<1>0. queue \in Queues
  BY TypeParts, QueueIsQueue
<1>1. (conn => ~exitDue)'
  BY PageFrame, AgentFrame DEF ExitHasCause, Next, HelperStep, Receive, Unreachable, Connect, ExitTimer,
    Start, LeaseEnds, FaultStep, Stop, Drop, Reload, Kill, serverVars, vars
<1>2. ASSUME (conn \/ exitDue)', NEW i \in DOMAIN queue' PROVE queue'[i].type /= "exit"
  <2>1. (conn' = conn /\ exitDue' = exitDue) \/ (Connect \/ ExitTimer \/ Stop \/ Drop \/ Reload)
    BY PageFrame, AgentFrame DEF Next, HelperStep, Receive, Unreachable, Start, LeaseEnds, FaultStep, Kill,
      serverVars, vars
  <2>2. ASSUME \A j \in DOMAIN queue : queue[j].type /= "exit", ~ExitTimer, ~Start
        PROVE  queue'[i].type /= "exit"
    <3>1. \/ \E j \in DOMAIN queue : SameEvent(queue'[i], queue[j])
          \/ \E r \in net : SameEvent(queue'[i], r)
      BY <2>2, EntryComesFrom
    <3> QED
      BY <3>1, <2>2, TypeParts DEF WireTyped, SameEvent, Asks
  <2>3. CASE Start
    <3>1. queue'[i].id \in Sessions /\ queue' \in Queues
      BY <2>3, Restarting
    <3>2. queue'[i] \in Entries
      BY <3>1, QueueFields
    <3> QED
      BY <3>1, <3>2, EntryFields, Constants
  <2>4. CASE Connect
    <3>1. \/ \E k \in DOMAIN queue : queue[k].type = "exit" /\ queue' = RemoveAt(queue, k)
          \/ (\A k \in DOMAIN queue : queue[k].type /= "exit") /\ queue' = queue
      BY <2>4 DEF Connect, CancelExit
    <3>2. ASSUME NEW k \in DOMAIN queue, queue[k].type = "exit", queue' = RemoveAt(queue, k)
          PROVE  queue'[i].type /= "exit"
      <4>1. PICK j \in DOMAIN queue : j /= k /\ queue'[i] = queue[j]
        BY <3>2, <1>0, Removing
      <4>2. queue[j] \in Entries /\ queue[k] \in Entries
        BY <1>0, QueueFields
      <4> QED
        BY <3>2, <4>1, <4>2, <1>0, QueueFields, EntryFields
    <3> QED
      BY <3>1, <3>2
  <2>5. CASE ExitTimer
    BY <2>5, <1>2 DEF ExitTimer, ExitHasCause
  <2>6. CASE Stop
    BY <2>6, <1>2 DEF Stop
  <2>7. CASE Drop \/ Reload
    <3>1. conn \/ exitDue
      BY <2>7, <1>2 DEF Drop, Reload
    <3>2. queue' = queue
      BY <2>7 DEF Drop, Reload
    <3> QED
      BY <3>1, <3>2 DEF ExitHasCause
  <2>8. CASE conn' = conn /\ exitDue' = exitDue /\ ~ExitTimer /\ ~Start
    BY <2>2, <2>8, <1>2 DEF ExitHasCause
  <2> QED
    BY <2>1, <2>3, <2>4, <2>5, <2>6, <2>7, <2>8
<1> QED
  BY <1>1, <1>2 DEF ExitHasCause

LEMMA JournalKeepsKnowing ==
  ASSUME TypeOK, ExitHasCause, AgentHasEvent, JournalKnows, [Next]_vars
  PROVE  JournalKnows'
<1>0. snap \in [Sessions -> Journals] /\ StreamTyped /\ queue \in Queues
  BY TypeParts, QueueIsQueue DEF JournalTyped, Journals
<1>1. ASSUME NEW s \in Sessions, snap[s].phase /= "new" PROVE snap'[s].phase /= "new"
  BY <1>1, JournalMoves
<1>2. ASSUME NEW s \in Sessions, snap'[s].phase = "new" \/ Terminal(snap'[s])
      PROVE  snap'[s].pending = Idle
  <2>1. snap'[s] = snap[s] \/ snap'[s].pending = Idle
    BY <1>2, JournalMoves
  <2>2. CASE snap'[s] = snap[s]
    BY <2>2, <1>2 DEF JournalKnows
  <2> QED
    BY <2>1, <2>2
<1>3. ASSUME NEW i \in DOMAIN queue', queue'[i].id /= None PROVE snap'[queue'[i].id].phase /= "new"
  <2>1. CASE \E j \in DOMAIN queue : SameEvent(queue'[i], queue[j])
    <3>1. PICK j \in DOMAIN queue : SameEvent(queue'[i], queue[j])
      BY <2>1
    <3>2. queue[j].id = queue'[i].id /\ queue[j] \in Entries
      BY <3>1, <1>0, QueueFields DEF SameEvent
    <3>3. queue[j].id \in Sessions /\ snap[queue[j].id].phase /= "new"
      BY <3>2, <1>3, EntryFields DEF JournalKnows, Ids
    <3> QED
      BY <3>2, <3>3, <1>1
  <2>2. CASE \E r \in net : Receive(r) /\ fresh /\ SameEvent(queue'[i], r)
    BY <2>2, ReceiveJournals DEF SameEvent
  <2>3. CASE ExitTimer /\ queue'[i].type = "exit" /\ queue'[i].id = None
    BY <2>3, <1>3
  <2>4. CASE queue'[i].id \in Sessions /\ queue'[i].id \in ActiveSessions(snap)
    BY <2>4, <1>1 DEF ActiveSessions
  <2> QED
    BY <2>1, <2>2, <2>3, <2>4, EntryComesFrom
<1>4. ASSUME NEW i \in DOMAIN sse', sse'[i].type /= "connected" PROVE snap'[sse'[i].id].phase /= "new"
  <2>1. CASE \E j \in DOMAIN sse : sse'[i] = sse[j]
    BY <2>1, <1>0, <1>1, <1>4, StreamFields DEF JournalKnows
  <2>2. CASE /\ sse'[i] = Notice(agent.answer, agent.ev.id)
             /\ agent.ev.id \in Sessions /\ agent.answer \in Replies
             /\ (\E k \in DOMAIN queue : queue[k].id = agent.ev.id) \/ snap[agent.ev.id] /= BaseSnapshot
    <3>1. sse'[i].id = agent.ev.id
      BY <2>2, NoticeTyped
    <3>2. snap[agent.ev.id].phase /= "new"
      <4>1. CASE \E k \in DOMAIN queue : queue[k].id = agent.ev.id
        BY <4>1, <2>2, Constants DEF JournalKnows
      <4>2. CASE snap[agent.ev.id] /= BaseSnapshot
        <5>1. snap[agent.ev.id] \in Journals
          BY <2>2, <1>0
        <5>2. snap[agent.ev.id] /= [phase |-> "new", pending |-> Idle]
          BY <4>2 DEF BaseSnapshot
        <5> QED
          BY <5>1, <5>2, <2>2 DEF JournalKnows, Journals
      <4> QED
        BY <4>1, <4>2, <2>2
    <3> QED
      BY <3>1, <3>2, <2>2, <1>1
  <2> QED
    BY <2>1, <2>2, <1>4, MessageComesFrom
<1> QED
  BY <1>2, <1>3, <1>4 DEF JournalKnows

-----------------------------------------------------------------------------
(* What the journal holds as pending is queued. *)

LEMMA PostClears ==
  ASSUME TypeOK, NEW s \in Sessions, NEW answer, NEW c \in BOOLEAN, PollPost(s, answer, c),
         \E i \in DOMAIN queue : queue[i].id = s
  PROVE  snap'[s].pending = Idle
<1> DEFINE e == [type |-> ReplyType(answer), carbonize |-> c]
<1>1. snap' = [snap EXCEPT ![s] = ApplyEvent(@, e)]
  BY DEF PollPost
<1>2. e.type = ReplyType(answer) /\ e.carbonize = c
  OBVIOUS
<1> HIDE DEF e
<1>3. snap \in [Sessions -> Journals]
  BY TypeParts DEF JournalTyped, Journals
<1> QED
  BY <1>1, <1>2, <1>3, AnswerApplied

LEMMA EntryStays ==
  ASSUME TypeOK, ExitHasCause, AgentHasEvent, [Next]_vars, NEW j \in DOMAIN queue
  PROVE  \/ \E i \in DOMAIN queue' : SameEvent(queue'[i], queue[j])
         \/ queue[j].id = None
         \/ (Reply \/ (LiveComplete /\ up)) /\ queue[j].id = agent.ev.id
         \/ Stop \/ Start
<1>0. queue \in Queues
  BY TypeParts, QueueIsQueue
<1> DEFINE Stays == \E i \in DOMAIN queue' : SameEvent(queue'[i], queue[j])
<1>1. ASSUME \E i \in DOMAIN queue' : queue'[i] = queue[j] PROVE Stays
  BY <1>1 DEF SameEvent
<1>2. ASSUME NEW e, QueueAdds(e) PROVE Stays
  BY <1>0, <1>1, <1>2, Appending DEF QueueAdds
<1>3. ASSUME NEW k \in DOMAIN queue, QueueDrops(k), k /= j PROVE Stays
  BY <1>0, <1>1, <1>3, Removing DEF QueueDrops
<1>4. ASSUME NEW k \in DOMAIN queue, NEW b \in BOOLEAN, QueueLeases(k, b) PROVE Stays
  <2>1. queue' = [queue EXCEPT ![k].leased = b] /\ queue[k].id /= None
    BY <1>4 DEF QueueLeases
  <2>2. j \in DOMAIN queue' /\ SameEvent(queue'[j], queue[j])
    BY <2>1, <1>0, Leasing
  <2> QED
    BY <2>2
<1>5. QueueKept => Stays
  BY <1>1 DEF QueueKept
<1>6. ASSUME NEW k \in DOMAIN queue, QueueDrops(k), queue[k].id = None PROVE Stays \/ queue[j].id = None
  BY <1>3, <1>6
<1>7. ASSUME NEW k \in DOMAIN queue, QueueDrops(k), queue[k].id = agent.ev.id
      PROVE  Stays \/ queue[j].id = agent.ev.id
  BY <1>3, <1>7
<1> QED
  BY <1>2, <1>4, <1>5, <1>6, <1>7, QueueMoves

LEMMA PendingStaysQueued ==
  ASSUME TypeOK, ExitHasCause, AgentHasEvent, JournalKnows, JournalPendingIsQueued, [Next]_vars
  PROVE  JournalPendingIsQueued'
<1>0. snap \in [Sessions -> Journals] /\ snap' \in [Sessions -> Journals] /\ queue \in Queues
  BY JournalMoves, TypeParts, QueueIsQueue DEF JournalTyped, Journals
<1> SUFFICES ASSUME up', NEW s \in Sessions, snap'[s].pending /= Idle, s \in ActiveSessions(snap')
             PROVE  \E i \in DOMAIN queue' : queue'[i].id = s /\ queue'[i].type = snap'[s].pending.type
  BY <1>0 DEF JournalPendingIsQueued, ActiveSessions
<1>1. ASSUME NEW r \in net, Receive(r), fresh, r.id = s
      PROVE  \E i \in DOMAIN queue' : queue'[i].id = s /\ queue'[i].type = snap'[s].pending.type
  <2>1. snap'[s].pending.type = r.type
    <3>1. snap'[r.id].pending = [type |-> r.type, v |-> r.v]
      BY <1>1, ReceiveJournals
    <3> QED
      BY <3>1, <1>1
  <2>2. ASSUME \E i \in DOMAIN queue : queue[i].id = r.id /\ queue[i].type = r.type, queue' = queue
        PROVE  \E i \in DOMAIN queue' : queue'[i].id = s /\ queue'[i].type = r.type
    BY <2>2, <1>1
  <2>3. ASSUME NEW e, QueueAdds(e), e.id = r.id, e.type = r.type
        PROVE  \E i \in DOMAIN queue' : queue'[i].id = s /\ queue'[i].type = r.type
    BY <2>3, <1>0, <1>1, Appending DEF QueueAdds
  <2> QED
    BY <2>1, <2>2, <2>3, <1>1, ReceiveMoves
<1>2. CASE Start
  <2>1. snap' = snap
    BY <1>2 DEF Start
  <2> QED
    BY <2>1, <1>2, Restarting
<1>3. CASE snap'[s].pending = snap[s].pending /\ ~Start
  <2>1. up
    BY <1>3, PageFrame, AgentFrame DEF Next, HelperStep, Receive, Unreachable, Connect, ExitTimer, LeaseEnds,
      FaultStep, Stop, Drop, Reload, Kill, serverVars, vars
  <2>2. s \in ActiveSessions(snap)
    BY <1>0, <1>3 DEF JournalKnows, ActiveSessions
  <2>3. PICK j \in DOMAIN queue : queue[j].id = s /\ queue[j].type = snap[s].pending.type
    BY <2>1, <2>2, <1>3 DEF JournalPendingIsQueued
  <2>4. ASSUME Reply \/ LiveComplete, agent.ev.id = s PROVE FALSE
    <3>1. PollPost(s, agent.answer, agent.carbonize) \/ PollPost(s, agent.answer, FALSE)
      BY <2>1, <2>4 DEF Reply, LiveComplete
    <3>2. agent.carbonize \in BOOLEAN
      BY TypeParts DEF AgentTyped
    <3> QED
      BY <3>1, <3>2, <2>3, PostClears
  <2>5. ~Stop
    BY DEF Stop
  <2>6. queue[j].id /= None
    BY <2>3, Constants
  <2>7. \E i \in DOMAIN queue' : SameEvent(queue'[i], queue[j])
    BY <2>3, <2>4, <2>5, <2>6, <1>3, EntryStays
  <2> QED
    BY <2>3, <2>7, <1>3 DEF SameEvent
<1> QED
  BY <1>1, <1>2, <1>3, JournalMoves

(* A page shows a session's variants only when its source had them. *)
ViewIsOfTheSource == \A s \in Sessions : dom[s] = "full" => src[s] \in {"full", "kept", "restored"}

LEMMA ViewStaysOfTheSource ==
  ASSUME TypeOK, AgentHasEvent, ViewIsOfTheSource, [Next]_vars
  PROVE  ViewIsOfTheSource'
BY SourceMoves, ViewMoves DEF ViewIsOfTheSource

-----------------------------------------------------------------------------
(* What holds whatever goes wrong. *)
Sound ==
  /\ TypeOK /\ AgentHasEvent /\ ExitHasCause /\ JournalKnows
  /\ JournalPendingIsQueued /\ ViewIsOfTheSource

LEMMA InitSound == Init => Sound
<1> SUFFICES ASSUME Init PROVE Sound
  OBVIOUS
<1>1. AgentHasEvent
  BY DEF Init, AgentHasEvent, Resting
<1>2. ExitHasCause
  BY DEF Init, ExitHasCause
<1>3. JournalKnows /\ JournalPendingIsQueued
  BY DEF Init, JournalKnows, JournalPendingIsQueued, BaseSnapshot, ActiveSessions
<1>4. ViewIsOfTheSource
  BY DEF Init, ViewIsOfTheSource
<1> QED
  BY <1>1, <1>2, <1>3, <1>4, InitTyped DEF Sound

LEMMA StepsSound ==
  ASSUME Sound, [Next]_vars
  PROVE  Sound'
<1>1. TypeOK'
  <2>1. TypeOK' <=> /\ PageTyped' /\ WireTyped' /\ FlagsTyped' /\ QueueTyped' /\ JournalTyped'
                    /\ StreamTyped' /\ AgentTyped' /\ WorldTyped'
    BY DEF TypeOK, PageTyped, WireTyped, FlagsTyped, QueueTyped, JournalTyped, StreamTyped, AgentTyped,
      WorldTyped
  <2>2. JournalTyped'
    BY JournalMoves DEF Sound, JournalTyped, Journals
  <2> QED
    BY <2>1, <2>2, PageKeepsTypes, WireKeepsTypes, FlagsKeepTypes, QueueKeepsTypes, MessageComesFrom,
      AgentKeepsTypes, WorldKeepsTypes DEF Sound
<1> QED
  BY <1>1, AgentKeepsTypes, ExitKeepsCause, JournalKeepsKnowing, PendingStaysQueued, ViewStaysOfTheSource
    DEF Sound

(* Every variable has its type, and the queue one entry of an id and type. *)
THEOREM LiveTypes == Spec => []TypeOK
<1>1. Sound /\ [Next]_vars => Sound'
  BY StepsSound
<1>2. Sound => TypeOK
  BY DEF Sound
<1> QED
  BY InitSound, <1>1, <1>2, PTL DEF Spec

(* While the helper runs, what a session's journal holds as pending is in  *)
(* the queue, whatever stopped, broke or was interrupted before.           *)
THEOREM PendingQueued == Spec => []JournalPendingIsQueued
<1>1. Sound /\ [Next]_vars => Sound'
  BY StepsSound
<1>2. Sound => JournalPendingIsQueued
  BY DEF Sound
<1> QED
  BY InitSound, <1>1, <1>2, PTL DEF Spec

(* A source once decided is not decided again, however often an accept or  *)
(* a discard is delivered.                                                 *)
THEOREM DecisionsStand == Spec => DecidedOnce
<1>1. Sound /\ [Next]_vars => Sound'
  BY StepsSound
<1>2. Sound /\ [Next]_vars => [StaysDecided]_vars
  BY SourceMoves DEF Sound, StaysDecided
<1> QED
  BY InitSound, <1>1, <1>2, PTL DEF Spec, DecidedOnce

-----------------------------------------------------------------------------
(* What holds as long as nothing goes wrong: the parts, each about the     *)
(* page, the helper, the agent and the source at once.                     *)

Decided(s) == src[s] \in {"kept", "restored"}
Busy == agent.at \in {"work", "reply"}

(* The carriers of an accept, and the notice that it failed. *)
Sent(s, v)     == Request("accept", s, v) \in net
Queued(s, v)   == \E i \in DOMAIN queue : queue[i].type = "accept" /\ queue[i].id = s /\ queue[i].v = v
Underway(s, v) == Sent(s, v) \/ Queued(s, v)
Failed(s)      == \E i \in DOMAIN sse : sse[i].type = "error" /\ sse[i].id = s

Connected ==
  /\ up /\ fresh /\ conn /\ count.stops = 0 /\ agent.stops = 0
  /\ \A i \in DOMAIN sse : sse[i].type /= "connected"
  /\ \A a \in answers : a.type = "discard" /\ a.ok

(* The agent works on the head of the queue, the one entry that is leased. *)
HeadIsWorkedOn ==
  /\ agent.at /= "off"
  /\ Busy => queue /= <<>> /\ SameEvent(queue[1], agent.ev)
  /\ \A i \in DOMAIN queue : queue[i].leased => i = 1 /\ Busy

(* What the agent is about to answer is what it did to the source. *)
AnswerIsOfTheSource ==
  /\ agent.at = "reply" /\ agent.answer = "error" =>
       \/ agent.ev.type = "generate" /\ src[agent.ev.id] = "restored"
       \/ agent.ev.type = "accept" /\ src[agent.ev.id] = "full"
  /\ agent.at = "cleanup" => agent.answer = "complete"
  /\ \/ agent.at = "cleanup"
     \/ agent.at = "reply" /\ (agent.answer = "complete" \/ agent.carbonize)
     => src[agent.ev.id] = "kept"

(* So is what is on its way to the page; a session that is not decided has *)
(* failed once at most.                                                    *)
NoticesAreOfTheSource ==
  /\ \A i \in DOMAIN sse : sse[i].type = "complete" => src[sse[i].id] = "kept"
  /\ \A i \in DOMAIN sse : sse[i].type = "error" => src[sse[i].id] /= "kept"
  /\ \A i, j \in DOMAIN sse :
       (/\ sse[i].type = "error" /\ sse[j].type = "error"
        /\ sse[i].id = sse[j].id /\ ~Decided(sse[i].id)) => i = j

(* An undecided session has one accept under way at most, and none while   *)
(* its failure is on its way.                                              *)
OneAccept ==
  \A s \in Sessions : ~Decided(s) =>
    \A v, w \in 0..N : /\ ~(Sent(s, v) /\ Queued(s, w))
                       /\ Sent(s, v) /\ Sent(s, w) => v = w
                       /\ ~(Underway(s, v) /\ Failed(s))

(* A bar that shows the session awaits that accept, for the variant it is  *)
(* about; and the scout has nothing to resume there.                       *)
AcceptIsAwaited ==
  \A s \in Sessions : ~Decided(s) =>
    /\ \A v \in 0..N : Underway(s, v) =>
         /\ tab.cur = s => tab.accept.id = s
         /\ tab.accept.id = s => tab.accept.v = v
         /\ observing.scout => dom[s] = "full"
    /\ Failed(s) =>
         /\ tab.cur = s => tab.accept.id = s
         /\ observing.scout => dom[s] = "full"

(* Still so when the source is written. *)
KeptIsAwaited ==
  \A s \in Sessions : src[s] = "kept" =>
    /\ tab.cur = s => tab.accept.id = s
    /\ tab.accept.id = s => tab.accept.v = landed[s]

(* A confirmed accept is in the source; variants a bar offers before the   *)
(* scout has run are on the page; what is fetched is the bar's session.    *)
BarIsOfTheSource ==
  /\ tab.st = "CONFIRMED" /\ tab.accept.id /= None => src[tab.accept.id] = "kept"
  /\ tab.cur /= None /\ tab.arrived = N /\ observing.scout => dom[tab.cur] = "full" \/ Decided(tab.cur)
  /\ fetching.sent => tab.cur \in {fetching.id, None}
  /\ fetching.sent => fetching.id /= None

Quiet ==
  /\ Connected /\ HeadIsWorkedOn /\ AnswerIsOfTheSource /\ NoticesAreOfTheSource
  /\ OneAccept /\ AcceptIsAwaited /\ KeptIsAwaited /\ BarIsOfTheSource

(* A step that is no fault, from a state where nothing went wrong. *)
QuietStep ==
  /\ Sound /\ Sound' /\ Quiet /\ NoFault /\ NoFault' /\ [Next]_vars /\ SlowFetch = FALSE

LEMMA InitQuiet == Init => Quiet
<1> SUFFICES ASSUME Init PROVE Quiet
  OBVIOUS
<1>1. Connected /\ HeadIsWorkedOn /\ AnswerIsOfTheSource
  BY DEF Init, Resting, Connected, HeadIsWorkedOn, Busy, AnswerIsOfTheSource
<1>2. NoticesAreOfTheSource
  BY DEF Init, NoticesAreOfTheSource
<1>3. \A s \in Sessions : ~Failed(s) /\ \A v \in 0..N : ~Sent(s, v) /\ ~Queued(s, v)
  BY DEF Init, Failed, Sent, Queued
<1>4. OneAccept /\ AcceptIsAwaited
  BY <1>3 DEF OneAccept, AcceptIsAwaited, Underway
<1>5. KeptIsAwaited /\ BarIsOfTheSource
  BY DEF Init, KeptIsAwaited, BarIsOfTheSource, NoFetch
<1> QED
  BY <1>1, <1>2, <1>4, <1>5 DEF Quiet

(* The parts of the state under a quiet step. *)
LEMMA QuietTypes ==
  ASSUME QuietStep
  PROVE  /\ TypeOK /\ AgentHasEvent /\ ExitHasCause /\ JournalKnows /\ ViewIsOfTheSource /\ [Next]_vars
         /\ tab \in Tabs /\ tab.cur \in Ids /\ tab.accept.id \in Ids /\ tab.shown \in 0..N
         /\ disk.saved.id \in Ids /\ disk.handled \in Ids
         /\ observing \in [variants : Ids, scout : BOOLEAN]
         /\ fetching \in [id : Ids, sent : BOOLEAN]
         /\ net \subseteq [type : Asks, id : Sessions, v : 0..N]
         /\ queue \in Queues /\ StreamTyped
         /\ snap \in [Sessions -> Journals]
         /\ src \in [Sessions -> Views] /\ dom \in [Sessions -> Views] /\ landed \in [Sessions -> 0..N]
         /\ agent.at \in {"idle", "off", "work", "reply", "cleanup"}
BY TypeParts, TabFields, QueueIsQueue DEF QuietStep, Sound, PageTyped, Tabs, WireTyped, JournalTyped, Journals,
  WorldTyped, AgentTyped

(* No request fails, no stream breaks, no lease runs out. *)
LEMMA QuietSteps ==
  ASSUME QuietStep
  PROVE  \/ PageStep
         \/ \E r \in net : Receive(r) /\ fresh
         \/ Deliver \/ Generate \/ Apply \/ Reply \/ LiveComplete
         \/ UNCHANGED vars
<1>1. ~FaultStep
  <2>1. count.faults = 0 /\ count'.faults = 0
    BY DEF QuietStep, NoFault
  <2> QED
    BY <2>1, QuietTypes, CountMoves
<1>2. up /\ fresh /\ conn /\ ~exitDue
  BY QuietTypes DEF QuietStep, Quiet, Connected, ExitHasCause
<1>3. ~LeaseEnds
  BY DEF LeaseEnds, QuietStep, Quiet, HeadIsWorkedOn, Busy
<1>4. ~ReplyFails
  BY <1>2 DEF ReplyFails, Reachable, QuietStep, Quiet, Connected
<1>5. ~Connect /\ ~ExitTimer /\ ~Start /\ \A r \in net : ~Unreachable(r)
  BY <1>2 DEF Connect, ExitTimer, Start, Unreachable
<1> QED
  BY <1>1, <1>2, <1>3, <1>4, <1>5 DEF QuietStep, Next, HelperStep, AgentStep

-----------------------------------------------------------------------------
(* What a step of the page does to the bar, from a quiet state. *)

(* The bar keeps its session and the accept it awaits. *)
Still ==
  /\ tab'.cur = tab.cur /\ tab'.accept = tab.accept /\ tab'.arrived = tab.arrived
  /\ tab'.st = tab.st \/ tab'.st /= "CONFIRMED"
  /\ observing'.scout = observing.scout /\ dom' = dom
  /\ \/ fetching' = fetching
     \/ ~fetching'.sent
     \/ fetching'.sent /\ fetching'.id = tab.cur /\ fetching'.id /= None

(* The bar lets go of its session. *)
Leaves ==
  /\ tab'.cur = None /\ tab'.accept \in {tab.accept, NoAccept} /\ tab'.st /= "CONFIRMED"
  /\ observing'.scout = observing.scout
  /\ fetching' = fetching \/ ~fetching'.sent
  /\ dom' = dom \/ \E x \in Sessions : dom' = [dom EXCEPT ![x] = src[x]]

(* The bar takes up session x. *)
TakesUp(x) ==
  /\ Go(x) /\ ~fetching.sent
  /\ tab'.cur = x /\ tab'.accept = NoAccept /\ tab'.arrived = 0 /\ tab'.st = "GENERATING"
  /\ observing'.scout = observing.scout /\ fetching' = fetching /\ dom' = dom

(* A hot update shows session x, and the scout resumes it. *)
Resumes(x) ==
  /\ dom[x] /= src[x] /\ dom' = [dom EXCEPT ![x] = src[x]]
  /\ observing.scout /\ ~observing'.scout /\ Wrapped(src[x]) /\ fetching' = fetching
  /\ fetching.sent => fetching.id = x
  /\ tab'.accept = tab.accept
  /\ \/ tab' = tab
     \/ tab'.cur = x /\ tab'.st /= "CONFIRMED"

(* A hot update shows session x, and the variant observer may see it. *)
Shows(x) ==
  /\ dom' = [dom EXCEPT ![x] = src[x]]
  /\ ~(observing.scout /\ Wrapped(src[x])) /\ observing'.scout = observing.scout /\ fetching' = fetching
  /\ tab'.cur = tab.cur /\ tab'.accept = tab.accept
  /\ \/ tab' = tab
     \/ tab'.st /= "CONFIRMED" /\ Wrapped(src[x])

Accepts ==
  /\ Accept /\ tab.accept = NoAccept /\ tab.cur \in Sessions /\ tab.arrived = N
  /\ tab'.cur = tab.cur /\ tab'.accept = [id |-> tab.cur, v |-> tab.shown] /\ tab'.arrived = tab.arrived
  /\ tab'.st /= "CONFIRMED" /\ observing'.scout = observing.scout /\ fetching' = fetching /\ dom' = dom
  /\ net' = net \union {Request("accept", tab.cur, tab.shown)}

(* The head of the stream says that the awaited accept is in the source.  *)
Confirms ==
  /\ 1 \in DOMAIN sse /\ sse[1].type = "complete" /\ sse[1].id = tab.accept.id
  /\ tab'.cur = tab.cur /\ tab'.accept = tab.accept /\ tab'.arrived = tab.arrived
  /\ observing'.scout = observing.scout /\ fetching' = fetching /\ dom' = dom

(* The head of the stream is about an accept the bar no longer shows, or   *)
(* says that the awaited accept failed.                                    *)
GivesUp ==
  /\ 1 \in DOMAIN sse /\ sse[1].id = tab.accept.id
  /\ \/ sse[1].type = "complete" /\ tab.cur /= sse[1].id
     \/ sse[1].type = "error" /\ tab'.st /= "CONFIRMED" /\ Message
  /\ tab'.cur = tab.cur /\ tab'.accept = NoAccept /\ tab'.arrived = tab.arrived
  /\ observing'.scout = observing.scout /\ fetching' = fetching /\ dom' = dom

(* The fetch of the bar's session brings its variants. *)
Lands ==
  /\ fetching.sent /\ ~fetching'.sent /\ fetching.id \in Sessions /\ src[fetching.id] = "full"
  /\ tab'.cur = tab.cur /\ tab'.accept = tab.accept /\ tab'.st /= "CONFIRMED"
  /\ observing'.scout = observing.scout
  /\ dom' = [dom EXCEPT ![fetching.id] = "full"]

LEMMA CleanedLeaves ==
  ASSUME QuietStep, NEW marks, Cleaned(marks)
  PROVE  /\ tab'.cur = None /\ tab'.accept = tab.accept /\ tab'.st /= "CONFIRMED"
         /\ observing'.scout = observing.scout
<1>1. tab \in Tabs /\ observing \in [variants : Ids, scout : BOOLEAN]
  BY QuietTypes
<1> QED
  BY <1>1 DEF Cleaned, Tabs

LEMMA MessageMoves ==
  ASSUME QuietStep, Message
  PROVE  Still \/ Leaves \/ Confirms \/ GivesUp
<1>1. tab \in Tabs /\ StreamTyped /\ sse /= <<>> /\ dom' = dom
  BY QuietTypes DEF Message, worldVars
<1>2. 1 \in DOMAIN sse /\ Head(sse) = sse[1] /\ sse[1] \in Messages
  BY <1>1, StreamTail, StreamFields DEF Message
<1> DEFINE msg == Head(sse)
<1>3. msg.type \in {"done", "complete", "discarded", "error", "agent_done"}
  BY <1>2 DEF QuietStep, Quiet, Connected, Messages, Replies
<1>4. CASE msg.type = "done"
  <2>1. OnDone(msg)
    BY <1>4 DEF Message
  <2>2. /\ tab'.cur = tab.cur /\ tab'.accept = tab.accept /\ tab'.arrived = tab.arrived
        /\ tab'.st = tab.st \/ tab'.st /= "CONFIRMED"
    BY <2>1, <1>1 DEF OnDone, Tabs
  <2>3. fetching' = fetching \/ fetching' = [id |-> msg.id, sent |-> FALSE]
    BY <2>1 DEF OnDone
  <2>4. fetching' = fetching \/ ~fetching'.sent
    BY <2>3
  <2>5. observing' = observing
    BY <2>1 DEF OnDone
  <2> QED
    BY <2>2, <2>4, <2>5, <1>1 DEF Still
<1>5. CASE msg.type = "complete"
  <2>1. OnComplete(msg)
    BY <1>5 DEF Message
  <2>2. observing' = observing /\ fetching' = fetching
    BY <2>1 DEF OnComplete
  <2>3. CASE tab.accept.id /= msg.id \/ tab.st = "CONFIRMED"
    <3>1. tab' = tab
      BY <2>1, <2>3 DEF OnComplete
    <3> QED
      BY <3>1, <2>2, <1>1 DEF Still
  <2>4. CASE ~(tab.accept.id /= msg.id \/ tab.st = "CONFIRMED") /\ tab.cur \notin {None, msg.id}
    <3>1. tab' = [tab EXCEPT !.accept = NoAccept]
      BY <2>1, <2>4 DEF OnComplete
    <3>2. tab'.cur = tab.cur /\ tab'.accept = NoAccept /\ tab'.arrived = tab.arrived
      BY <3>1, <1>1 DEF Tabs
    <3> QED
      BY <3>2, <2>2, <2>4, <1>1, <1>2, <1>5 DEF GivesUp
  <2>5. CASE ~(tab.accept.id /= msg.id \/ tab.st = "CONFIRMED") /\ tab.cur \in {None, msg.id}
    <3>1. tab' = [tab EXCEPT !.st = "CONFIRMED"]
      BY <2>1, <2>5 DEF OnComplete
    <3>2. tab'.cur = tab.cur /\ tab'.accept = tab.accept /\ tab'.arrived = tab.arrived
      BY <3>1, <1>1 DEF Tabs
    <3> QED
      BY <3>2, <2>2, <2>5, <1>1, <1>2, <1>5 DEF Confirms
  <2> QED
    BY <2>3, <2>4, <2>5
<1>6. CASE msg.type = "discarded"
  <2>1. OnDiscarded(msg)
    BY <1>6 DEF Message
  <2>2. CASE msg.id = tab.cur
    <3>1. Cleaned(TRUE) /\ fetching' = fetching
      BY <2>1, <2>2 DEF OnDiscarded
    <3> QED
      BY <3>1, <1>1, CleanedLeaves DEF Leaves
  <2>3. CASE msg.id /= tab.cur
    <3>1. tab' = tab /\ observing' = observing /\ fetching' = fetching
      BY <2>1, <2>3 DEF OnDiscarded
    <3> QED
      BY <3>1, <1>1 DEF Still
  <2> QED
    BY <2>2, <2>3
<1>7. CASE msg.type = "error"
  <2>1. OnError(msg)
    BY <1>7 DEF Message
  <2>2. observing' = observing /\ fetching' = fetching
    BY <2>1 DEF OnError
  <2>3. CASE tab.accept.id = msg.id
    <3>1. tab' = [tab EXCEPT !.st = "CYCLING", !.accept = NoAccept]
      BY <2>1, <2>3 DEF OnError
    <3>2. tab'.cur = tab.cur /\ tab'.accept = NoAccept /\ tab'.arrived = tab.arrived /\ tab'.st /= "CONFIRMED"
      BY <3>1, <1>1 DEF Tabs
    <3> QED
      BY <3>2, <2>2, <2>3, <1>1, <1>2, <1>7 DEF GivesUp
  <2>4. CASE tab.accept.id /= msg.id
    <3>1. tab' = [tab EXCEPT !.st = "PICKING"]
      BY <2>1, <2>4 DEF OnError
    <3>2. tab'.cur = tab.cur /\ tab'.accept = tab.accept /\ tab'.arrived = tab.arrived /\ tab'.st /= "CONFIRMED"
      BY <3>1, <1>1 DEF Tabs
    <3> QED
      BY <3>2, <2>2, <1>1 DEF Still
  <2> QED
    BY <2>3, <2>4
<1>8. CASE msg.type = "agent_done"
  <2>1. tab' = tab /\ observing' = observing /\ fetching' = fetching
    BY <1>8 DEF Message, pageVars
  <2> QED
    BY <2>1, <1>1 DEF Still
<1> QED
  BY <1>3, <1>4, <1>5, <1>6, <1>7, <1>8

LEMMA HotMoves ==
  ASSUME QuietStep, NEW x \in Sessions, HotUpdate(x)
  PROVE  Resumes(x) \/ Shows(x)
<1>1. /\ PageTyped /\ src[x] \in Views /\ dom[x] /= src[x] /\ dom' = [dom EXCEPT ![x] = src[x]]
      /\ fetching' = fetching /\ tab \in Tabs
  BY QuietTypes, TypeParts DEF HotUpdate
<1>2. CASE observing.scout /\ Wrapped(src[x])
  <2>1. Resume(x, src[x])
    BY <1>2 DEF HotUpdate
  <2>2. /\ observing'.scout = FALSE
        /\ \/ tab' = tab
           \/ tab'.cur = x /\ tab'.accept = tab.accept /\ tab'.st \in {"CYCLING", "GENERATING"}
    BY <2>1, <1>1, ResumeTyped
  <2>3. fetching.sent => fetching.id = x
    BY <1>2 DEF HotUpdate, Pressable, QuietStep
  <2> QED
    BY <2>2, <2>3, <1>1, <1>2 DEF Resumes
<1>3. CASE ~(observing.scout /\ Wrapped(src[x]))
  <2>1. Observe(x, src[x])
    BY <1>3 DEF HotUpdate
  <2>2. /\ observing' = observing
        /\ \/ tab' = tab
           \/ /\ src[x] = "full"
              /\ \E w \in 0..N : tab' = [tab EXCEPT !.st = "CYCLING", !.arrived = N, !.shown = w]
    BY <2>1, <1>1, ObserveTyped
  <2>3. CASE tab' = tab
    BY <2>2, <2>3, <1>1, <1>3 DEF Shows
  <2>4. CASE /\ src[x] = "full"
             /\ \E w \in 0..N : tab' = [tab EXCEPT !.st = "CYCLING", !.arrived = N, !.shown = w]
    <3>1. tab'.cur = tab.cur /\ tab'.accept = tab.accept /\ tab'.st /= "CONFIRMED"
      BY <2>4, <1>1 DEF Tabs
    <3> QED
      BY <3>1, <2>2, <2>4, <1>1, <1>3 DEF Shows, Wrapped
  <2> QED
    BY <2>2, <2>3, <2>4
<1> QED
  BY <1>2, <1>3

LEMMA FetchMoves ==
  ASSUME QuietStep, FetchLands
  PROVE  Still \/ Leaves \/ Lands
<1>1. /\ tab \in Tabs /\ fetching.id \in Sessions /\ fetching.sent /\ fetching' = NoFetch /\ up /\ fresh
      /\ src \in [Sessions -> Views]
  BY QuietTypes DEF FetchLands, QuietStep, Quiet, Connected, Ids
<1>2. ~fetching'.sent
  BY <1>1 DEF NoFetch
<1> DEFINE s == fetching.id
<1>3. CASE src[s] = "full"
  <2>1. \E w : Show([tab EXCEPT !.st = "CYCLING", !.arrived = N, !.shown = w])
    BY <1>1, <1>3 DEF FetchLands
  <2>2. tab'.cur = tab.cur /\ tab'.accept = tab.accept /\ tab'.st /= "CONFIRMED"
    BY <2>1, <1>1 DEF Show, Tabs
  <2>3. observing' = observing /\ dom' = [dom EXCEPT ![s] = "full"]
    BY <1>1, <1>3 DEF FetchLands, Wrapped
  <2> QED
    BY <2>2, <2>3, <1>1, <1>2, <1>3 DEF Lands
<1>4. CASE src[s] = "wrap"
  <2>1. Cleaned(FALSE) /\ dom' = [dom EXCEPT ![s] = src[s]]
    BY <1>1, <1>4 DEF FetchLands, Wrapped
  <2> QED
    BY <2>1, <1>1, <1>2, CleanedLeaves DEF Leaves
<1>5. CASE src[s] \notin {"full", "wrap"}
  <2>1. tab' = tab /\ observing' = observing /\ dom' = dom
    BY <1>5 DEF FetchLands, Wrapped
  <2> QED
    BY <2>1, <1>1, <1>2 DEF Still
<1> QED
  BY <1>3, <1>4, <1>5

LEMMA PageMoves ==
  ASSUME QuietStep, PageStep
  PROVE  Still \/ Leaves \/ Accepts \/ Confirms \/ GivesUp \/ Lands
         \/ \E x \in Sessions : TakesUp(x) \/ Resumes(x) \/ Shows(x)
<1>0. /\ tab \in Tabs /\ tab.cur \in Ids /\ observing \in [variants : Ids, scout : BOOLEAN]
      /\ fetching \in [id : Ids, sent : BOOLEAN] /\ SlowFetch = FALSE
  BY QuietTypes DEF QuietStep
<1>1. ASSUME NEW x \in Sessions, Go(x) PROVE TakesUp(x)
  <2>1. /\ tab' = [st |-> "GENERATING", cur |-> x, arrived |-> 0, shown |-> 0, accept |-> NoAccept]
        /\ observing' = [observing EXCEPT !.variants = x] /\ fetching' = fetching /\ dom' = dom
    BY <1>1 DEF Go, Show, worldVars
  <2>2. ~fetching.sent
    BY <1>0, <1>1 DEF Go, Pressable
  <2> QED
    BY <2>1, <2>2, <1>0, <1>1 DEF TakesUp
<1>2. ASSUME NEW v \in 1..N, Cycle(v) PROVE Still
  <2>1. tab' = [tab EXCEPT !.shown = v] /\ observing' = observing /\ fetching' = fetching /\ dom' = dom
    BY <1>2 DEF Cycle, Show, worldVars
  <2> QED
    BY <2>1, <1>0 DEF Still, Tabs
<1>3. CASE Accept
  <2>1. /\ tab' = [tab EXCEPT !.st = "SAVING", !.accept = [id |-> tab.cur, v |-> tab.shown]]
        /\ net' = net \union {Request("accept", tab.cur, tab.shown)}
        /\ observing' = observing /\ fetching' = fetching /\ dom' = dom
        /\ tab.accept = NoAccept /\ tab.cur /= None /\ tab.arrived > 0
    BY <1>3 DEF Accept, Show, worldVars
  <2>2. tab.cur \in Sessions /\ tab.arrived = N
    BY <2>1, <1>0, TabFields, Constants DEF Ids
  <2>3. /\ tab'.cur = tab.cur /\ tab'.accept = [id |-> tab.cur, v |-> tab.shown] /\ tab'.arrived = tab.arrived
        /\ tab'.st /= "CONFIRMED"
    BY <2>1, <1>0 DEF Tabs
  <2> QED
    BY <2>1, <2>2, <2>3, <1>3 DEF Accepts
<1>4. CASE Discard \/ Checkpoint
  BY <1>4 DEF Discard, Checkpoint, Still, pageVars, worldVars
<1>5. ASSUME NEW a \in answers, Answered(a) PROVE Leaves
  <2>1. a.type = "discard" /\ a.ok
    BY DEF QuietStep, Quiet, Connected
  <2>2. Cleaned(TRUE) /\ fetching' = fetching /\ dom' = dom
    BY <2>1, <1>5 DEF Answered, worldVars
  <2> QED
    BY <2>2, CleanedLeaves DEF Leaves
<1>6. CASE Confirmed
  <2>1. /\ tab' = [tab EXCEPT !.st = "PICKING", !.cur = None, !.accept = NoAccept]
        /\ observing' = [observing EXCEPT !.variants = None] /\ fetching' = fetching /\ dom' = dom
    BY <1>6 DEF Confirmed, worldVars
  <2> QED
    BY <2>1, <1>0 DEF Leaves, Tabs
<1>7. CASE FetchStarts
  <2>1. tab' = tab /\ observing' = observing /\ dom' = dom
    BY <1>7 DEF FetchStarts, worldVars
  <2>2. CASE tab.arrived < N /\ tab.st = "GENERATING" /\ tab.cur = fetching.id
    <3>1. fetching' = [fetching EXCEPT !.sent = TRUE] /\ fetching.id /= None
      BY <2>2, <1>7 DEF FetchStarts
    <3>2. fetching'.sent /\ fetching'.id = tab.cur /\ fetching'.id /= None
      BY <3>1, <2>2, <1>0
    <3> QED
      BY <3>2, <2>1 DEF Still
  <2>3. CASE ~(tab.arrived < N /\ tab.st = "GENERATING" /\ tab.cur = fetching.id)
    BY <2>1, <2>3, <1>7 DEF FetchStarts, Still, NoFetch
  <2> QED
    BY <2>2, <2>3
<1> QED
  BY <1>1, <1>2, <1>3, <1>4, <1>5, <1>6, <1>7, MessageMoves, HotMoves, FetchMoves DEF PageStep

-----------------------------------------------------------------------------
(* How an accept travels, from a quiet state. *)

LEMMA SentMoves ==
  ASSUME QuietStep, NEW s \in Sessions, NEW v \in 0..N, Sent(s, v)'
  PROVE  Sent(s, v) \/ (Accepts /\ s = tab.cur /\ v = tab.shown)
<1>1. CASE PageStep
  <2>1. CASE Accept
    <3>1. net' = net \union {Request("accept", tab.cur, tab.shown)}
      BY <2>1 DEF Accept
    <3>2. Request("accept", s, v) = Request("accept", tab.cur, tab.shown) => s = tab.cur /\ v = tab.shown
      BY DEF Request
    <3>3. Accepts
      BY <2>1, QuietTypes, TabFields, Constants DEF Accept, Accepts, Show, Tabs, worldVars, Ids
    <3> QED
      BY <3>1, <3>2, <3>3 DEF Sent
  <2>2. ASSUME NEW type \in {"generate", "discard"}, NEW id, net' = net \union {Request(type, id, 0)}
        PROVE  Sent(s, v)
    BY <2>2 DEF Sent, Request
  <2>4. Discard => net' = net \union {Request("discard", tab.cur, 0)}
    BY DEF Discard
  <2>5. ASSUME NEW x \in Sessions, Go(x) PROVE net' = net \union {Request("generate", x, 0)}
    BY <2>5 DEF Go
  <2>3. CASE net' = net
    BY <2>3 DEF Sent
  <2> QED
    BY <1>1, <2>1, <2>2, <2>3, <2>4, <2>5, PageFrame
<1>2. CASE net' \subseteq net
  BY <1>2 DEF Sent
<1>3. net' \subseteq net \/ PageStep
  BY QuietSteps, AgentFrame DEF Receive, AgentStep, vars
<1> QED
  BY <1>1, <1>2, <1>3

LEMMA QueuedMoves ==
  ASSUME QuietStep, NEW s \in Sessions, NEW v \in 0..N, Queued(s, v)'
  PROVE  Queued(s, v) \/ (Sent(s, v) /\ ~Sent(s, v)' /\ net' \subseteq net)
<1>1. PICK i \in DOMAIN queue' : queue'[i].type = "accept" /\ queue'[i].id = s /\ queue'[i].v = v
  BY DEF Queued
<1>2. CASE \E j \in DOMAIN queue : SameEvent(queue'[i], queue[j])
  BY <1>1, <1>2 DEF Queued, SameEvent
<1>3. ASSUME NEW r \in net, Receive(r), SameEvent(queue'[i], r)
      PROVE  Sent(s, v) /\ ~Sent(s, v)' /\ net' \subseteq net
  <2>1. r \in [type : Asks, id : Sessions, v : 0..N]
    BY QuietTypes
  <2>2. r = Request("accept", s, v)
    BY <2>1, <1>1, <1>3 DEF SameEvent, Request
  <2>3. net' = net \ {r}
    BY <1>3 DEF Receive
  <2> QED
    BY <2>2, <2>3 DEF Sent
<1>4. ~Start /\ s /= None
  BY Constants DEF Start, QuietStep, Quiet, Connected
<1> QED
  BY <1>1, <1>2, <1>3, <1>4, QuietTypes, EntryComesFrom

LEMMA FailedMoves ==
  ASSUME QuietStep, NEW s \in Sessions, Failed(s)'
  PROVE  Failed(s) \/ (Reply /\ agent.answer = "error" /\ agent.ev.id = s)
<1>1. PICK i \in DOMAIN sse' : sse'[i].type = "error" /\ sse'[i].id = s
  BY DEF Failed
<1>2. CASE \E j \in DOMAIN sse : sse'[i] = sse[j]
  BY <1>1, <1>2 DEF Failed
<1>3. CASE /\ Reply \/ LiveComplete
           /\ sse'[i] = Notice(agent.answer, agent.ev.id)
           /\ agent.ev.id \in Sessions /\ agent.answer \in Replies
  <2>1. agent.answer = "error" /\ agent.ev.id = s
    BY <1>1, <1>3, NoticeTyped
  <2>2. ~LiveComplete
    BY <2>1 DEF LiveComplete, QuietStep, Quiet, AnswerIsOfTheSource
  <2> QED
    BY <2>1, <2>2, <1>3
<1> QED
  BY <1>1, <1>2, <1>3, QuietTypes, MessageComesFrom

(* The event the agent works on is queued. *)
LEMMA AgentsEventQueued ==
  ASSUME QuietStep, Busy
  PROVE  /\ agent.ev.id \in Sessions /\ agent.ev.v \in 0..N /\ 1 \in DOMAIN queue /\ SameEvent(queue[1], agent.ev)
         /\ agent.ev.type = "accept" => Queued(agent.ev.id, agent.ev.v)
<1>1. queue /= <<>> /\ SameEvent(queue[1], agent.ev)
  BY DEF QuietStep, Quiet, HeadIsWorkedOn
<1>2. 1 \in DOMAIN queue
  BY <1>1, QuietTypes, QueueFields, EmptySeq
<1>3. agent.ev \in Handled
  BY QuietTypes DEF AgentHasEvent, Busy
<1> QED
  BY <1>1, <1>2, <1>3, HandledFields DEF Queued, SameEvent

(* A reply takes the agent's event off the queue. *)
LEMMA ReplyDrops ==
  ASSUME QuietStep, Reply
  PROVE  /\ Busy /\ queue' = RemoveAt(queue, 1)
         /\ \A j \in DOMAIN queue' : \E k \in DOMAIN queue : k /= 1 /\ queue'[j] = queue[k]
<1>1. Busy /\ queue \in Queues /\ 1 \in DOMAIN queue /\ queue[1].id = agent.ev.id /\ Ack(agent.ev.id)
  BY QuietTypes, AgentsEventQueued DEF Reply, Busy, SameEvent, PollPost
<1>2. PICK i \in DOMAIN queue : /\ queue' = RemoveAt(queue, i)
                                /\ \A j \in 1..(i - 1) : queue[j].id /= agent.ev.id
  BY <1>1 DEF Ack
<1>3. i = 1
  <2>1. i \in 1..Len(queue) /\ Len(queue) \in Nat
    BY <1>1, QueueFields
  <2>2. i > 1 => 1 \in 1..(i - 1)
    BY <2>1
  <2> QED
    BY <2>1, <2>2, <1>1, <1>2
<1> QED
  BY <1>1, <1>2, <1>3, Removing

(* The decisions stand, and only live-accept decides. *)
LEMMA DecidedMoves ==
  ASSUME QuietStep, NEW s \in Sessions
  PROVE  /\ Decided(s) => Decided(s)' /\ src'[s] = src[s] /\ landed'[s] = landed[s]
         /\ src'[s] = "kept" => \/ src[s] = "kept"
                                \/ /\ Apply /\ agent.ev.id = s /\ agent.ev.type = "accept" /\ agent.at = "work"
                                   /\ src[s] = "full" /\ landed'[s] = agent.ev.v
<1>1. Decided(s) => src'[s] = src[s] /\ landed'[s] = landed[s]
  BY QuietTypes, SourceMoves DEF Decided
<1>2. ASSUME src'[s] = "kept", src[s] /= "kept"
      PROVE  /\ Apply /\ agent.ev.id = s /\ agent.ev.type = "accept" /\ agent.at = "work"
             /\ src[s] = "full" /\ landed'[s] = agent.ev.v
  <2>1. Generate \/ Apply
    BY <1>2, QuietTypes, SourceMoves
  <2>2. ~Generate
    BY <1>2, QuietTypes, GenerateFacts
  <2>3. Apply
    BY <2>1, <2>2
  <2> QED
    BY <2>3, <1>2, QuietTypes, ApplyFacts
<1> QED
  BY <1>1, <1>2 DEF Decided

-----------------------------------------------------------------------------
(* A quiet step keeps each part. *)

LEMMA AgentMoves ==
  ASSUME QuietStep
  PROVE  /\ Generate \/ Apply => /\ agent.at = "work" /\ agent'.at \in {"work", "reply"}
                                 /\ agent'.ev = agent.ev /\ agent'.stops = agent.stops
         /\ Reply => agent'.at \in {"idle", "cleanup"} /\ agent'.stops \in {0, agent.stops}
         /\ LiveComplete => agent'.at = "idle" /\ agent'.stops = 0
<1>0. agent \in [at : {"idle", "off", "work", "reply", "cleanup"}, ev : Handled \union {NoEvent},
                 answer : Replies \union {"none"}, carbonize : BOOLEAN, stops : Nat]
  BY QuietTypes, TypeParts DEF AgentTyped
<1>1. ASSUME NEW a, NEW c, Replying(a, c)
      PROVE  agent'.at = "reply" /\ agent'.ev = agent.ev /\ agent'.stops = agent.stops
  BY <1>0, <1>1 DEF Replying
<1>2. ASSUME Generate \/ Apply
      PROVE  agent.at = "work" /\ (agent' = agent \/ \E a, c : Replying(a, c))
  <2>1. CASE Generate
    BY <2>1 DEF Generate
  <2>2. CASE Apply
    <3>1. PICK result \in Results \union {"missing"} :
            Replying(Outcome(agent.ev.type, result), result = "carbonize")
      BY <2>2 DEF Apply
    <3> DEFINE a == Outcome(agent.ev.type, result)
               c == (result = "carbonize")
    <3>2. Replying(a, c)
      BY <3>1
    <3> HIDE DEF a, c
    <3> QED
      BY <3>2, <2>2 DEF Apply
  <2> QED
    BY <2>1, <2>2, <1>2
<1>3. Resting.at = "idle" /\ Resting.stops = 0
  BY DEF Resting
<1>4. CASE agent' = [agent EXCEPT !.at = "cleanup", !.answer = "complete"]
  <2>1. agent'.at = "cleanup" /\ agent'.stops = agent.stops
    BY <1>0, <1>4
  <2> QED
    BY <2>1, <1>1, <1>2, <1>3 DEF LiveComplete
<1>5. CASE agent' /= [agent EXCEPT !.at = "cleanup", !.answer = "complete"]
  BY <1>1, <1>2, <1>3, <1>5 DEF LiveComplete, Reply
<1> QED
  BY <1>4, <1>5

LEMMA ConnectedKept ==
  ASSUME QuietStep
  PROVE  Connected'
<1>0. /\ up /\ fresh /\ conn /\ count.stops = 0 /\ agent.stops = 0
      /\ \A i \in DOMAIN sse : sse[i].type /= "connected"
      /\ \A a \in answers : a.type = "discard" /\ a.ok
  BY DEF QuietStep, Quiet, Connected
<1>1. up' /\ fresh' /\ conn'
  BY <1>0, QuietSteps, PageFrame, AgentFrame DEF Receive, AgentStep, vars
<1>2. count'.stops = 0
  BY <1>0, <1>1, QuietTypes, CountMoves DEF Stop
<1>3. agent'.stops = 0
  <2>1. CASE Deliver
    <3>1. \/ agent' = [Resting EXCEPT !.at = "off"]
          \/ \E e : agent' = [Resting EXCEPT !.at = "work", !.ev = e, !.stops = count.stops]
      BY <2>1 DEF Deliver
    <3> QED
      BY <3>1, <1>0 DEF Resting
  <2>2. CASE Generate \/ Apply \/ Reply \/ LiveComplete
    BY <2>2, <1>0, AgentMoves
  <2>3. CASE agent' = agent
    BY <2>3, <1>0
  <2> QED
    BY <2>1, <2>2, <2>3, QuietSteps, PageFrame DEF Receive, vars
<1>4. ASSUME NEW i \in DOMAIN sse' PROVE sse'[i].type /= "connected"
  <2>1. ~Connect
    BY <1>0 DEF Connect
  <2> QED
    BY <2>1, <1>0, QuietTypes, MessageComesFrom, NoticeTyped
<1>5. ASSUME NEW a \in answers' PROVE a.type = "discard" /\ a.ok
  <2>1. answers' \subseteq answers \/ \E r \in net : answers' = Answering(r, TRUE)
    BY <1>0, QuietSteps, PageFrame, AgentFrame DEF Receive, AgentStep, vars
  <2> QED
    BY <2>1, <1>0 DEF Answering
<1> QED
  BY <1>1, <1>2, <1>3, <1>4, <1>5 DEF Connected

LEMMA HeadKept ==
  ASSUME QuietStep
  PROVE  HeadIsWorkedOn'
<1>0. /\ queue \in Queues /\ agent.at /= "off" /\ agent.at \in {"idle", "work", "reply", "cleanup"}
      /\ \A i \in DOMAIN queue : queue[i].leased => i = 1 /\ Busy
      /\ \A i \in DOMAIN queue : queue[i].type /= "exit"
      /\ \A i \in DOMAIN queue : queue[i].id /= None
  <2>1. \A i \in DOMAIN queue : queue[i].type /= "exit"
    BY QuietTypes DEF QuietStep, Quiet, Connected, ExitHasCause
  <2> QED
    BY <2>1, QuietTypes, QueueFields, EntryFields DEF QuietStep, Quiet, HeadIsWorkedOn
<1>1. ASSUME agent' = agent, queue' = queue PROVE HeadIsWorkedOn'
  BY <1>1 DEF QuietStep, Quiet, HeadIsWorkedOn, Busy
<1>2. ASSUME NEW r \in net, Receive(r), fresh PROVE HeadIsWorkedOn'
  <2>1. agent' = agent
    BY <1>2 DEF Receive
  <2>2. ASSUME NEW e, QueueAdds(e), e.leased = FALSE PROVE HeadIsWorkedOn'
    <3>1. /\ \A i \in DOMAIN queue : i \in DOMAIN queue' /\ queue'[i] = queue[i]
          /\ \A i \in DOMAIN queue' : i \in DOMAIN queue \/ queue'[i] = e
          /\ queue' \in Queues
      BY <2>2, <1>0, Appending DEF QueueAdds
    <3>2. \A i \in DOMAIN queue' : queue'[i].leased => i = 1 /\ Busy'
      BY <3>1, <2>1, <2>2, <1>0 DEF Busy
    <3>3. Busy' => queue' /= <<>> /\ SameEvent(queue'[1], agent'.ev)
      <4>1. Busy' => Busy
        BY <2>1 DEF Busy
      <4>2. Busy => 1 \in DOMAIN queue /\ SameEvent(queue[1], agent.ev)
        BY AgentsEventQueued
      <4> QED
        BY <4>1, <4>2, <3>1, <2>1
    <3> QED
      BY <3>2, <3>3, <2>1, <1>0 DEF HeadIsWorkedOn
  <2> QED
    BY <2>1, <2>2, <1>1, <1>2, QuietTypes, ReceiveMoves
<1>3. CASE Deliver
  <2>1. PICK i \in DOMAIN queue :
          /\ ~queue[i].leased
          /\ \A j \in 1..(i - 1) : queue[j].leased
          /\ queue' = [queue EXCEPT ![i].leased = TRUE]
          /\ agent' = [Resting EXCEPT !.at = "work", !.ev = queue[i], !.stops = count.stops]
    BY <1>0, <1>3 DEF Deliver
  <2>2. ~Busy
    BY <1>3 DEF Deliver, Busy
  <2>3. i = 1
    <3>1. i \in 1..Len(queue) /\ Len(queue) \in Nat /\ DOMAIN queue = 1..Len(queue)
      BY <1>0, QueueFields
    <3>2. i > 1 => 1 \in 1..(i - 1) /\ 1 \in DOMAIN queue
      BY <3>1
    <3> QED
      BY <3>1, <3>2, <2>1, <2>2, <1>0
  <2>4. /\ queue' \in Queues /\ DOMAIN queue' = DOMAIN queue
        /\ \A j \in DOMAIN queue : SameEvent(queue'[j], queue[j])
                                   /\ queue'[j].leased = IF j = i THEN TRUE ELSE queue[j].leased
    BY <2>1, <1>0, Leasing
  <2>5. agent'.at = "work" /\ agent'.ev = queue[i]
    BY <2>1 DEF Resting
  <2>6. queue' /= <<>>
    BY <2>4
  <2> QED
    BY <2>2, <2>3, <2>4, <2>5, <2>6, <1>0 DEF HeadIsWorkedOn, Busy
<1>4. CASE Generate \/ Apply
  <2>1. queue' = queue
    BY <1>4 DEF Generate, Apply, serverVars
  <2>2. Busy /\ Busy' /\ agent'.ev = agent.ev /\ agent'.at /= "off"
    BY <1>4, AgentMoves DEF Busy
  <2> QED
    BY <2>1, <2>2, <1>0 DEF QuietStep, Quiet, HeadIsWorkedOn
<1>5. ASSUME agent'.at \in {"idle", "cleanup"}, \A i \in DOMAIN queue' : ~queue'[i].leased
      PROVE  HeadIsWorkedOn'
  BY <1>5 DEF HeadIsWorkedOn, Busy
<1>6. CASE Reply
  <2>1. agent'.at \in {"idle", "cleanup"}
    BY <1>6, AgentMoves
  <2> QED
    BY <2>1, <1>0, <1>5, <1>6, ReplyDrops
<1>7. CASE LiveComplete
  <2>1. agent'.at = "idle" /\ ~Busy /\ up
    BY <1>7, AgentMoves DEF LiveComplete, Busy, QuietStep, Quiet, Connected
  <2>2. Ack(agent.ev.id)
    BY <2>1, <1>7 DEF LiveComplete, PollPost
  <2>3. queue' = queue \/ \E i \in DOMAIN queue : queue' = RemoveAt(queue, i)
    BY <2>2 DEF Ack
  <2>4. \A j \in DOMAIN queue' : ~queue'[j].leased
    <3>1. \A k \in DOMAIN queue : ~queue[k].leased
      BY <2>1, <1>0
    <3>2. ASSUME NEW i \in DOMAIN queue, queue' = RemoveAt(queue, i)
          PROVE  \A j \in DOMAIN queue' : \E k \in DOMAIN queue : queue'[j] = queue[k]
      BY <3>2, <1>0, Removing
    <3> QED
      BY <2>3, <3>1, <3>2
  <2> QED
    BY <2>1, <2>4, <1>5
<1> QED
  BY <1>1, <1>2, <1>3, <1>4, <1>6, <1>7, QuietSteps, PageFrame DEF vars

LEMMA AnswerKept ==
  ASSUME QuietStep
  PROVE  AnswerIsOfTheSource'
<1>0. /\ agent \in [at : {"idle", "off", "work", "reply", "cleanup"}, ev : Handled \union {NoEvent},
                    answer : Replies \union {"none"}, carbonize : BOOLEAN, stops : Nat]
      /\ src \in [Sessions -> Views]
  BY QuietTypes, TypeParts DEF AgentTyped
<1>1. ASSUME agent' = agent, src' = src PROVE AnswerIsOfTheSource'
  BY <1>1 DEF QuietStep, Quiet, AnswerIsOfTheSource
<1>2. ASSUME agent'.at \notin {"reply", "cleanup"} PROVE AnswerIsOfTheSource'
  BY <1>2 DEF AnswerIsOfTheSource
<1>3. CASE Deliver
  <2>1. \/ agent' = [Resting EXCEPT !.at = "off"]
        \/ \E e, n : agent' = [Resting EXCEPT !.at = "work", !.ev = e, !.stops = n]
    BY <1>3 DEF Deliver
  <2> QED
    BY <2>1, <1>2 DEF Resting
<1>4. CASE Generate
  <2>1. CASE agent' = agent
    BY <2>1, <1>2, <1>4 DEF Generate
  <2>2. CASE agent' = [agent EXCEPT !.at = "reply", !.answer = "done", !.carbonize = FALSE]
    BY <2>2, <1>0 DEF AnswerIsOfTheSource
  <2>3. CASE /\ src' = [src EXCEPT ![agent.ev.id] = "restored"]
             /\ agent' = [agent EXCEPT !.at = "reply", !.answer = "error", !.carbonize = FALSE]
    BY <2>3, <1>0, <1>4, QuietTypes, GenerateFacts DEF AnswerIsOfTheSource
  <2> QED
    BY <2>1, <2>2, <2>3, <1>4, QuietTypes, GenerateFacts
<1>5. CASE Apply
  <2> DEFINE s == agent.ev.id
  <2>0. ~(count' = [count EXCEPT !.faults = @ + 1])
    BY TypeParts DEF QuietStep, Sound, NoFault, WorldTyped
  <2>1. CASE /\ src' = [src EXCEPT ![s] = "kept"]
             /\ agent' = [agent EXCEPT !.at = "reply", !.answer = "complete", !.carbonize = FALSE]
    BY <2>1, <1>0, <1>5, QuietTypes, ApplyFacts DEF AnswerIsOfTheSource
  <2>2. CASE /\ src' = [src EXCEPT ![s] = "kept"]
             /\ agent' = [agent EXCEPT !.at = "reply", !.answer = "agent_done", !.carbonize = TRUE]
    BY <2>2, <1>0, <1>5, QuietTypes, ApplyFacts DEF AnswerIsOfTheSource
  <2>3. CASE agent' = [agent EXCEPT !.at = "reply", !.answer = "agent_done", !.carbonize = FALSE]
    BY <2>3, <1>0 DEF AnswerIsOfTheSource
  <2>4. CASE /\ src[s] = "full" /\ src' = src /\ agent.ev.type = "accept"
             /\ agent' = [agent EXCEPT !.at = "reply", !.answer = "error", !.carbonize = FALSE]
    BY <2>4, <1>0 DEF AnswerIsOfTheSource
  <2>5. CASE agent' = [agent EXCEPT !.at = "reply", !.answer = "discarded", !.carbonize = FALSE]
    BY <2>5, <1>0 DEF AnswerIsOfTheSource
  <2> QED
    BY <2>0, <2>1, <2>2, <2>3, <2>4, <2>5, <1>5, QuietTypes, ApplyFacts
<1>6. CASE Reply
  <2>1. CASE agent.carbonize
    <3>1. agent' = [agent EXCEPT !.at = "cleanup", !.answer = "complete"] /\ src' = src /\ agent.at = "reply"
      BY <2>1, <1>6 DEF Reply, worldVars
    <3>2. src[agent.ev.id] = "kept"
      BY <3>1, <2>1 DEF QuietStep, Quiet, AnswerIsOfTheSource
    <3> QED
      BY <3>1, <3>2, <1>0 DEF AnswerIsOfTheSource
  <2>2. CASE ~agent.carbonize
    BY <2>2, <1>2, <1>6 DEF Reply, Resting
  <2> QED
    BY <2>1, <2>2
<1>7. CASE LiveComplete
  BY <1>2, <1>7 DEF LiveComplete, Resting
<1> QED
  BY <1>1, <1>3, <1>4, <1>5, <1>6, <1>7, QuietSteps, PageFrame DEF Receive, worldVars, vars

(* An undecided session whose accept the agent works on has not failed. *)
LEMMA WorkedOnNotFailed ==
  ASSUME QuietStep, Busy, agent.ev.type = "accept", ~Decided(agent.ev.id)
  PROVE  ~Failed(agent.ev.id) /\ \A v \in 0..N : ~Sent(agent.ev.id, v)
<1>1. agent.ev.id \in Sessions /\ agent.ev.v \in 0..N /\ Queued(agent.ev.id, agent.ev.v)
  BY AgentsEventQueued
<1>2. OneAccept
  BY DEF QuietStep, Quiet
<1> QED
  BY <1>1, <1>2 DEF OneAccept, Underway

LEMMA NoticesKept ==
  ASSUME QuietStep
  PROVE  NoticesAreOfTheSource'
<1>0. /\ StreamTyped /\ NoticesAreOfTheSource /\ AnswerIsOfTheSource /\ OneAccept
      /\ DOMAIN sse = 1..Len(sse) /\ Len(sse) \in Nat
  BY QuietTypes, StreamFields DEF QuietStep, Quiet
<1>i. \A i \in DOMAIN sse : sse[i].type \in {"complete", "error"} => sse[i].id \in Sessions
  BY <1>0, StreamFields
<1>1. ASSUME NEW i \in DOMAIN sse, sse[i].type = "complete" PROVE src'[sse[i].id] = "kept"
  <2>1. sse[i].id \in Sessions /\ src[sse[i].id] = "kept"
    BY <1>0, <1>i, <1>1 DEF NoticesAreOfTheSource
  <2> QED
    BY <2>1, DecidedMoves DEF Decided
<1>2. ASSUME NEW i \in DOMAIN sse, sse[i].type = "error" PROVE src'[sse[i].id] /= "kept"
  <2>1. sse[i].id \in Sessions /\ src[sse[i].id] /= "kept" /\ Failed(sse[i].id)
    BY <1>0, <1>i, <1>2 DEF NoticesAreOfTheSource, Failed
  <2>2. SUFFICES ASSUME src'[sse[i].id] = "kept" PROVE FALSE
    OBVIOUS
  <2>3. agent.ev.id = sse[i].id /\ agent.ev.type = "accept" /\ agent.at = "work" /\ src[sse[i].id] = "full"
    BY <2>1, <2>2, DecidedMoves
  <2> QED
    BY <2>1, <2>3, WorkedOnNotFailed DEF Busy, Decided
<1>3. ASSUME NEW i \in DOMAIN sse, NEW j \in DOMAIN sse, sse[i].type = "error", sse[j].type = "error",
             sse[i].id = sse[j].id, src'[sse[i].id] \notin {"kept", "restored"}
      PROVE  i = j
  <2>1. ~Decided(sse[i].id)
    BY <1>3, <1>i, DecidedMoves DEF Decided
  <2> QED
    BY <2>1, <1>0, <1>3 DEF NoticesAreOfTheSource
<1>4. CASE sse' = sse
  BY <1>1, <1>2, <1>3, <1>4 DEF NoticesAreOfTheSource, Decided
<1>5. CASE sse' = Tail(sse) /\ sse /= <<>>
  <2>1. \A i \in DOMAIN sse' : i + 1 \in DOMAIN sse /\ sse'[i] = sse[i + 1] /\ i \in Nat
    <3>1. \A i \in DOMAIN sse' : i + 1 \in DOMAIN sse /\ sse'[i] = sse[i + 1]
      BY <1>0, <1>5, StreamTail
    <3>2. StreamTyped'
      BY <1>0, <1>5, StreamTail
    <3>3. \A i \in DOMAIN sse' : i \in Nat
      BY <3>2, LenProperties DEF StreamTyped
    <3> QED
      BY <3>1, <3>3
  <2>2. ASSUME NEW i \in DOMAIN sse', NEW j \in DOMAIN sse', sse'[i].type = "error", sse'[j].type = "error",
               sse'[i].id = sse'[j].id, src'[sse'[i].id] \notin {"kept", "restored"}
        PROVE  i = j
    <3>1. i + 1 = j + 1
      BY <2>1, <2>2, <1>3 DEF Decided
    <3> QED
      BY <3>1, <2>1
  <2> QED
    <3>1. \A i \in DOMAIN sse' : sse'[i].type = "complete" => src'[sse'[i].id] = "kept"
      BY <2>1, <1>1
    <3>2. \A i \in DOMAIN sse' : sse'[i].type = "error" => src'[sse'[i].id] /= "kept"
      BY <2>1, <1>2
    <3> QED
      BY <2>2, <3>1, <3>2 DEF NoticesAreOfTheSource, Decided
<1>6. CASE /\ Reply \/ LiveComplete
           /\ agent.ev.id \in Sessions /\ agent.answer \in Replies
           /\ sse' = Append(sse, Notice(agent.answer, agent.ev.id))
  <2> DEFINE m == Notice(agent.answer, agent.ev.id)
             n == Len(sse) + 1
  <2>0. m \in Messages /\ m.type = agent.answer /\ m.id = agent.ev.id
    BY <1>6, NoticeTyped
  <2> HIDE DEF m
  <2>1. /\ \A i \in DOMAIN sse' : i \in DOMAIN sse \/ i = n
        /\ \A i \in DOMAIN sse : sse'[i] = sse[i]
        /\ sse'[n] = m
    BY <2>0, <1>0, <1>6, StreamAppend DEF m
  <2>2. src' = src
    BY <1>6 DEF Reply, LiveComplete, worldVars
  <2>3. agent.answer = "complete" => src[agent.ev.id] = "kept"
    BY <1>0, <1>6 DEF Reply, LiveComplete, AnswerIsOfTheSource
  <2>4. agent.answer = "error" => src[agent.ev.id] /= "kept"
    BY <1>0, <1>6 DEF Reply, LiveComplete, AnswerIsOfTheSource
  <2>5. agent.answer = "error" /\ ~Decided(agent.ev.id) => ~Failed(agent.ev.id)
    <3>1. SUFFICES ASSUME agent.answer = "error", ~Decided(agent.ev.id) PROVE ~Failed(agent.ev.id)
      OBVIOUS
    <3>2. agent.at = "reply"
      BY <3>1, <1>0, <1>6 DEF Reply, LiveComplete, AnswerIsOfTheSource
    <3>3. agent.ev.type = "accept"
      BY <3>1, <3>2, <1>0 DEF AnswerIsOfTheSource, Decided
    <3> QED
      BY <3>1, <3>2, <3>3, WorkedOnNotFailed DEF Busy
  <2>6. ASSUME NEW i \in DOMAIN sse', sse'[i].type = "complete" PROVE src'[sse'[i].id] = "kept"
    BY <2>0, <2>1, <2>2, <2>3, <2>6, <1>1
  <2>7. ASSUME NEW i \in DOMAIN sse', sse'[i].type = "error" PROVE src'[sse'[i].id] /= "kept"
    BY <2>0, <2>1, <2>2, <2>4, <2>7, <1>2
  <2>8. ASSUME NEW i \in DOMAIN sse', NEW j \in DOMAIN sse', sse'[i].type = "error", sse'[j].type = "error",
               sse'[i].id = sse'[j].id, src'[sse'[i].id] \notin {"kept", "restored"}
        PROVE  i = j
    <3>1. ~Decided(sse'[i].id)
      BY <2>2, <2>8 DEF Decided
    <3>2. CASE i \in DOMAIN sse /\ j \in DOMAIN sse
      BY <3>2, <2>1, <2>8, <1>3 DEF Decided
    <3>3. CASE i \in DOMAIN sse /\ j = n
      <4>1. Failed(agent.ev.id) /\ agent.answer = "error" /\ ~Decided(agent.ev.id)
        BY <3>1, <3>3, <2>0, <2>1, <2>8 DEF Failed
      <4> QED
        BY <4>1, <2>5
    <3>4. CASE i = n /\ j \in DOMAIN sse
      <4>1. Failed(agent.ev.id) /\ agent.answer = "error" /\ ~Decided(agent.ev.id)
        BY <3>1, <3>4, <2>0, <2>1, <2>8 DEF Failed
      <4> QED
        BY <4>1, <2>5
    <3> QED
      BY <3>2, <3>3, <3>4, <2>1
  <2> QED
    BY <2>6, <2>7, <2>8 DEF NoticesAreOfTheSource, Decided
<1>7. sse' /= <<>> \/ NoticesAreOfTheSource'
  BY DEF NoticesAreOfTheSource
<1>8. ~Connect
  BY DEF Connect, QuietStep, Quiet, Connected
<1> QED
  BY <1>4, <1>5, <1>6, <1>7, <1>8, QuietTypes, StreamMoves

LEMMA OneAcceptKept ==
  ASSUME QuietStep
  PROVE  OneAccept'
<1>0. OneAccept /\ AcceptIsAwaited
  BY DEF QuietStep, Quiet
<1> SUFFICES ASSUME NEW s \in Sessions, ~Decided(s)', NEW v \in 0..N, NEW w \in 0..N
             PROVE  /\ ~(Sent(s, v)' /\ Queued(s, w)')
                    /\ Sent(s, v)' /\ Sent(s, w)' => v = w
                    /\ ~((Sent(s, v)' \/ Queued(s, v)') /\ Failed(s)')
  BY DEF OneAccept, Underway
<1>1. ~Decided(s)
  BY DecidedMoves
<1>2. /\ ~(Sent(s, v) /\ Queued(s, w)) /\ ~(Sent(s, w) /\ Queued(s, v))
      /\ Sent(s, v) /\ Sent(s, w) => v = w
      /\ ~((Sent(s, v) \/ Queued(s, v)) /\ Failed(s))
  BY <1>0, <1>1 DEF OneAccept, Underway
<1>3. Accepts /\ s = tab.cur => ~Failed(s) /\ \A x \in 0..N : ~Sent(s, x) /\ ~Queued(s, x)
  <2>1. Accepts /\ s = tab.cur => tab.accept.id /= s
    BY Constants DEF Accepts, NoAccept
  <2> QED
    BY <2>1, <1>0, <1>1 DEF AcceptIsAwaited, Underway
<1>4. Accepts => sse' = sse /\ queue' = queue
  BY DEF Accepts, Accept, serverVars
<1>5. Accepts => (Failed(s)' <=> Failed(s)) /\ \A x \in 0..N : Queued(s, x)' <=> Queued(s, x)
  BY <1>4 DEF Failed, Queued
<1>6. ASSUME Failed(s)', ~Failed(s) PROVE ~Sent(s, v)' /\ ~Queued(s, v)'
  <2>1. Reply /\ agent.answer = "error" /\ agent.ev.id = s /\ agent.at = "reply"
    BY <1>6, FailedMoves DEF Reply
  <2>2. agent.ev.type = "accept"
    BY <2>1, <1>1 DEF QuietStep, Quiet, AnswerIsOfTheSource, Decided
  <2>3. ~Sent(s, v)
    BY <2>1, <2>2, <1>1, WorkedOnNotFailed DEF Busy
  <2>4. net' = net
    BY <2>1 DEF Reply, wireVars
  <2>5. ~Queued(s, v)'
    <3>1. /\ queue \in Queues /\ 1 \in DOMAIN queue /\ queue[1].id = s /\ queue[1].type = "accept"
          /\ \A j \in DOMAIN queue' : \E k \in DOMAIN queue : k /= 1 /\ queue'[j] = queue[k]
      BY <2>1, <2>2, QuietTypes, ReplyDrops, AgentsEventQueued DEF SameEvent
    <3> QED
      BY <3>1, QueueFields DEF Queued
  <2> QED
    BY <2>3, <2>4, <2>5 DEF Sent
<1>7. ~(Sent(s, v)' /\ Queued(s, w)')
  <2>1. SUFFICES ASSUME Sent(s, v)', Queued(s, w)' PROVE FALSE
    OBVIOUS
  <2>2. CASE Accepts /\ s = tab.cur
    BY <2>1, <2>2, <1>3, <1>5
  <2>3. CASE ~(Accepts /\ s = tab.cur)
    <3>1. Sent(s, v)
      BY <2>1, <2>3, SentMoves
    <3>2. Sent(s, w) /\ ~Sent(s, w)'
      BY <2>1, <3>1, <1>2, QueuedMoves
    <3> QED
      BY <2>1, <3>1, <3>2, <1>2
  <2> QED
    BY <2>2, <2>3
<1>8. Sent(s, v)' /\ Sent(s, w)' => v = w
  BY <1>2, <1>3, SentMoves
<1>9. ~((Sent(s, v)' \/ Queued(s, v)') /\ Failed(s)')
  BY <1>2, <1>3, <1>5, <1>6, SentMoves, QueuedMoves
<1> QED
  BY <1>7, <1>8, <1>9

(* Off the page, nothing moves the bar. *)
LEMMA BarFrame ==
  ASSUME QuietStep, ~PageStep
  PROVE  tab' = tab /\ observing' = observing /\ fetching' = fetching /\ dom' = dom /\ ~Accepts
BY QuietSteps, AgentFrame DEF Receive, AgentStep, pageVars, worldVars, vars, Accepts, PageStep

LEMMA ScoutMoves ==
  ASSUME QuietStep, observing'.scout
  PROVE  observing.scout
BY PageMoves, BarFrame DEF Still, Leaves, Accepts, Confirms, GivesUp, Lands, TakesUp, Resumes, Shows

(* A session that is taken up has no accept under way, none that failed,   *)
(* and no decision.                                                        *)
LEMMA TakenUpIsNew ==
  ASSUME QuietStep, NEW x \in Sessions, TakesUp(x)
  PROVE  src[x] = "none" /\ ~Failed(x) /\ \A v \in 0..N : ~Underway(x, v)
<1>1. snap[x] = BaseSnapshot /\ src[x] = "none" /\ \A r \in net : r.id /= x
  BY DEF TakesUp, Go
<1>2. snap[x].phase = "new"
  BY <1>1 DEF BaseSnapshot
<1>3. ~Failed(x)
  BY <1>2, QuietTypes DEF Failed, JournalKnows
<1>4. \A v \in 0..N : ~Queued(x, v)
  BY <1>2, QuietTypes, Constants DEF Queued, JournalKnows
<1>5. \A v \in 0..N : ~Sent(x, v)
  BY <1>1 DEF Sent, Request
<1> QED
  BY <1>1, <1>3, <1>4, <1>5 DEF Underway

LEMMA AwaitedKept ==
  ASSUME QuietStep
  PROVE  AcceptIsAwaited'
<1>0. AcceptIsAwaited /\ OneAccept /\ BarIsOfTheSource /\ NoticesAreOfTheSource
  BY DEF QuietStep, Quiet
<1> SUFFICES ASSUME NEW s \in Sessions, ~Decided(s)'
             PROVE  /\ \A v \in 0..N : Underway(s, v)' =>
                         /\ tab'.cur = s => tab'.accept.id = s
                         /\ tab'.accept.id = s => tab'.accept.v = v
                         /\ observing'.scout => dom'[s] = "full"
                    /\ Failed(s)' =>
                         /\ tab'.cur = s => tab'.accept.id = s
                         /\ observing'.scout => dom'[s] = "full"
  BY DEF AcceptIsAwaited
<1> DEFINE Carried == Failed(s) \/ \E v \in 0..N : Underway(s, v)
           Carried1 == Failed(s)' \/ \E v \in 0..N : Underway(s, v)'
<1>1. ~Decided(s) /\ src[s] \in Views
  BY DecidedMoves, QuietTypes
<1>2. Carried => /\ tab.cur = s => tab.accept.id = s
                 /\ observing.scout => dom[s] = "full"
  BY <1>0, <1>1 DEF AcceptIsAwaited
<1>3. \A v \in 0..N : Underway(s, v)' => Underway(s, v) \/ (Accepts /\ s = tab.cur /\ v = tab.shown)
  BY SentMoves, QueuedMoves DEF Underway
<1>4. Failed(s)' => Carried
  <2>1. SUFFICES ASSUME Reply, agent.answer = "error", agent.ev.id = s PROVE Carried
    BY FailedMoves
  <2>2. agent.at = "reply" /\ agent.ev.type = "accept"
    BY <2>1, <1>1 DEF Reply, QuietStep, Quiet, AnswerIsOfTheSource, Decided
  <2> QED
    BY <2>1, <2>2, AgentsEventQueued DEF Busy, Underway
<1>5. CASE Accepts /\ s = tab.cur
  <2>1. tab.accept.id /= s
    BY <1>5, Constants DEF Accepts, NoAccept
  <2>2. ~Carried
    BY <2>1, <1>2, <1>5
  <2>3. ~Failed(s)' /\ \A v \in 0..N : Underway(s, v)' => v = tab.shown
    BY <2>2, <1>3, <1>4
  <2>4. tab'.accept.id = s /\ tab'.accept.v = tab.shown
    BY <1>5 DEF Accepts
  <2>5. observing'.scout => dom'[s] = "full"
    BY <1>0, <1>1, <1>5, Constants DEF Accepts, BarIsOfTheSource
  <2> QED
    BY <2>3, <2>4, <2>5
<1>6. CASE ~(Accepts /\ s = tab.cur)
  <2>1. Carried1 => Carried
    BY <1>3, <1>4, <1>6
  <2>2. Carried1 => (observing'.scout => dom'[s] = "full")
    <3>1. SUFFICES ASSUME Carried, observing'.scout PROVE dom'[s] = "full"
      BY <2>1
    <3>2. dom[s] = "full"
      BY <3>1, <1>2, ScoutMoves
    <3>3. src[s] = "full"
      BY <3>2, <1>1, QuietTypes DEF ViewIsOfTheSource, Decided
    <3> QED
      BY <3>2, <3>3, QuietTypes, ViewMoves
  <2>3. ASSUME Carried1, tab'.cur = s PROVE tab'.accept.id = s
    <3>1. Carried /\ s /= None
      BY <2>1, <2>3, Constants
    <3>2. CASE ~PageStep
      BY <3>1, <3>2, <2>3, <1>2, BarFrame
    <3>3. CASE Still \/ Confirms \/ Lands \/ \E x \in Sessions : Shows(x)
      BY <3>1, <3>3, <2>3, <1>2 DEF Still, Confirms, Lands, Shows
    <3>4. CASE Leaves
      BY <3>1, <3>4, <2>3 DEF Leaves
    <3>5. CASE Accepts
      BY <3>5, <2>3, <1>6 DEF Accepts
    <3>6. ASSUME NEW x \in Sessions, TakesUp(x) PROVE FALSE
      BY <3>1, <3>6, <2>3, TakenUpIsNew DEF TakesUp
    <3>7. ASSUME NEW x \in Sessions, Resumes(x) PROVE tab'.accept.id = s
      <4>1. CASE tab' = tab
        BY <4>1, <3>1, <2>3, <1>2
      <4>2. CASE tab'.cur = x
        <5>1. dom[s] = "full" /\ src[s] = "full"
          BY <3>1, <3>7, <1>1, <1>2, QuietTypes DEF Resumes, ViewIsOfTheSource, Decided
        <5> QED
          BY <5>1, <4>2, <3>7, <2>3 DEF Resumes
      <4> QED
        BY <4>1, <4>2, <3>7 DEF Resumes
    <3>8. CASE GivesUp
      <4>1. tab.cur = s /\ tab.accept.id = s /\ sse[1].id = s /\ 1 \in DOMAIN sse /\ sse[1].type = "error" /\ Message
        BY <3>1, <3>8, <2>3, <1>2 DEF GivesUp
      <4>2. Failed(s)
        BY <4>1 DEF Failed
      <4>3. \A v \in 0..N : ~Underway(s, v)'
        BY <4>2, <1>0, <1>1, <1>3, <1>6 DEF OneAccept
      <4>4. PICK i \in DOMAIN sse' : sse'[i].type = "error" /\ sse'[i].id = s
        BY <4>3, <2>3 DEF Failed
      <4>5. i + 1 \in DOMAIN sse /\ sse'[i] = sse[i + 1] /\ i \in 1..Len(sse')
        <5>1. StreamTyped /\ sse /= <<>> /\ sse' = Tail(sse)
          BY <4>1, QuietTypes DEF Message
        <5>2. StreamTyped'
          BY <5>1, StreamTail
        <5>3. DOMAIN sse' = 1..Len(sse')
          BY <5>2, LenProperties DEF StreamTyped
        <5> QED
          BY <5>1, <5>3, StreamTail
      <4>6. i + 1 = 1
        BY <4>1, <4>4, <4>5, <1>0, <1>1 DEF NoticesAreOfTheSource
      <4> QED
        BY <4>5, <4>6
    <3> QED
      BY <3>2, <3>3, <3>4, <3>5, <3>6, <3>7, <3>8, PageMoves
  <2>4. ASSUME NEW v \in 0..N, Underway(s, v)', tab'.accept.id = s PROVE tab'.accept.v = v
    <3>1. Underway(s, v) /\ s /= None
      BY <2>4, <1>3, <1>6, Constants
    <3>2. tab.accept.id = s => tab.accept.v = v
      BY <3>1, <1>0, <1>1 DEF AcceptIsAwaited
    <3>3. tab'.accept = tab.accept \/ tab'.accept = NoAccept \/ (tab'.accept.id = tab.cur /\ Accepts)
      BY PageMoves, BarFrame DEF Still, Leaves, Accepts, Confirms, GivesUp, Lands, TakesUp, Resumes, Shows
    <3>4. tab'.accept = tab.accept
      BY <3>1, <3>3, <2>4, <1>6 DEF NoAccept
    <3> QED
      BY <3>2, <3>4, <2>4
  <2> QED
    BY <2>2, <2>3, <2>4
<1> QED
  BY <1>5, <1>6

LEMMA KeptStaysAwaited ==
  ASSUME QuietStep
  PROVE  KeptIsAwaited'
<1>0. KeptIsAwaited /\ AcceptIsAwaited /\ NoticesAreOfTheSource
  BY DEF QuietStep, Quiet
<1> SUFFICES ASSUME NEW s \in Sessions, src'[s] = "kept"
             PROVE  /\ tab'.cur = s => tab'.accept.id = s
                    /\ tab'.accept.id = s => tab'.accept.v = landed'[s]
  BY DEF KeptIsAwaited
<1>1. CASE src[s] /= "kept"
  <2>1. /\ Apply /\ agent.ev.id = s /\ agent.ev.type = "accept" /\ agent.at = "work"
        /\ src[s] = "full" /\ landed'[s] = agent.ev.v
    BY <1>1, DecidedMoves
  <2>2. Queued(s, agent.ev.v) /\ agent.ev.v \in 0..N
    BY <2>1, AgentsEventQueued DEF Busy
  <2>3. /\ tab.cur = s => tab.accept.id = s
        /\ tab.accept.id = s => tab.accept.v = agent.ev.v
    BY <2>1, <2>2, <1>0 DEF AcceptIsAwaited, Underway, Decided
  <2>4. tab' = tab
    BY <2>1 DEF Apply, pageVars
  <2> QED
    BY <2>1, <2>3, <2>4
<1>2. CASE src[s] = "kept"
  <2>1. landed'[s] = landed[s]
    BY <1>2, DecidedMoves DEF Decided
  <2>2. /\ tab.cur = s => tab.accept.id = s
        /\ tab.accept.id = s => tab.accept.v = landed[s]
    BY <1>0, <1>2 DEF KeptIsAwaited
  <2>3. s /= None /\ ~Wrapped(src[s])
    BY <1>2, Constants DEF Wrapped
  <2>4. ASSUME tab'.cur = tab.cur, tab'.accept = tab.accept
        PROVE  /\ tab'.cur = s => tab'.accept.id = s
               /\ tab'.accept.id = s => tab'.accept.v = landed'[s]
    BY <2>1, <2>2, <2>4
  <2>5. CASE ~PageStep
    BY <2>4, <2>5, BarFrame
  <2>6. CASE Still \/ Confirms \/ Lands \/ \E x \in Sessions : Shows(x)
    BY <2>4, <2>6 DEF Still, Confirms, Lands, Shows
  <2>7. CASE Leaves
    BY <2>1, <2>2, <2>3, <2>7 DEF Leaves, NoAccept
  <2>8. CASE Accepts
    <3>1. tab.cur /= s
      BY <2>2, <2>3, <2>8 DEF Accepts, NoAccept
    <3> QED
      BY <3>1, <2>8 DEF Accepts
  <2>9. ASSUME NEW x \in Sessions, TakesUp(x)
        PROVE  tab'.cur /= s /\ tab'.accept.id /= s
    BY <2>3, <2>9, <1>2, TakenUpIsNew DEF TakesUp, NoAccept
  <2>10. ASSUME NEW x \in Sessions, Resumes(x)
         PROVE  /\ tab'.cur = s => tab'.accept.id = s
                /\ tab'.accept.id = s => tab'.accept.v = landed'[s]
    <3>1. tab' = tab \/ tab'.cur /= s
      BY <2>3, <2>10 DEF Resumes
    <3>2. tab'.accept = tab.accept
      BY <2>10 DEF Resumes
    <3> QED
      BY <3>1, <3>2, <2>1, <2>2
  <2>11. CASE GivesUp
    <3>1. tab'.accept.id /= s
      BY <2>3, <2>11 DEF GivesUp, NoAccept
    <3>2. tab.cur /= s
      BY <2>2, <2>11, <1>0, <1>2 DEF GivesUp, NoticesAreOfTheSource
    <3> QED
      BY <3>1, <3>2, <2>11 DEF GivesUp
  <2> QED
    BY <2>5, <2>6, <2>7, <2>8, <2>9, <2>10, <2>11, PageMoves
<1> QED
  BY <1>1, <1>2

LEMMA BarKept ==
  ASSUME QuietStep
  PROVE  BarIsOfTheSource'
<1>0. /\ BarIsOfTheSource /\ NoticesAreOfTheSource /\ tab.cur \in Ids /\ tab.accept.id \in Ids
      /\ ViewIsOfTheSource /\ src \in [Sessions -> Views] /\ dom \in [Sessions -> Views]
  BY QuietTypes DEF QuietStep, Quiet
<1>1. ASSUME NEW s \in Sessions, src[s] = "kept" PROVE src'[s] = "kept"
  BY <1>1, DecidedMoves DEF Decided
<1>2. ASSUME NEW s \in Sessions, dom[s] = "full" \/ Decided(s) PROVE dom'[s] = "full" \/ Decided(s)'
  <2>1. CASE Decided(s)
    BY <2>1, DecidedMoves
  <2>2. CASE dom[s] = "full" /\ ~Decided(s)
    <3>1. src[s] = "full"
      BY <2>2, <1>0 DEF ViewIsOfTheSource, Decided
    <3> QED
      BY <3>1, <2>2, QuietTypes, ViewMoves
  <2> QED
    BY <2>1, <2>2, <1>2
<1>3. ASSUME tab'.st = "CONFIRMED", tab'.accept.id /= None PROVE src'[tab'.accept.id] = "kept"
  <2>1. ASSUME tab.st = "CONFIRMED", tab'.accept = tab.accept PROVE src'[tab'.accept.id] = "kept"
    BY <2>1, <1>0, <1>1, <1>3 DEF BarIsOfTheSource, Ids
  <2>2. CASE ~PageStep
    BY <2>1, <2>2, <1>3, BarFrame
  <2>3. CASE Still \/ \E x \in Sessions : Resumes(x) \/ Shows(x)
    BY <2>1, <2>3, <1>3 DEF Still, Resumes, Shows
  <2>4. CASE Leaves \/ Accepts \/ Lands \/ \E x \in Sessions : TakesUp(x)
    BY <2>4, <1>3 DEF Leaves, Accepts, Lands, TakesUp
  <2>5. CASE Confirms
    BY <2>5, <1>0, <1>1, <1>3 DEF Confirms, NoticesAreOfTheSource, Ids
  <2>6. CASE GivesUp
    BY <2>6, <1>3 DEF GivesUp, NoAccept
  <2> QED
    BY <2>2, <2>3, <2>4, <2>5, <2>6, PageMoves
<1>4. ASSUME tab'.cur /= None, tab'.arrived = N, observing'.scout
      PROVE  dom'[tab'.cur] = "full" \/ src'[tab'.cur] \in {"kept", "restored"}
  <2>0. observing.scout
    BY <1>4, ScoutMoves
  <2>1. ASSUME tab'.cur = tab.cur, tab'.arrived = tab.arrived
        PROVE  dom'[tab'.cur] = "full" \/ src'[tab'.cur] \in {"kept", "restored"}
    <3>1. tab.cur \in Sessions /\ (dom[tab.cur] = "full" \/ Decided(tab.cur))
      BY <2>0, <2>1, <1>0, <1>4 DEF BarIsOfTheSource, Ids
    <3> QED
      BY <3>1, <2>1, <1>2 DEF Decided
  <2>2. CASE ~PageStep
    BY <2>1, <2>2, BarFrame
  <2>3. CASE Still \/ Accepts \/ Confirms \/ GivesUp
    BY <2>1, <2>3 DEF Still, Accepts, Confirms, GivesUp
  <2>4. CASE Leaves
    BY <2>4, <1>4 DEF Leaves
  <2>5. CASE Lands
    <3>1. tab.cur = fetching.id /\ fetching.id \in Sessions
      BY <2>0, <2>5, <1>0, <1>4 DEF Lands, BarIsOfTheSource
    <3> QED
      BY <3>1, <2>5, <1>0 DEF Lands
  <2>6. ASSUME NEW x \in Sessions, TakesUp(x) \/ Resumes(x) PROVE FALSE
    BY <2>6, <1>4, Constants DEF TakesUp, Resumes
  <2>7. ASSUME NEW x \in Sessions, Shows(x) PROVE tab' = tab
    BY <2>0, <2>7 DEF Shows
  <2> QED
    BY <2>1, <2>2, <2>3, <2>4, <2>5, <2>6, <2>7, PageMoves
<1>5. ASSUME fetching'.sent
      PROVE  tab'.cur \in {fetching'.id, None} /\ fetching'.id /= None
  <2>1. ASSUME fetching' = fetching, tab'.cur \in {tab.cur, None}
        PROVE  tab'.cur \in {fetching'.id, None} /\ fetching'.id /= None
    BY <2>1, <1>0, <1>5 DEF BarIsOfTheSource
  <2>2. CASE ~PageStep
    BY <2>1, <2>2, BarFrame
  <2>3. CASE Still
    BY <2>1, <2>3, <1>5 DEF Still
  <2>4. CASE Leaves \/ Accepts \/ Confirms \/ GivesUp \/ Lands \/ \E x \in Sessions : Shows(x)
    BY <2>1, <2>4, <1>5 DEF Leaves, Accepts, Confirms, GivesUp, Lands, Shows
  <2>5. ASSUME NEW x \in Sessions, TakesUp(x) PROVE FALSE
    BY <2>5, <1>5 DEF TakesUp
  <2>6. ASSUME NEW x \in Sessions, Resumes(x)
        PROVE  tab'.cur \in {fetching'.id, None} /\ fetching'.id /= None
    BY <2>6, <1>0, <1>5 DEF Resumes, BarIsOfTheSource
  <2> QED
    BY <2>2, <2>3, <2>4, <2>5, <2>6, PageMoves
<1> QED
  BY <1>3, <1>4, <1>5 DEF BarIsOfTheSource, Decided

-----------------------------------------------------------------------------
(* The two together are inductive: what a fault may do to the parts of     *)
(* Quiet does not matter, NoFault is false after it.                       *)
LiveInv == Sound /\ (NoFault => Quiet)

LEMMA LiveInvKept ==
  ASSUME SlowFetch = FALSE, LiveInv, [Next]_vars
  PROVE  LiveInv'
<1>1. Sound'
  BY StepsSound DEF LiveInv
<1>2. ASSUME NoFault' PROVE Quiet'
  <2>1. NoFault
    <3>1. count.faults \in Nat /\ (count'.faults = count.faults \/ count'.faults = count.faults + 1)
      BY CountMoves, TypeParts DEF LiveInv, Sound, WorldTyped
    <3>2. count'.faults = 0
      BY <1>2 DEF NoFault
    <3> QED
      BY <3>1, <3>2 DEF NoFault
  <2>2. QuietStep
    BY <2>1, <1>1, <1>2 DEF QuietStep, LiveInv
  <2> QED
    BY <2>2, ConnectedKept, HeadKept, AnswerKept, NoticesKept, OneAcceptKept, AwaitedKept, KeptStaysAwaited,
      BarKept DEF Quiet
<1> QED
  BY <1>1, <1>2 DEF LiveInv

(* What the bar confirms is what live-accept wrote: the bar confirms only  *)
(* what is kept, and awaits a kept session's accept for what was kept.     *)
LEMMA ConfirmedFollows ==
  ASSUME LiveInv
  PROVE  ConfirmedIsLanded
<1> SUFFICES ASSUME NoFault, tab.st = "CONFIRMED", tab.accept.id /= None
             PROVE  landed[tab.accept.id] = tab.accept.v
  BY DEF ConfirmedIsLanded
<1>1. src[tab.accept.id] = "kept" /\ tab.accept.id \in Sessions
  BY TypeParts, TabFields DEF LiveInv, Sound, Quiet, BarIsOfTheSource, PageTyped, Tabs, Ids
<1> QED
  BY <1>1 DEF LiveInv, Quiet, KeptIsAwaited

(* The journal, the queue and the page agree on every session, on a page   *)
(* whose fetches of the source end before the user presses again.          *)
THEOREM SessionsAlwaysAgree ==
  ASSUME SlowFetch = FALSE
  PROVE  Spec => []SessionsAgree
<1>1. Init => LiveInv
  BY InitSound, InitQuiet DEF LiveInv
<1>2. LiveInv /\ [Next]_vars => LiveInv'
  BY LiveInvKept
<1>3. LiveInv => SessionsAgree
  BY ConfirmedFollows DEF LiveInv, Sound, SessionsAgree
<1> QED
  BY <1>1, <1>2, <1>3, PTL DEF Spec

-----------------------------------------------------------------------------
(* What a bar waits for is still to come.  The parts follow a request from *)
(* the press to the answer, for the accept a bar is SAVING and for the     *)
(* generate it is GENERATING; the first three say how a bar comes to offer *)
(* a session, the next two what becomes of its discards.                   *)

InQueue(type, s) == \E i \in DOMAIN queue : queue[i].type = type /\ queue[i].id = s
Wanted(type, s) == InQueue(type, s) \/ \E r \in net : r.type = type /\ r.id = s
Told(type, s)   == \E i \in DOMAIN sse : sse[i].type = type /\ sse[i].id = s
Known(s)        == snap[s].phase /= "new" \/ \E r \in net : r.id = s
DiscardAnswered(s) == \E a \in answers : a.id = s /\ a.type = "discard"

(* A session the bar shows or has handled, one the agent cleans up after   *)
(* and one that is in the source are known to the journal, or will be.     *)
SessionsAreKnown ==
  /\ tab.cur /= None => Known(tab.cur)
  /\ disk.handled /= None => Known(disk.handled)
  /\ agent.at = "cleanup" => snap[agent.ev.id].phase /= "new"
  /\ \A s \in Sessions : src[s] /= "none" => snap[s].phase /= "new"

(* The observer watches the bar's session; what the bar offers is, or was, *)
(* in the source; before the scout has run, a bar that has a choice, or    *)
(* that awaits an accept, has its variants.                                *)
BarIsWatched == tab.cur /= None => observing.variants = tab.cur
OffersExist  == tab.cur /= None /\ tab.arrived = N => src[tab.cur] \in {"full", "kept", "restored"}
EarlyOffers ==
  observing.scout /\ tab.cur /= None /\ (tab.accept.id /= None \/ tab.st = "CYCLING") => tab.arrived = N

(* A session to be discarded is not resumed by the scout; while the bar    *)
(* shows it, the answer that takes it away is on its way.                  *)
DiscardsAreNotResumed ==
  observing.scout => \A s \in Sessions : ~Decided(s) /\ Wanted("discard", s) => dom[s] = "full"
DiscardsAreAnswered ==
  /\ tab.cur /= None /\ InQueue("discard", tab.cur) => DiscardAnswered(tab.cur)
  /\ tab.cur /= None /\ tab.arrived = N /\ src[tab.cur] = "restored" => DiscardAnswered(tab.cur)

(* A source is half wrapped only while the agent works on it, and a reply  *)
(* tells how it ended.                                                     *)
WrapIsWorkedOn ==
  \A s \in Sessions : src[s] = "wrap" => agent.at = "work" /\ agent.ev.id = s /\ agent.ev.type = "generate"
RepliesTell ==
  agent.at = "reply" =>
    /\ agent.ev.type = "generate" => src[agent.ev.id] \notin {"none", "wrap"}
    /\ agent.ev.type = "accept" /\ src[agent.ev.id] = "full" => agent.answer = "error"

(* The variants, or the news that there will be none.                      *)
VariantsComeTo(s) ==
  \/ src[s] \in {"none", "wrap"} /\ Wanted("generate", s)
  \/ src[s] = "full"
  \/ src[s] = "restored" /\ (Told("error", s) \/ (agent.at = "reply" /\ agent.answer = "error" /\ agent.ev.id = s))
GeneratingIsServed ==
  tab.st = "GENERATING" =>
    /\ tab.cur \in Sessions /\ tab.arrived = 0 /\ dom[tab.cur] /= "full" /\ disk.handled /= tab.cur
    /\ ~Wanted("accept", tab.cur) /\ ~Wanted("discard", tab.cur)
    /\ VariantsComeTo(tab.cur)

(* The end of the accept.                                                  *)
KeepingIsTold(s) ==
  \/ agent.at = "reply" /\ agent.ev.id = s /\ (agent.answer = "complete" \/ agent.carbonize)
  \/ agent.at = "cleanup" /\ agent.ev.id = s
  \/ Told("complete", s)
SavingIsServed ==
  tab.st = "SAVING" =>
    /\ tab.cur \in Sessions /\ tab.accept.id = tab.cur /\ tab.arrived = N
    /\ src[tab.cur] = "full" => Wanted("accept", tab.cur) \/ Told("error", tab.cur)
    /\ src[tab.cur] = "kept" => KeepingIsTold(tab.cur)

Served ==
  /\ SessionsAreKnown /\ BarIsWatched /\ OffersExist /\ EarlyOffers
  /\ DiscardsAreNotResumed /\ DiscardsAreAnswered /\ WrapIsWorkedOn /\ RepliesTell
  /\ GeneratingIsServed /\ SavingIsServed

ServedStep == QuietStep /\ Served /\ "fallback" \notin Results

LEMMA InitServed == Init => Served
<1> SUFFICES ASSUME Init PROVE Served
  OBVIOUS
<1>1. SessionsAreKnown /\ BarIsWatched /\ OffersExist /\ EarlyOffers
  BY DEF Init, SessionsAreKnown, BarIsWatched, OffersExist, EarlyOffers, Resting
<1>2. \A type, s : ~Wanted(type, s) /\ ~InQueue(type, s)
  BY DEF Init, Wanted, InQueue
<1>3. DiscardsAreNotResumed /\ DiscardsAreAnswered
  BY <1>2 DEF Init, DiscardsAreNotResumed, DiscardsAreAnswered
<1>4. WrapIsWorkedOn /\ RepliesTell
  BY DEF Init, WrapIsWorkedOn, RepliesTell, Resting
<1>5. GeneratingIsServed /\ SavingIsServed
  BY DEF Init, GeneratingIsServed, SavingIsServed
<1> QED
  BY <1>1, <1>3, <1>4, <1>5 DEF Served

(* How requests and notices travel, from a quiet state. *)

LEMMA InQueueMoves ==
  ASSUME QuietStep, NEW type \in Asks, NEW s \in Sessions, InQueue(type, s)'
  PROVE  InQueue(type, s) \/ \E r \in net : Receive(r) /\ r.type = type /\ r.id = s
<1>1. PICK i \in DOMAIN queue' : queue'[i].type = type /\ queue'[i].id = s
  BY DEF InQueue
<1>2. CASE \E j \in DOMAIN queue : SameEvent(queue'[i], queue[j])
  BY <1>1, <1>2 DEF InQueue, SameEvent
<1>3. ASSUME NEW r \in net, Receive(r), SameEvent(queue'[i], r)
      PROVE  r.type = type /\ r.id = s
  BY <1>1, <1>3 DEF SameEvent
<1>4. ~Start /\ s /= None
  BY Constants DEF Start, QuietStep, Quiet, Connected
<1> QED
  BY <1>1, <1>2, <1>3, <1>4, QuietTypes, EntryComesFrom

(* A press of the page that asks for a session. *)
Presses(type, s) ==
  \/ type = "generate" /\ Go(s)
  \/ type = "accept" /\ Accept /\ s = tab.cur
  \/ type = "discard" /\ Discard /\ s = tab.cur

LEMMA NetMoves ==
  ASSUME QuietStep, NEW r \in net'
  PROVE  r \in net \/ Presses(r.type, r.id)
<1>1. CASE PageStep
  <2>1. CASE Accept
    <3>1. net' = net \union {Request("accept", tab.cur, tab.shown)}
      BY <2>1 DEF Accept
    <3> QED
      BY <3>1, <2>1 DEF Presses, Request
  <2>2. CASE Discard
    <3>1. net' = net \union {Request("discard", tab.cur, 0)}
      BY <2>2 DEF Discard
    <3> QED
      BY <3>1, <2>2 DEF Presses, Request
  <2>3. ASSUME NEW x \in Sessions, Go(x) PROVE r \in net \/ Presses(r.type, r.id)
    <3>1. net' = net \union {Request("generate", x, 0)}
      BY <2>3 DEF Go
    <3> QED
      BY <3>1, <2>3 DEF Presses, Request
  <2> QED
    BY <1>1, <2>1, <2>2, <2>3, PageFrame
<1>2. net' \subseteq net \/ PageStep
  BY QuietSteps, AgentFrame DEF Receive, AgentStep, vars
<1> QED
  BY <1>1, <1>2

LEMMA WantedMoves ==
  ASSUME QuietStep, NEW type \in Asks, NEW s \in Sessions, Wanted(type, s)'
  PROVE  Wanted(type, s) \/ Presses(type, s)
<1>1. CASE InQueue(type, s)'
  BY <1>1, InQueueMoves DEF Wanted
<1>2. CASE \E r \in net' : r.type = type /\ r.id = s
  BY <1>2, NetMoves DEF Wanted
<1> QED
  BY <1>1, <1>2 DEF Wanted

(* A request stays under way until its own answer, or until the session    *)
(* is completed.                                                           *)
LEMMA WantedStays ==
  ASSUME QuietStep, NEW type \in Asks, NEW s \in Sessions, Wanted(type, s)
  PROVE  \/ Wanted(type, s)'
         \/ Reply /\ agent.ev.id = s /\ agent.ev.type = type
         \/ LiveComplete /\ agent.ev.id = s
<1>1. ASSUME NEW r \in net, r.type = type, r.id = s PROVE Wanted(type, s)'
  <2>1. CASE r \in net'
    BY <1>1, <2>1 DEF Wanted
  <2>2. CASE r \notin net'
    <3>1. Receive(r) /\ fresh
      BY <2>2, QuietSteps, PageFrame, AgentFrame DEF Receive, AgentStep, Go, Accept, Discard, vars
    <3>2. \/ queue' = queue /\ \E i \in DOMAIN queue : queue[i].id = r.id /\ queue[i].type = r.type
          \/ \E e : QueueAdds(e) /\ e.id = r.id /\ e.type = r.type
      BY <3>1, QuietTypes, ReceiveMoves
    <3>3. InQueue(type, s)'
      <4>1. CASE queue' = queue /\ \E i \in DOMAIN queue : queue[i].id = r.id /\ queue[i].type = r.type
        BY <4>1, <1>1 DEF InQueue
      <4>2. ASSUME NEW e, QueueAdds(e), e.id = r.id, e.type = r.type PROVE InQueue(type, s)'
        <5>1. queue' = Append(queue, e) /\ e \in Entries /\ queue \in Queues
              /\ \A i \in DOMAIN queue : ~(queue[i].id = e.id /\ queue[i].type = e.type)
          BY <4>2, QuietTypes DEF QueueAdds
        <5>2. Len(queue) + 1 \in DOMAIN queue' /\ queue'[Len(queue) + 1] = e
          BY <5>1, Appending
        <5> QED
          BY <5>2, <4>2, <1>1 DEF InQueue
      <4> QED
        BY <4>1, <4>2, <3>2
    <3> QED
      BY <3>3 DEF Wanted
  <2> QED
    BY <2>1, <2>2
<1>2. ASSUME NEW j \in DOMAIN queue, queue[j].type = type, queue[j].id = s
      PROVE  \/ Wanted(type, s)'
             \/ Reply /\ agent.ev.id = s /\ agent.ev.type = type
             \/ LiveComplete /\ agent.ev.id = s
  <2>1. CASE \E i \in DOMAIN queue' : SameEvent(queue'[i], queue[j])
    BY <1>2, <2>1 DEF Wanted, InQueue, SameEvent
  <2>2. CASE Reply /\ agent.ev.id = s
    <3>1. queue \in Queues /\ queue' = RemoveAt(queue, 1) /\ 1 \in DOMAIN queue /\ SameEvent(queue[1], agent.ev)
      BY <2>2, QuietTypes, ReplyDrops, AgentsEventQueued
    <3>2. CASE j = 1
      BY <3>1, <3>2, <2>2, <1>2 DEF SameEvent
    <3>3. CASE j /= 1
      <4>1. PICK k \in DOMAIN RemoveAt(queue, 1) : RemoveAt(queue, 1)[k] = queue[j]
        BY <3>1, <3>3, Removing
      <4> QED
        BY <4>1, <3>1, <1>2 DEF Wanted, InQueue
    <3> QED
      BY <3>2, <3>3
  <2>3. ~Stop /\ ~Start /\ s /= None
    <3>1. ~Start /\ s /= None
      BY Constants DEF Start, QuietStep, Quiet, Connected
    <3>2. ~FaultStep
      BY QuietTypes, CountMoves, TypeParts DEF QuietStep, NoFault, Sound, WorldTyped
    <3> QED
      BY <3>1, <3>2 DEF FaultStep
  <2> QED
    BY <1>2, <2>1, <2>2, <2>3, QuietTypes, EntryStays
<1> QED
  BY <1>1, <1>2 DEF Wanted, InQueue

(* A notice stays on its way until the page takes it. *)
LEMMA ToldStays ==
  ASSUME QuietStep, NEW type, NEW s, Told(type, s)
  PROVE  Told(type, s)' \/ (Message /\ 1 \in DOMAIN sse /\ sse[1].type = type /\ sse[1].id = s)
<1>0. StreamTyped /\ DOMAIN sse = 1..Len(sse) /\ Len(sse) \in Nat
  BY QuietTypes, StreamFields
<1>1. PICK i \in DOMAIN sse : sse[i].type = type /\ sse[i].id = s
  BY DEF Told
<1>2. CASE sse' = sse
  BY <1>1, <1>2 DEF Told
<1>3. CASE sse' = Tail(sse) /\ sse /= <<>> /\ Message
  <2>1. CASE i = 1
    BY <2>1, <1>1, <1>3
  <2>2. CASE i /= 1
    <3>1. i - 1 \in 1..(Len(sse) - 1)
      BY <2>2, <1>0
    <3>2. i - 1 \in DOMAIN sse' /\ sse'[i - 1] = sse[i]
      BY <3>1, <1>0, <1>3, HeadTailProperties DEF StreamTyped
    <3> QED
      BY <3>2, <1>1 DEF Told
  <2> QED
    BY <2>1, <2>2
<1>4. ASSUME NEW m \in Messages, sse' = Append(sse, m) PROVE Told(type, s)'
  BY <1>0, <1>1, <1>4, StreamAppend DEF Told
<1>5. ~(Stop \/ Drop \/ Reload) /\ ~Connect
  <2>1. ~FaultStep
    BY QuietTypes, CountMoves, TypeParts DEF QuietStep, NoFault, Sound, WorldTyped
  <2> QED
    BY <2>1 DEF FaultStep, Connect, QuietStep, Quiet, Connected
<1> QED
  BY <1>2, <1>3, <1>4, <1>5, QuietTypes, StreamMoves, NoticeTyped

(* A reply is told. *)
LEMMA AppendTells ==
  ASSUME QuietStep, NEW answer \in Replies, NEW s \in Sessions, sse' = Append(sse, Notice(answer, s))
  PROVE  Told(answer, s)'
<1>1. StreamTyped /\ Notice(answer, s) \in Messages /\ Notice(answer, s).type = answer /\ Notice(answer, s).id = s
  BY QuietTypes, NoticeTyped
<1>2. Len(sse) + 1 \in DOMAIN sse' /\ sse'[Len(sse) + 1] = Notice(answer, s)
  BY <1>1, StreamAppend
<1> QED
  BY <1>1, <1>2 DEF Told

LEMMA ReplyTells ==
  ASSUME QuietStep, Reply, NEW answer, NEW s, answer = agent.answer, s = agent.ev.id
  PROVE  Told(answer, s)' /\ s \in Sessions /\ snap'[s].phase /= "new"
<1>1. Busy /\ s \in Sessions /\ answer \in Replies /\ \E i \in DOMAIN queue : queue[i].id = s
  BY AgentsEventQueued, QuietTypes DEF Reply, Busy, SameEvent, AgentHasEvent
<1>2. PollPost(s, agent.answer, agent.carbonize) /\ conn
  BY DEF Reply, QuietStep, Quiet, Connected
<1>3. sse' = Append(sse, Notice(answer, s))
  BY <1>1, <1>2 DEF PollPost, Broadcast
<1>4. snap[s].phase /= "new"
  BY <1>1, QuietTypes, Constants DEF JournalKnows
<1> QED
  BY <1>1, <1>3, <1>4, AppendTells, QuietTypes, JournalMoves

LEMMA CompleteTells ==
  ASSUME QuietStep, LiveComplete, NEW s, s = agent.ev.id, snap[s].phase /= "new"
  PROVE  Told("complete", s)'
<1>1. s \in Sessions /\ agent.answer = "complete" /\ "complete" \in Replies
  BY QuietTypes, HandledFields DEF LiveComplete, AgentHasEvent, QuietStep, Quiet, AnswerIsOfTheSource, Replies
<1>2. up /\ conn
  BY DEF QuietStep, Quiet, Connected
<1>3. PollPost(s, agent.answer, FALSE)
  BY <1>2 DEF LiveComplete
<1>4. snap[s] /= BaseSnapshot
  BY DEF BaseSnapshot
<1>5. sse' = Append(sse, Notice("complete", s))
  BY <1>1, <1>2, <1>3, <1>4 DEF PollPost, Broadcast
<1> QED
  BY <1>1, <1>5, AppendTells

(* The answer to a discard is there from the time the request is received, *)
(* and until it takes the session off the bar.                             *)
LEMMA AnswerStays ==
  ASSUME QuietStep, NEW s, DiscardAnswered(s)
  PROVE  DiscardAnswered(s)' \/ tab'.cur = None
<1>1. ASSUME NEW a \in answers, Answered(a) PROVE tab'.cur = None
  <2>1. a.type = "discard" /\ a.ok
    BY DEF QuietStep, Quiet, Connected
  <2>2. Cleaned(TRUE)
    BY <2>1, <1>1 DEF Answered
  <2> QED
    BY <2>2, CleanedLeaves
<1>2. CASE answers \subseteq answers'
  BY <1>2 DEF DiscardAnswered
<1>3. CASE ~(answers \subseteq answers')
  BY <1>1, <1>3, QuietSteps, AgentFrame DEF PageStep, Go, HotUpdate, Cycle, Accept, Discard, Checkpoint, Confirmed,
    Message, FetchStarts, FetchLands, wireVars, Receive, Answering, AgentStep, vars
<1> QED
  BY <1>2, <1>3

LEMMA ReceivedIsAnswered ==
  ASSUME NEW r \in net, Receive(r), r.type = "discard"
  PROVE  DiscardAnswered(r.id)'
<1> DEFINE a == [type |-> "discard", id |-> r.id, ok |-> fresh]
<1>1. answers' = answers \union {a}
  BY DEF Receive, Answering
<1>2. a \in answers' /\ a.id = r.id /\ a.type = "discard"
  BY <1>1
<1> QED
  BY <1>2 DEF DiscardAnswered

-----------------------------------------------------------------------------
(* What a step of the page does to what the bar shows and offers.          *)

(* The bar turns to session x: at a press of Go, or because the scout      *)
(* found its wrapper.                                                      *)
Picks(x) ==
  /\ Go(x) /\ tab'.st = "GENERATING" /\ tab'.cur = x /\ tab'.arrived = 0 /\ tab'.accept = NoAccept
  /\ observing'.variants = x /\ disk'.handled = disk.handled /\ dom' = dom

Turns(x) ==
  /\ observing.scout /\ ~observing'.scout /\ Wrapped(src[x]) /\ dom[x] /= src[x]
  /\ dom' = [dom EXCEPT ![x] = src[x]] /\ disk.handled /= x /\ disk'.handled = disk.handled
  /\ observing'.variants = x /\ tab'.cur = x /\ tab'.arrived = Arrived(src[x])
  /\ tab'.st = IF src[x] = "full" THEN "CYCLING" ELSE "GENERATING"

(* The variants of session x are on the page, and the bar offers them.     *)
Offers(x) ==
  /\ src[x] = "full" /\ (x = observing.variants \/ (fetching.sent /\ x = fetching.id))
  /\ tab'.st = "CYCLING" /\ tab'.cur = tab.cur /\ tab'.arrived = N
  /\ observing' = observing /\ disk'.handled = disk.handled

LetsGo ==
  /\ tab'.cur = None /\ tab'.st = "PICKING" /\ observing'.variants = None
  /\ disk'.handled \in {disk.handled, tab.cur, None}

Saves ==
  /\ Accept /\ tab.st = "CYCLING" /\ tab.cur \in Sessions /\ tab.arrived = N /\ tab.accept = NoAccept
  /\ tab'.st = "SAVING" /\ tab'.cur = tab.cur /\ tab'.arrived = tab.arrived /\ tab'.accept.id = tab.cur
  /\ observing' = observing /\ disk'.handled = disk.handled /\ dom' = dom

(* A hot update that shows no variants the bar waits for.                  *)
Unseen(x) ==
  /\ dom' = [dom EXCEPT ![x] = src[x]]
  /\ src[x] = "full" => disk.handled = x \/ x /= observing.variants \/ tab.arrived = N

StaysOn ==
  /\ tab'.cur = tab.cur /\ tab'.arrived = tab.arrived /\ observing'.variants = observing.variants
  /\ \/ /\ tab'.st = tab.st /\ tab'.accept = tab.accept /\ disk'.handled = disk.handled
        /\ dom' = dom \/ \E x \in Sessions : Unseen(x)
     \/ /\ tab'.st = tab.st /\ tab'.accept = NoAccept /\ disk'.handled = disk.handled
        /\ tab.cur /= tab.accept.id /\ dom' = dom
     \/ /\ tab'.st = "CYCLING" /\ (tab.arrived = N \/ tab.accept.id /= None)
        /\ tab'.accept \in {tab.accept, NoAccept} /\ disk'.handled = disk.handled
     \/ /\ tab'.st \in {"PICKING", "CONFIRMED"} /\ tab'.accept = tab.accept
        /\ disk'.handled \in {disk.handled, tab.cur}

LEMMA CleanedLetsGo ==
  ASSUME QuietStep, NEW marks \in BOOLEAN, Cleaned(marks)
  PROVE  LetsGo
<1>1. /\ tab \in Tabs /\ observing \in [variants : Ids, scout : BOOLEAN]
  BY QuietTypes
<1>2. disk'.handled \in {disk.handled, tab.cur}
  BY DEF Cleaned
<1>3. tab'.cur = None /\ tab'.st = "PICKING" /\ observing'.variants = None
  BY <1>1 DEF Cleaned, Tabs
<1> QED
  BY <1>2, <1>3 DEF LetsGo

LEMMA MessageShows ==
  ASSUME QuietStep, Message
  PROVE  LetsGo \/ StaysOn
<1>1. /\ tab \in Tabs /\ StreamTyped /\ sse /= <<>> /\ dom' = dom
      /\ observing \in [variants : Ids, scout : BOOLEAN]
  BY QuietTypes DEF Message, worldVars
<1>2. 1 \in DOMAIN sse /\ Head(sse) = sse[1] /\ sse[1] \in Messages
  BY <1>1, StreamTail, StreamFields DEF Message
<1> DEFINE msg == Head(sse)
<1>3. msg.type \in {"done", "complete", "discarded", "error", "agent_done"}
  BY <1>2 DEF QuietStep, Quiet, Connected, Messages, Replies
<1>i. msg.type /= "connected" => msg.id \in Sessions
  BY <1>1, <1>2, StreamFields
<1>4. CASE msg.type = "done"
  <2>1. OnDone(msg) /\ disk' = disk /\ observing' = observing
    BY <1>4 DEF Message, OnDone
  <2>2. CASE tab.arrived = N /\ tab.st = "GENERATING"
    <3>1. tab' = [tab EXCEPT !.st = "CYCLING"]
      BY <2>1, <2>2 DEF OnDone
    <3>2. tab'.cur = tab.cur /\ tab'.arrived = tab.arrived /\ tab'.st = "CYCLING" /\ tab'.accept = tab.accept
      BY <3>1, <1>1 DEF Tabs
    <3> QED
      BY <3>2, <2>1, <2>2 DEF StaysOn
  <2>3. CASE ~(tab.arrived = N /\ tab.st = "GENERATING")
    <3>1. tab' = tab
      BY <2>1, <2>3 DEF OnDone
    <3> QED
      BY <3>1, <2>1, <1>1 DEF StaysOn
  <2> QED
    BY <2>2, <2>3
<1>5. CASE msg.type = "complete"
  <2>1. OnComplete(msg) /\ observing' = observing
    BY <1>5 DEF Message, OnComplete
  <2>3. CASE tab.accept.id /= msg.id \/ tab.st = "CONFIRMED"
    <3>1. tab' = tab /\ disk' = disk
      BY <2>1, <2>3 DEF OnComplete
    <3> QED
      BY <3>1, <2>1, <1>1 DEF StaysOn
  <2>4. CASE ~(tab.accept.id /= msg.id \/ tab.st = "CONFIRMED") /\ tab.cur \notin {None, msg.id}
    <3>1. tab' = [tab EXCEPT !.accept = NoAccept] /\ disk' = disk
      BY <2>1, <2>4 DEF OnComplete
    <3>2. tab'.cur = tab.cur /\ tab'.accept = NoAccept /\ tab'.arrived = tab.arrived /\ tab'.st = tab.st
      BY <3>1, <1>1 DEF Tabs
    <3> QED
      BY <3>1, <3>2, <2>1, <2>4, <1>1 DEF StaysOn
  <2>5. CASE ~(tab.accept.id /= msg.id \/ tab.st = "CONFIRMED") /\ tab.cur \in {None, msg.id}
    <3>1. /\ tab' = [tab EXCEPT !.st = "CONFIRMED"]
          /\ disk' = [disk EXCEPT !.handled = IF tab.cur = None THEN @ ELSE tab.cur]
      BY <2>1, <2>5 DEF OnComplete
    <3>2. tab'.cur = tab.cur /\ tab'.accept = tab.accept /\ tab'.arrived = tab.arrived /\ tab'.st = "CONFIRMED"
      BY <3>1, <1>1 DEF Tabs
    <3>3. disk'.handled \in {disk.handled, tab.cur}
      BY <3>1, QuietTypes, TypeParts DEF PageTyped
    <3> QED
      BY <3>2, <3>3, <2>1 DEF StaysOn
  <2> QED
    BY <2>3, <2>4, <2>5
<1>6. CASE msg.type = "discarded"
  <2>1. OnDiscarded(msg)
    BY <1>6 DEF Message
  <2>2. CASE msg.id = tab.cur
    BY <2>1, <2>2, CleanedLetsGo DEF OnDiscarded
  <2>3. CASE msg.id /= tab.cur
    <3>1. tab' = tab /\ observing' = observing /\ disk' = disk
      BY <2>1, <2>3 DEF OnDiscarded
    <3> QED
      BY <3>1, <1>1 DEF StaysOn
  <2> QED
    BY <2>2, <2>3
<1>7. CASE msg.type = "error"
  <2>1. OnError(msg) /\ disk' = disk /\ observing' = observing
    BY <1>7 DEF Message, OnError
  <2>3. CASE tab.accept.id = msg.id
    <3>1. tab' = [tab EXCEPT !.st = "CYCLING", !.accept = NoAccept]
      BY <2>1, <2>3 DEF OnError
    <3>2. tab'.cur = tab.cur /\ tab'.accept = NoAccept /\ tab'.arrived = tab.arrived /\ tab'.st = "CYCLING"
      BY <3>1, <1>1 DEF Tabs
    <3>3. tab.accept.id /= None
      BY <2>3, <1>7, <1>i, Constants
    <3> QED
      BY <3>2, <3>3, <2>1 DEF StaysOn
  <2>4. CASE tab.accept.id /= msg.id
    <3>1. tab' = [tab EXCEPT !.st = "PICKING"]
      BY <2>1, <2>4 DEF OnError
    <3>2. tab'.cur = tab.cur /\ tab'.accept = tab.accept /\ tab'.arrived = tab.arrived /\ tab'.st = "PICKING"
      BY <3>1, <1>1 DEF Tabs
    <3> QED
      BY <3>2, <2>1 DEF StaysOn
  <2> QED
    BY <2>3, <2>4
<1>8. CASE msg.type = "agent_done"
  <2>1. tab' = tab /\ observing' = observing /\ disk' = disk
    BY <1>8 DEF Message, pageVars
  <2> QED
    BY <2>1, <1>1 DEF StaysOn
<1> QED
  BY <1>3, <1>4, <1>5, <1>6, <1>7, <1>8

LEMMA HotShows ==
  ASSUME QuietStep, NEW x \in Sessions, HotUpdate(x)
  PROVE  Turns(x) \/ Offers(x) \/ StaysOn
<1>1. /\ PageTyped /\ TabDiskTyped /\ src[x] \in Views /\ dom[x] /= src[x] /\ dom' = [dom EXCEPT ![x] = src[x]]
      /\ tab \in Tabs /\ observing \in [variants : Ids, scout : BOOLEAN]
  BY QuietTypes, TypeParts DEF HotUpdate, PageTyped, TabDiskTyped, Tabs
<1>2. CASE observing.scout /\ Wrapped(src[x])
  <2>1. Resume(x, src[x])
    BY <1>2 DEF HotUpdate
  <2>2. CASE disk.handled = x
    <3>1. tab' = tab /\ disk' = disk /\ observing' = [observing EXCEPT !.scout = FALSE]
      BY <2>1, <2>2 DEF Resume
    <3>2. observing'.variants = observing.variants
      BY <3>1, <1>1
    <3> QED
      BY <3>1, <3>2, <2>2, <1>1 DEF StaysOn, Unseen
  <2>3. CASE disk.handled /= x
    <3>1. Show(Resumed(x, src[x])) /\ observing' = [variants |-> x, scout |-> FALSE]
      BY <2>1, <2>3 DEF Resume
    <3>2. tab' = Resumed(x, src[x]) /\ disk'.handled = disk.handled
      BY <3>1, <1>1, ResumedTyped, ShowTyped
    <3>3. /\ tab'.cur = x /\ tab'.arrived = Arrived(src[x])
          /\ tab'.st = IF src[x] = "full" THEN "CYCLING" ELSE "GENERATING"
      BY <3>2 DEF Resumed
    <3>4. observing'.variants = x /\ ~observing'.scout
      BY <3>1
    <3> QED
      BY <3>2, <3>3, <3>4, <2>3, <1>1, <1>2 DEF Turns
  <2> QED
    BY <2>2, <2>3
<1>3. CASE ~(observing.scout /\ Wrapped(src[x]))
  <2>1. Observe(x, src[x])
    BY <1>3 DEF HotUpdate
  <2>2. CASE x = observing.variants /\ Arrived(src[x]) > tab.arrived
    <3> DEFINE w == IF tab.shown /= 0 THEN tab.shown
                    ELSE IF disk.saved.id = x /\ disk.saved.shown \in 1..N THEN disk.saved.shown ELSE 1
               t == [tab EXCEPT !.st = "CYCLING", !.arrived = N, !.shown = w]
    <3>1. Show(t) /\ observing' = observing
      BY <2>1, <2>2 DEF Observe
    <3>2. w \in 0..N
      BY Constants, TabFields, <1>1 DEF TabDiskTyped
    <3> HIDE DEF w
    <3>3. t \in Tabs /\ t.st = "CYCLING" /\ t.cur = tab.cur /\ t.arrived = N
      BY <3>2, <1>1, Constants DEF Tabs, TabStates
    <3> HIDE DEF t
    <3>4. tab' = t /\ disk'.handled = disk.handled
      BY <3>1, <3>3, <1>1, ShowTyped
    <3>5. src[x] = "full"
      BY <2>2, <1>1, Constants, TabFields DEF Arrived
    <3> QED
      BY <3>1, <3>3, <3>4, <3>5, <2>2 DEF Offers
  <2>3. CASE ~(x = observing.variants /\ Arrived(src[x]) > tab.arrived)
    <3>1. tab' = tab /\ disk' = disk /\ observing' = observing
      BY <2>1, <2>3 DEF Observe
    <3>2. src[x] = "full" => x /= observing.variants \/ tab.arrived = N
      BY <2>3, <1>1, Constants, TabFields DEF Arrived
    <3> QED
      BY <3>1, <3>2, <1>1 DEF StaysOn, Unseen
  <2> QED
    BY <2>2, <2>3
<1> QED
  BY <1>2, <1>3

LEMMA FetchShows ==
  ASSUME QuietStep, FetchLands
  PROVE  LetsGo \/ StaysOn \/ \E x \in Sessions : Offers(x)
<1>1. /\ tab \in Tabs /\ TabDiskTyped /\ fetching.id \in Sessions /\ fetching.sent /\ up /\ fresh
      /\ src \in [Sessions -> Views]
  BY QuietTypes, TypeParts DEF FetchLands, QuietStep, Quiet, Connected, Ids, PageTyped, TabDiskTyped, Tabs
<1> DEFINE s == fetching.id
<1>3. CASE src[s] = "full"
  <2> DEFINE kept == IF tab.cur = s THEN tab.shown ELSE 0
             saved == IF disk.saved.id = s THEN disk.saved.shown ELSE 0
             w == IF kept > 0 THEN kept ELSE IF saved > 0 THEN saved ELSE 1
             t == [tab EXCEPT !.st = "CYCLING", !.arrived = N, !.shown = w]
  <2>1. Show(t) /\ observing' = observing
    BY <1>1, <1>3 DEF FetchLands
  <2>2. w \in 0..N
    BY Constants, TabFields, <1>1 DEF TabDiskTyped
  <2> HIDE DEF w
  <2>3. t \in Tabs /\ t.st = "CYCLING" /\ t.cur = tab.cur /\ t.arrived = N
    BY <2>2, <1>1, Constants DEF Tabs, TabStates
  <2> HIDE DEF t
  <2>4. tab' = t /\ disk'.handled = disk.handled
    BY <2>1, <2>3, <1>1, ShowTyped
  <2>5. Offers(s)
    BY <2>1, <2>3, <2>4, <1>1, <1>3 DEF Offers
  <2> QED
    BY <2>5, <1>1
<1>4. CASE src[s] = "wrap"
  <2>1. Cleaned(FALSE)
    BY <1>1, <1>4 DEF FetchLands
  <2> QED
    BY <2>1, CleanedLetsGo
<1>5. CASE src[s] \notin {"full", "wrap"}
  <2>1. tab' = tab /\ observing' = observing /\ disk' = disk /\ dom' = dom
    BY <1>5 DEF FetchLands, Wrapped
  <2> QED
    BY <2>1, <1>1 DEF StaysOn
<1> QED
  BY <1>3, <1>4, <1>5

LEMMA BarShows ==
  ASSUME QuietStep, PageStep
  PROVE  LetsGo \/ StaysOn \/ Saves \/ \E x \in Sessions : Picks(x) \/ Turns(x) \/ Offers(x)
<1>0. /\ tab \in Tabs /\ TabDiskTyped /\ observing \in [variants : Ids, scout : BOOLEAN]
  BY QuietTypes, TypeParts DEF PageTyped, TabDiskTyped, Tabs
<1>1. ASSUME NEW x \in Sessions, Go(x) PROVE Picks(x)
  <2> DEFINE t == [st |-> "GENERATING", cur |-> x, arrived |-> 0, shown |-> 0, accept |-> NoAccept]
  <2>1. Show(t) /\ observing' = [observing EXCEPT !.variants = x] /\ dom' = dom
    BY <1>1 DEF Go, worldVars
  <2>2. t \in Tabs /\ t.st = "GENERATING" /\ t.cur = x /\ t.arrived = 0 /\ t.accept = NoAccept
    BY Constants, BlankTyped DEF Tabs, TabStates
  <2> HIDE DEF t
  <2>3. tab' = t /\ disk'.handled = disk.handled
    BY <2>1, <2>2, <1>0, ShowTyped
  <2> QED
    BY <2>1, <2>2, <2>3, <1>0, <1>1 DEF Picks
<1>2. ASSUME NEW v \in 1..N, Cycle(v) PROVE StaysOn
  <2>1. Show([tab EXCEPT !.shown = v]) /\ observing' = observing /\ dom' = dom
    BY <1>2 DEF Cycle, worldVars
  <2>2. tab' = [tab EXCEPT !.shown = v] /\ disk' = [disk EXCEPT !.saved = Saved(tab')]
    BY <2>1 DEF Show
  <2>3. disk'.handled = disk.handled
    BY <2>2, <1>0 DEF TabDiskTyped
  <2> QED
    BY <2>1, <2>2, <2>3, <1>0 DEF StaysOn, Tabs
<1>3. CASE Accept
  <2> DEFINE t == [tab EXCEPT !.st = "SAVING", !.accept = [id |-> tab.cur, v |-> tab.shown]]
  <2>1. /\ Show(t) /\ observing' = observing /\ dom' = dom
        /\ tab.st = "CYCLING" /\ tab.accept = NoAccept /\ tab.cur /= None /\ tab.arrived > 0
    BY <1>3 DEF Accept, worldVars
  <2>2. tab.cur \in Sessions /\ tab.arrived = N
    BY <2>1, <1>0, TabFields, Constants DEF Ids
  <2>3. t \in Tabs /\ t.cur = tab.cur /\ t.accept.id = tab.cur /\ t.arrived = tab.arrived /\ t.st = "SAVING"
    BY <1>0 DEF Tabs, TabStates
  <2> HIDE DEF t
  <2>4. tab' = t /\ disk'.handled = disk.handled
    BY <2>1, <2>3, <1>0, ShowTyped
  <2> QED
    BY <2>1, <2>2, <2>3, <2>4, <1>3 DEF Saves
<1>4. CASE Discard \/ Checkpoint
  BY <1>4 DEF Discard, Checkpoint, StaysOn, pageVars, worldVars
<1>5. ASSUME NEW a \in answers, Answered(a) PROVE LetsGo
  <2>1. a.type = "discard" /\ a.ok
    BY DEF QuietStep, Quiet, Connected
  <2>2. Cleaned(TRUE)
    BY <2>1, <1>5 DEF Answered
  <2> QED
    BY <2>2, CleanedLetsGo
<1>6. CASE Confirmed
  <2>1. /\ tab' = [tab EXCEPT !.st = "PICKING", !.cur = None, !.accept = NoAccept]
        /\ disk' = [disk EXCEPT !.saved = NoSaved]
        /\ observing' = [observing EXCEPT !.variants = None]
    BY <1>6 DEF Confirmed
  <2>2. disk'.handled = disk.handled
    BY <2>1, <1>0 DEF TabDiskTyped
  <2> QED
    BY <2>1, <2>2, <1>0 DEF LetsGo, Tabs
<1>7. CASE FetchStarts
  BY <1>7 DEF FetchStarts, StaysOn, worldVars
<1> QED
  BY <1>1, <1>2, <1>3, <1>4, <1>5, <1>6, <1>7, MessageShows, HotShows, FetchShows DEF PageStep

(* Off the page, the bar stands still. *)
LEMMA BarStands ==
  ASSUME QuietStep, ~PageStep
  PROVE  tab' = tab /\ disk' = disk /\ observing' = observing /\ fetching' = fetching /\ dom' = dom
BY QuietSteps, AgentFrame DEF Receive, AgentStep, pageVars, worldVars, vars, PageStep

(* On the page, nothing moves but the page and its requests. *)
LEMMA WorldStands ==
  ASSUME QuietStep, PageStep
  PROVE  src' = src /\ agent' = agent /\ queue' = queue
BY PageFrame

(* A request nobody has made before asks for nothing of a new session.     *)
LEMMA PickedIsNew ==
  ASSUME QuietStep, NEW x \in Sessions, Go(x)
  PROVE  /\ src[x] = "none" /\ dom[x] /= "full" /\ ~Known(x)
         /\ \A type \in Asks : ~Wanted(type, x)
<1>1. snap[x] = BaseSnapshot /\ src[x] = "none" /\ \A r \in net : r.id /= x
  BY DEF Go
<1>2. snap[x].phase = "new"
  BY <1>1 DEF BaseSnapshot
<1>3. \A type \in Asks : ~InQueue(type, x)
  BY <1>2, QuietTypes, Constants DEF InQueue, JournalKnows
<1>4. dom[x] /= "full"
  BY <1>1, QuietTypes DEF ViewIsOfTheSource
<1> QED
  BY <1>1, <1>2, <1>3, <1>4 DEF Wanted, Known

LEMMA GoAsks ==
  ASSUME NEW x \in Sessions, Go(x)
  PROVE  Wanted("generate", x)' /\ Known(x)'
<1> DEFINE r == Request("generate", x, 0)
<1>1. r \in net' /\ r.type = "generate" /\ r.id = x
  BY DEF Go, Request
<1> HIDE DEF r
<1> QED
  BY <1>1 DEF Wanted, Known

(* A session with a discard or an accept under way is not one the scout    *)
(* can turn to.                                                            *)
LEMMA TurnedIsFree ==
  ASSUME ServedStep, NEW x \in Sessions, Turns(x)
  PROVE  ~Wanted("discard", x) /\ ~Wanted("accept", x)
<1>1. QuietStep /\ DiscardsAreNotResumed /\ AcceptIsAwaited /\ ViewIsOfTheSource
      /\ net \subseteq [type : Asks, id : Sessions, v : 0..N] /\ queue \in Queues
  BY QuietTypes DEF ServedStep, QuietStep, Quiet, Served
<1>2. src[x] \in {"wrap", "full"} /\ dom[x] /= src[x] /\ observing.scout
  BY DEF Turns, Wrapped
<1>3. dom[x] /= "full" /\ ~Decided(x)
  BY <1>1, <1>2 DEF ViewIsOfTheSource, Decided
<1>4. ~Wanted("discard", x)
  BY <1>1, <1>2, <1>3 DEF DiscardsAreNotResumed
<1>5. \A v \in 0..N : ~Underway(x, v)
  BY <1>1, <1>2, <1>3 DEF AcceptIsAwaited
<1>6. ASSUME InQueue("accept", x) PROVE FALSE
  <2>1. PICK i \in DOMAIN queue : queue[i].type = "accept" /\ queue[i].id = x
    BY <1>6 DEF InQueue
  <2>2. queue[i].v \in 0..N
    BY <2>1, <1>1, Constants, QueueFields, EntryFields, HandledFields
  <2> QED
    BY <2>1, <2>2, <1>5 DEF Underway, Queued
<1>7. ASSUME NEW r \in net, r.type = "accept", r.id = x PROVE FALSE
  <2>1. r = Request("accept", x, r.v) /\ r.v \in 0..N
    BY <1>1, <1>7 DEF Request
  <2> QED
    BY <2>1, <1>5 DEF Underway, Sent
<1> QED
  BY <1>4, <1>6, <1>7 DEF Wanted

-----------------------------------------------------------------------------
(* A quiet step keeps each part. *)

LEMMA KnownStays ==
  ASSUME QuietStep, NEW s \in Sessions, Known(s)
  PROVE  Known(s)'
<1>1. CASE snap[s].phase /= "new"
  BY <1>1, QuietTypes, JournalMoves DEF Known
<1>2. ASSUME NEW r \in net, r.id = s, r \in net' PROVE Known(s)'
  BY <1>2 DEF Known
<1>3. ASSUME NEW r \in net, r.id = s, r \notin net' PROVE Known(s)'
  <2>1. Receive(r) /\ fresh
    BY <1>3, QuietSteps, PageFrame, AgentFrame DEF Receive, AgentStep, Go, Accept, Discard, vars
  <2> QED
    BY <2>1, <1>3, QuietTypes, ReceiveJournals DEF Known
<1> QED
  BY <1>1, <1>2, <1>3 DEF Known

LEMMA KnownKept ==
  ASSUME ServedStep
  PROVE  SessionsAreKnown'
<1>0. QuietStep /\ SessionsAreKnown /\ tab.cur \in Ids /\ disk.handled \in Ids /\ AgentHasEvent /\ JournalKnows
  BY QuietTypes DEF ServedStep, Served
<1>1. \A s \in Sessions : snap[s].phase /= "new" => snap'[s].phase /= "new"
  BY <1>0, QuietTypes, JournalMoves
<1>2. tab.cur /= None => tab.cur \in Sessions /\ Known(tab.cur)
  BY <1>0 DEF SessionsAreKnown, Ids
<1>3. disk.handled /= None => disk.handled \in Sessions /\ Known(disk.handled)
  BY <1>0 DEF SessionsAreKnown, Ids
<1>4. \A s \in Sessions : Known(s) => Known(s)'
  BY <1>0, KnownStays
<1>c. \A c : c = tab'.cur /\ c /= None => Known(c)'
  <2>1. SUFFICES ASSUME NEW c, c = tab'.cur, c /= None PROVE Known(c)'
    OBVIOUS
  <2>2. CASE tab'.cur = tab.cur
    BY <2>1, <2>2, <1>2, <1>4
  <2>3. ASSUME NEW x \in Sessions, Picks(x) PROVE Known(c)'
    BY <2>1, <2>3, GoAsks DEF Picks
  <2>4. ASSUME NEW x \in Sessions, Turns(x) PROVE Known(c)'
    <3>1. c = x /\ snap[x].phase /= "new"
      BY <2>1, <2>4, <1>0 DEF Turns, Wrapped, SessionsAreKnown
    <3> QED
      BY <3>1, <1>1 DEF Known
  <2> QED
    BY <2>1, <2>2, <2>3, <2>4, <1>0, BarShows, BarStands DEF LetsGo, StaysOn, Saves, Offers
<1>h. \A c : c = disk'.handled /\ c /= None => Known(c)'
  <2>1. SUFFICES ASSUME NEW c, c = disk'.handled, c /= None PROVE Known(c)'
    OBVIOUS
  <2>2. disk'.handled \in {disk.handled, tab.cur, None}
    BY <1>0, BarShows, BarStands DEF LetsGo, StaysOn, Saves, Offers, Picks, Turns
  <2> QED
    BY <2>1, <2>2, <1>2, <1>3, <1>4
<1>5. agent'.at = "cleanup" => snap'[agent'.ev.id].phase /= "new"
  <2>1. SUFFICES ASSUME agent'.at = "cleanup" PROVE snap'[agent'.ev.id].phase /= "new"
    OBVIOUS
  <2>2. CASE agent' = agent
    <3>1. agent.ev.id \in Sessions /\ snap[agent.ev.id].phase /= "new"
      BY <2>1, <2>2, <1>0, HandledFields DEF AgentHasEvent, SessionsAreKnown
    <3> QED
      BY <3>1, <2>2, <1>1
  <2>3. CASE Reply
    <3>1. agent'.ev = agent.ev
      <4>1. agent.carbonize
        BY <2>1, <2>3 DEF Reply, Resting
      <4>2. agent' = [agent EXCEPT !.at = "cleanup", !.answer = "complete"]
        BY <4>1, <2>3 DEF Reply
      <4> QED
        BY <4>2, <1>0, QuietTypes, TypeParts DEF AgentTyped
    <3> QED
      BY <3>1, <2>3, <1>0, ReplyTells
  <2>4. ~Deliver
    <3>1. Deliver => \/ agent' = [Resting EXCEPT !.at = "off"]
                     \/ \E e, n : agent' = [Resting EXCEPT !.at = "work", !.ev = e, !.stops = n]
      BY DEF Deliver
    <3> QED
      BY <3>1, <2>1 DEF Resting
  <2>5. ~(Generate \/ Apply \/ LiveComplete)
    BY <2>1, <1>0, AgentMoves
  <2> QED
    BY <2>2, <2>3, <2>4, <2>5, <1>0, QuietSteps, PageFrame DEF Receive, vars
<1>6. ASSUME NEW s \in Sessions, src'[s] /= "none" PROVE snap'[s].phase /= "new"
  <2>1. CASE src[s] /= "none"
    BY <2>1, <1>0, <1>1 DEF SessionsAreKnown
  <2>2. CASE src[s] = "none"
    <3>1. Generate \/ Apply
      BY <2>2, <1>0, <1>6, QuietTypes, SourceMoves
    <3>2. agent.at = "work" /\ agent.ev.id = s
      BY <3>1, <2>2, <1>0, <1>6, QuietTypes, GenerateFacts, ApplyFacts
    <3>3. 1 \in DOMAIN queue /\ queue[1].id = s
      BY <3>2, <1>0, AgentsEventQueued DEF Busy, SameEvent
    <3>4. snap[s].phase /= "new"
      BY <3>3, <1>0, Constants DEF JournalKnows
    <3> QED
      BY <3>4, <1>1
  <2> QED
    BY <2>1, <2>2
<1>7. /\ tab'.cur /= None => Known(tab.cur)'
      /\ disk'.handled /= None => Known(disk.handled)'
  BY <1>c, <1>h DEF Known
<1> QED
  BY <1>5, <1>6, <1>7 DEF SessionsAreKnown

LEMMA WatchedKept ==
  ASSUME ServedStep
  PROVE  BarIsWatched'
<1>0. QuietStep /\ BarIsWatched
  BY DEF ServedStep, Served
<1> QED
  BY <1>0, BarShows, BarStands DEF BarIsWatched, LetsGo, StaysOn, Saves, Offers, Picks, Turns

(* What the bar offers is its own session, and in the source.              *)
LEMMA OfferedIsShown ==
  ASSUME ServedStep, NEW x \in Sessions, Offers(x), tab.cur /= None
  PROVE  x = tab.cur
BY DEF ServedStep, QuietStep, Quiet, BarIsOfTheSource, Served, BarIsWatched, Offers

LEMMA OffersKept ==
  ASSUME ServedStep
  PROVE  OffersExist'
<1>0. QuietStep /\ OffersExist /\ tab.cur \in Ids
  BY QuietTypes DEF ServedStep, Served
<1> SUFFICES ASSUME tab'.cur /= None, tab'.arrived = N
             PROVE  src'[tab'.cur] \in {"full", "kept", "restored"}
  BY DEF OffersExist
<1>1. CASE PageStep
  <2>1. src' = src
    BY <1>0, <1>1, WorldStands
  <2>2. CASE StaysOn \/ Saves
    BY <2>1, <2>2, <1>0 DEF StaysOn, Saves, OffersExist
  <2>3. ASSUME NEW x \in Sessions, Offers(x) PROVE src'[tab'.cur] = "full"
    BY <2>1, <2>3, OfferedIsShown DEF Offers
  <2>4. ASSUME NEW x \in Sessions, Picks(x) PROVE FALSE
    BY <2>4, Constants DEF Picks
  <2>5. ASSUME NEW x \in Sessions, Turns(x) PROVE src'[tab'.cur] = "full"
    BY <2>1, <2>5, Constants DEF Turns, Arrived
  <2> QED
    BY <2>2, <2>3, <2>4, <2>5, <1>0, <1>1, BarShows DEF LetsGo
<1>2. CASE ~PageStep
  <2>1. tab' = tab /\ tab.cur \in Sessions
    BY <1>0, <1>2, BarStands DEF Ids
  <2>2. src[tab.cur] \in {"full", "kept", "restored"}
    BY <2>1, <1>0 DEF OffersExist
  <2> QED
    BY <2>1, <2>2, <1>0, QuietTypes, SourceMoves
<1> QED
  BY <1>1, <1>2

LEMMA EarlyKept ==
  ASSUME ServedStep
  PROVE  EarlyOffers'
<1>0. QuietStep /\ EarlyOffers
  BY DEF ServedStep, Served
<1>1. observing'.scout => observing.scout
  BY <1>0, ScoutMoves
<1>2. CASE StaysOn
  BY <1>0, <1>1, <1>2 DEF StaysOn, EarlyOffers, NoAccept
<1>3. CASE LetsGo \/ Saves \/ \E x \in Sessions : Picks(x) \/ Turns(x) \/ Offers(x)
  BY <1>0, <1>1, <1>3 DEF LetsGo, Saves, Picks, Turns, Offers, EarlyOffers, NoAccept
<1>4. CASE ~PageStep
  BY <1>0, <1>4, BarStands DEF EarlyOffers
<1> QED
  BY <1>0, <1>2, <1>3, <1>4, BarShows

LEMMA NotResumedKept ==
  ASSUME ServedStep
  PROVE  DiscardsAreNotResumed'
<1>0. /\ QuietStep /\ DiscardsAreNotResumed /\ EarlyOffers /\ BarIsOfTheSource /\ ViewIsOfTheSource
      /\ "discard" \in Asks
  BY QuietTypes DEF ServedStep, QuietStep, Quiet, Served, Asks
<1> SUFFICES ASSUME observing'.scout, NEW s \in Sessions, ~Decided(s)', Wanted("discard", s)'
             PROVE  dom'[s] = "full"
  BY DEF DiscardsAreNotResumed
<1>1. observing.scout /\ ~Decided(s) /\ s /= None
  BY <1>0, ScoutMoves, DecidedMoves, Constants
<1>2. dom[s] = "full"
  <2>1. CASE Wanted("discard", s)
    BY <2>1, <1>0, <1>1 DEF DiscardsAreNotResumed
  <2>2. CASE Presses("discard", s)
    <3>1. s = tab.cur /\ tab.st = "CYCLING"
      BY <2>2 DEF Presses, Discard
    <3> QED
      BY <3>1, <1>0, <1>1 DEF EarlyOffers, BarIsOfTheSource
  <2> QED
    BY <2>1, <2>2, <1>0, WantedMoves
<1>3. src[s] = "full"
  BY <1>0, <1>1, <1>2 DEF ViewIsOfTheSource, Decided
<1> QED
  BY <1>0, <1>2, <1>3, QuietTypes, ViewMoves

LEMMA AnsweredKept ==
  ASSUME ServedStep
  PROVE  DiscardsAreAnswered'
<1>0. /\ QuietStep /\ DiscardsAreAnswered /\ OffersExist /\ tab.cur \in Ids /\ tab'.cur \in Ids
      /\ src \in [Sessions -> Views] /\ "discard" \in Asks
  <2>1. tab'.cur \in Ids
    BY DEF ServedStep, QuietStep, Sound, TypeOK
  <2> QED
    BY <2>1, QuietTypes DEF ServedStep, Served, Asks
<1> SUFFICES ASSUME NEW c \in Sessions, c = tab'.cur
             PROVE  /\ InQueue("discard", c)' => DiscardAnswered(c)'
                    /\ tab'.arrived = N /\ src'[c] = "restored" => DiscardAnswered(c)'
  BY <1>0 DEF DiscardsAreAnswered, Ids, InQueue, DiscardAnswered
<1>1. c /= None /\ (DiscardAnswered(c) => DiscardAnswered(c)')
  BY <1>0, Constants, AnswerStays
<1>2. InQueue("discard", c) => DiscardAnswered(c)'
  <2>1. SUFFICES ASSUME InQueue("discard", c), c /= tab.cur PROVE FALSE
    BY <1>0, <1>1 DEF DiscardsAreAnswered
  <2>2. ASSUME NEW x \in Sessions, Picks(x) PROVE FALSE
    BY <2>1, <2>2, <1>0, PickedIsNew DEF Picks, Wanted
  <2>3. ASSUME NEW x \in Sessions, Turns(x) PROVE FALSE
    BY <2>1, <2>3, TurnedIsFree DEF Turns, Wanted
  <2> QED
    BY <2>1, <2>2, <2>3, <1>0, <1>1, BarShows, BarStands DEF LetsGo, StaysOn, Saves, Offers
<1>3. ASSUME InQueue("discard", c)' PROVE DiscardAnswered(c)'
  BY <1>0, <1>2, <1>3, InQueueMoves, ReceivedIsAnswered
<1>4. ASSUME tab'.arrived = N, src'[c] = "restored" PROVE DiscardAnswered(c)'
  <2>1. CASE tab.cur = c /\ tab.arrived = N /\ src[c] = "restored"
    BY <2>1, <1>0, <1>1 DEF DiscardsAreAnswered
  <2>2. CASE PageStep
    <3>1. src' = src
      BY <1>0, <2>2, WorldStands
    <3>2. ASSUME NEW x \in Sessions, Offers(x) PROVE FALSE
      BY <3>1, <3>2, <1>1, <1>4, OfferedIsShown DEF Offers
    <3>3. ASSUME NEW x \in Sessions, Picks(x) \/ Turns(x) PROVE FALSE
      BY <3>1, <3>3, <1>4, Constants DEF Picks, Turns, Arrived
    <3> QED
      BY <3>1, <3>2, <3>3, <2>1, <2>2, <1>0, <1>1, <1>4, BarShows DEF LetsGo, StaysOn, Saves
  <2>3. CASE ~PageStep /\ src[c] /= "restored"
    <3>1. tab' = tab
      BY <1>0, <2>3, BarStands
    <3>2. src[c] = "full"
      BY <3>1, <2>3, <1>0, <1>1, <1>4, DecidedMoves DEF OffersExist, Decided
    <3>3. Generate \/ Apply
      BY <3>2, <1>0, <1>4, QuietTypes, SourceMoves
    <3>4. ~Generate
      BY <3>2, <1>0, <1>4, QuietTypes, GenerateFacts
    <3>5. agent.ev.id = c /\ agent.ev.type = "discard" /\ agent.at = "work"
      BY <3>2, <3>3, <3>4, <1>0, <1>4, QuietTypes, ApplyFacts
    <3>6. InQueue("discard", c)
      BY <3>5, <1>0, AgentsEventQueued DEF InQueue, Busy, SameEvent
    <3> QED
      BY <3>6, <1>2
  <2>4. CASE ~PageStep /\ src[c] = "restored"
    BY <2>1, <2>4, <1>0, <1>4, BarStands
  <2> QED
    BY <2>2, <2>3, <2>4
<1> QED
  BY <1>3, <1>4

LEMMA WrapKept ==
  ASSUME ServedStep
  PROVE  WrapIsWorkedOn'
<1>0. QuietStep /\ WrapIsWorkedOn /\ src \in [Sessions -> Views]
  BY QuietTypes DEF ServedStep, Served
<1> SUFFICES ASSUME NEW s \in Sessions, src'[s] = "wrap"
             PROVE  agent'.at = "work" /\ agent'.ev.id = s /\ agent'.ev.type = "generate"
  BY DEF WrapIsWorkedOn
<1>1. CASE Generate
  <2>1. agent.ev.id = s \/ src[s] = "wrap"
    BY <1>0, <1>1, QuietTypes, GenerateFacts
  <2>2. agent.ev.id = s /\ agent.at = "work" /\ agent.ev.type = "generate"
    BY <2>1, <1>0, <1>1 DEF WrapIsWorkedOn, Generate
  <2>3. agent' = agent
    BY <2>2, <1>0, <1>1 DEF Generate
  <2> QED
    BY <2>2, <2>3
<1>2. CASE ~Generate
  <2>1. src[s] = "wrap"
    BY <1>0, <1>2, QuietTypes, SourceMoves, ApplyFacts
  <2>2. agent.ev.id = s /\ agent.at = "work" /\ agent.ev.type = "generate"
    BY <2>1, <1>0 DEF WrapIsWorkedOn
  <2>3. ~Apply /\ ~Deliver /\ ~Reply /\ ~LiveComplete
    BY <2>2 DEF Apply, Deliver, Reply, LiveComplete
  <2>4. agent' = agent
    BY <2>3, <1>0, <1>2, QuietSteps, PageFrame DEF Receive, vars
  <2> QED
    BY <2>2, <2>4
<1> QED
  BY <1>1, <1>2

LEMMA TellKept ==
  ASSUME ServedStep
  PROVE  RepliesTell'
<1>0. /\ QuietStep /\ RepliesTell /\ src \in [Sessions -> Views] /\ AgentHasEvent
      /\ "fallback" \notin Results /\ TypeOK
      /\ agent \in [at : {"idle", "off", "work", "reply", "cleanup"}, ev : Handled \union {NoEvent},
                    answer : Replies \union {"none"}, carbonize : BOOLEAN, stops : Nat]
  BY QuietTypes, TypeParts DEF ServedStep, Served, AgentTyped
<1> SUFFICES ASSUME agent'.at = "reply" PROVE RepliesTell'
  BY DEF RepliesTell
<1>1. CASE Generate
  <2>1. agent'.ev = agent.ev /\ agent.ev.type = "generate" /\ agent.ev.id \in Sessions
    BY <1>0, <1>1, AgentMoves, GenerateFacts
  <2>2. src'[agent.ev.id] \notin {"none", "wrap"}
    <3>1. agent.at = "work"
      BY <1>1 DEF Generate
    <3> QED
      BY <3>1, <2>1, <1>0, <1>1 DEF Generate
  <2> QED
    BY <2>1, <2>2 DEF RepliesTell
<1>2. CASE Apply
  <2>1. agent'.ev = agent.ev /\ agent.ev.type \in {"accept", "discard"}
    BY <1>0, <1>2, AgentMoves DEF Apply
  <2>2. SUFFICES ASSUME agent.ev.type = "accept", src'[agent.ev.id] = "full" PROVE agent'.answer = "error"
    BY <2>1 DEF RepliesTell
  <2>3. PICK result \in Results \union {"missing"} :
          /\ (result = "missing") <=> ~(src[agent.ev.id] = "full")
          /\ Replying(Outcome("accept", result), result = "carbonize")
          /\ src' = [src EXCEPT ![agent.ev.id] = IF result \notin {"plain", "carbonize"} THEN @ ELSE "kept"]
    BY <2>2, <1>2 DEF Apply
  <2>4. agent.ev.id \in Sessions
    BY <1>0, <1>2, ApplyFacts
  <2>5. result \notin {"plain", "carbonize"} /\ result /= "missing"
    BY <2>2, <2>3, <2>4, <1>0
  <2>6. result = "failed"
    BY <2>5, <1>0, LiveAssumption
  <2>7. Outcome("accept", result) = "error"
    BY <2>6 DEF Outcome, CompletionType
  <2> QED
    BY <2>3, <2>7, <1>0 DEF Replying
<1>3. CASE ~Generate /\ ~Apply
  <2>1. src' = src
    BY <1>0, <1>3, SourceMoves, QuietTypes, PageFrame, QuietSteps DEF Deliver, Reply, LiveComplete, Receive, worldVars, vars
  <2>2. ~Deliver
    <3>1. Deliver => \/ agent' = [Resting EXCEPT !.at = "off"]
                     \/ \E e, n : agent' = [Resting EXCEPT !.at = "work", !.ev = e, !.stops = n]
      BY DEF Deliver
    <3> QED
      BY <3>1 DEF Resting
  <2>3. ~Reply /\ ~LiveComplete
    BY <1>0, AgentMoves
  <2>4. agent' = agent
    BY <2>2, <2>3, <1>0, <1>3, QuietSteps, PageFrame DEF Receive, vars
  <2> QED
    BY <2>1, <2>4, <1>0 DEF RepliesTell
<1> QED
  BY <1>1, <1>2, <1>3

(* What a bar waits for stays on its way until the page is told of its end. *)
LEMMA VariantsKeepComing ==
  ASSUME ServedStep, NEW s \in Sessions, VariantsComeTo(s), ~Wanted("accept", s), ~Wanted("discard", s),
         ~(Message /\ 1 \in DOMAIN sse /\ sse[1].type = "error" /\ sse[1].id = s)
  PROVE  VariantsComeTo(s)'
<1>0. /\ QuietStep /\ RepliesTell /\ AnswerIsOfTheSource /\ TypeOK /\ AgentHasEvent
      /\ src \in [Sessions -> Views] /\ "generate" \in Asks
      /\ agent \in [at : {"idle", "off", "work", "reply", "cleanup"}, ev : Handled \union {NoEvent},
                    answer : Replies \union {"none"}, carbonize : BOOLEAN, stops : Nat]
  BY QuietTypes, TypeParts DEF ServedStep, QuietStep, Quiet, Served, Asks, AgentTyped
<1>1. Apply => agent.ev.id /= s
  <2>1. SUFFICES ASSUME Apply, agent.ev.id = s PROVE FALSE
    OBVIOUS
  <2>2. agent.ev.type \in {"accept", "discard"} /\ Busy
    BY <2>1 DEF Apply, Busy
  <2>3. InQueue(agent.ev.type, s)
    BY <2>1, <2>2, <1>0, AgentsEventQueued DEF InQueue, SameEvent
  <2> QED
    BY <2>2, <2>3 DEF Wanted
<1>2. src'[s] = src[s] \/ (Generate /\ agent.ev.id = s)
  BY <1>0, <1>1, QuietTypes, SourceMoves, ApplyFacts, GenerateFacts
<1>3. CASE src[s] \in {"none", "wrap"} /\ Wanted("generate", s)
  <2>1. Wanted("generate", s)'
    BY <1>0, <1>3, WantedStays DEF RepliesTell, AnswerIsOfTheSource, Reply, LiveComplete
  <2>2. \/ src'[s] \in {"none", "wrap", "full"}
        \/ src'[s] = "restored" /\ agent' = [agent EXCEPT !.at = "reply", !.answer = "error", !.carbonize = FALSE]
           /\ agent.ev.id = s
    BY <1>0, <1>2, <1>3, GenerateFacts
  <2> QED
    BY <2>1, <2>2, <1>0 DEF VariantsComeTo
<1>4. CASE src[s] = "full"
  <2>1. src'[s] = "full"
    BY <1>0, <1>2, <1>4, GenerateFacts
  <2> QED
    BY <2>1 DEF VariantsComeTo
<1>5. CASE src[s] = "restored"
  <2>1. src'[s] = "restored"
    BY <1>5, <1>0, QuietTypes, SourceMoves
  <2>2. CASE Told("error", s)
    BY <2>1, <2>2, <1>0, ToldStays DEF VariantsComeTo
  <2>3. CASE agent.at = "reply" /\ agent.answer = "error" /\ agent.ev.id = s
    <3>1. CASE Reply
      BY <3>1, <2>1, <2>3, <1>0, ReplyTells DEF VariantsComeTo
    <3>2. CASE ~Reply
      <4>1. agent' = agent
        BY <3>2, <2>3, <1>0, QuietSteps, PageFrame DEF Receive, Deliver, Generate, Apply, LiveComplete, vars
      <4> QED
        BY <4>1, <2>1, <2>3 DEF VariantsComeTo
    <3> QED
      BY <3>1, <3>2
  <2> QED
    BY <2>2, <2>3, <1>5 DEF VariantsComeTo
<1> QED
  BY <1>3, <1>4, <1>5 DEF VariantsComeTo

LEMMA GeneratingKept ==
  ASSUME ServedStep
  PROVE  GeneratingIsServed'
<1>0. /\ QuietStep /\ GeneratingIsServed /\ SessionsAreKnown /\ BarIsWatched /\ WrapIsWorkedOn
      /\ src \in [Sessions -> Views] /\ dom \in [Sessions -> Views] /\ "accept" \in Asks /\ "discard" \in Asks
      /\ 0 /= N
  BY QuietTypes, Constants DEF ServedStep, Served, Asks
<1> SUFFICES ASSUME tab'.st = "GENERATING", NEW c, c = tab'.cur
             PROVE  /\ c \in Sessions /\ tab'.arrived = 0 /\ dom'[c] /= "full" /\ disk'.handled /= c
                    /\ ~Wanted("accept", c)' /\ ~Wanted("discard", c)' /\ VariantsComeTo(c)'
  BY DEF GeneratingIsServed, Wanted, InQueue, VariantsComeTo, Told
<1>1. ASSUME NEW x \in Sessions, Picks(x)
      PROVE  /\ c \in Sessions /\ tab'.arrived = 0 /\ dom'[c] /= "full" /\ disk'.handled /= c
             /\ ~Wanted("accept", c)' /\ ~Wanted("discard", c)' /\ VariantsComeTo(c)'
  <2>1. c = x /\ Go(x) /\ tab'.arrived = 0 /\ dom' = dom /\ disk'.handled = disk.handled /\ tab.cur /= x
    BY <1>1 DEF Picks, Go
  <2>2. src[x] = "none" /\ dom[x] /= "full" /\ ~Known(x) /\ ~Wanted("accept", x) /\ ~Wanted("discard", x)
    BY <2>1, <1>0, PickedIsNew
  <2>3. disk.handled /= x
    BY <2>2, <1>0, Constants DEF SessionsAreKnown
  <2>4. ~Wanted("accept", x)' /\ ~Wanted("discard", x)'
    BY <2>1, <2>2, <1>0, WantedMoves DEF Presses
  <2>5. src' = src /\ Wanted("generate", x)'
    BY <2>1, <1>0, WorldStands, GoAsks DEF PageStep
  <2> QED
    BY <2>1, <2>2, <2>3, <2>4, <2>5 DEF VariantsComeTo
<1>2. ASSUME NEW x \in Sessions, Turns(x), PageStep
      PROVE  /\ c \in Sessions /\ tab'.arrived = 0 /\ dom'[c] /= "full" /\ disk'.handled /= c
             /\ ~Wanted("accept", c)' /\ ~Wanted("discard", c)' /\ VariantsComeTo(c)'
  <2>1. c = x /\ src[x] = "wrap" /\ dom[x] /= src[x] /\ dom' = [dom EXCEPT ![x] = src[x]] /\ disk'.handled /= x
        /\ tab'.arrived = 0
    BY <1>2 DEF Turns, Wrapped, Arrived
  <2>2. dom'[x] = "wrap"
    BY <2>1, <1>0
  <2>3. ~Wanted("accept", x)' /\ ~Wanted("discard", x)'
    <3>1. ~Wanted("accept", x) /\ ~Wanted("discard", x)
      BY <1>2, TurnedIsFree
    <3>2. ~Accept /\ ~Discard
      BY <2>1, <2>2 DEF Accept, Discard, worldVars
    <3> QED
      BY <3>1, <3>2, <1>0, WantedMoves DEF Presses
  <2>4. Wanted("generate", x)'
    <3>1. agent.at = "work" /\ agent.ev.id = x /\ agent.ev.type = "generate"
      BY <2>1, <1>0 DEF WrapIsWorkedOn
    <3>2. 1 \in DOMAIN queue /\ queue[1].id = x /\ queue[1].type = "generate"
      BY <3>1, <1>0, AgentsEventQueued DEF Busy, SameEvent
    <3>3. queue' = queue
      BY <1>0, <1>2, WorldStands
    <3> QED
      BY <3>2, <3>3 DEF Wanted, InQueue
  <2>5. src' = src
    BY <1>0, <1>2, WorldStands
  <2> QED
    BY <2>1, <2>2, <2>3, <2>4, <2>5 DEF VariantsComeTo
<1>3. ASSUME tab.st = "GENERATING", tab.cur = c, tab'.arrived = tab.arrived, disk'.handled = disk.handled,
             dom' = dom \/ \E x \in Sessions : Unseen(x),
             ~(Message /\ 1 \in DOMAIN sse /\ sse[1].type = "error" /\ sse[1].id = c)
      PROVE  /\ c \in Sessions /\ tab'.arrived = 0 /\ dom'[c] /= "full" /\ disk'.handled /= c
             /\ ~Wanted("accept", c)' /\ ~Wanted("discard", c)' /\ VariantsComeTo(c)'
  <2>1. /\ c \in Sessions /\ tab.arrived = 0 /\ dom[c] /= "full" /\ disk.handled /= c
        /\ ~Wanted("accept", c) /\ ~Wanted("discard", c) /\ VariantsComeTo(c)
    BY <1>0, <1>3 DEF GeneratingIsServed
  <2>2. observing.variants = c
    BY <2>1, <1>0, <1>3, Constants DEF BarIsWatched
  <2>3. dom'[c] /= "full"
    BY <2>1, <2>2, <1>0, <1>3 DEF Unseen
  <2>4. ~Wanted("accept", c)' /\ ~Wanted("discard", c)'
    BY <2>1, <1>0, <1>3, WantedMoves DEF Presses, Accept, Discard
  <2> QED
    BY <2>1, <2>3, <2>4, <1>3, VariantsKeepComing
<1>4. ASSUME Message, 1 \in DOMAIN sse, sse[1].type = "error" PROVE FALSE
  <2>1. tab \in Tabs /\ sse /= <<>> /\ Head(sse) = sse[1]
    BY <1>0, <1>4, QuietTypes, StreamTail DEF Message
  <2>2. OnError(sse[1])
    BY <2>1, <1>4 DEF Message
  <2>3. tab'.st \in {"CYCLING", "PICKING"}
    BY <2>1, <2>2 DEF OnError, Tabs
  <2> QED
    BY <2>3
<1>5. CASE PageStep
  BY <1>0, <1>1, <1>2, <1>3, <1>4, <1>5, BarShows DEF LetsGo, StaysOn, Saves, Offers
<1>6. CASE ~PageStep
  BY <1>0, <1>3, <1>4, <1>6, BarStands
<1> QED
  BY <1>5, <1>6

LEMMA EndKeepsComing ==
  ASSUME ServedStep, NEW s \in Sessions, src[s] \in {"full", "kept", "restored"},
         src[s] = "full" => Wanted("accept", s) \/ Told("error", s),
         src[s] = "kept" => KeepingIsTold(s),
         ~(Message /\ 1 \in DOMAIN sse /\ sse[1].type \in {"error", "complete"} /\ sse[1].id = s)
  PROVE  /\ src'[s] = "full" => Wanted("accept", s)' \/ Told("error", s)'
         /\ src'[s] = "kept" => KeepingIsTold(s)'
<1>0. /\ QuietStep /\ RepliesTell /\ AnswerIsOfTheSource /\ SessionsAreKnown /\ TypeOK /\ AgentHasEvent
      /\ src \in [Sessions -> Views] /\ "accept" \in Asks
      /\ agent \in [at : {"idle", "off", "work", "reply", "cleanup"}, ev : Handled \union {NoEvent},
                    answer : Replies \union {"none"}, carbonize : BOOLEAN, stops : Nat]
  BY QuietTypes, TypeParts DEF ServedStep, QuietStep, Quiet, Served, Asks, AgentTyped
<1>1. ASSUME src'[s] = "full" PROVE Wanted("accept", s)' \/ Told("error", s)'
  <2>1. src[s] = "full"
    BY <1>0, <1>1, DecidedMoves DEF Decided
  <2>2. CASE Told("error", s)
    BY <2>2, <1>0, ToldStays
  <2>3. CASE Wanted("accept", s)
    <3>1. CASE Reply /\ agent.ev.id = s /\ agent.ev.type = "accept"
      <4>1. agent.answer = "error"
        BY <3>1, <2>1, <1>0 DEF RepliesTell, Reply
      <4> QED
        BY <4>1, <3>1, <1>0, ReplyTells
    <3>2. ~(LiveComplete /\ agent.ev.id = s)
      BY <2>1, <1>0 DEF LiveComplete, AnswerIsOfTheSource
    <3> QED
      BY <3>1, <3>2, <2>3, <1>0, WantedStays
  <2> QED
    BY <2>1, <2>2, <2>3
<1>2. ASSUME src'[s] = "kept", src[s] /= "kept" PROVE KeepingIsTold(s)'
  <2>1. Apply /\ agent.ev.id = s
    BY <1>0, <1>2, DecidedMoves
  <2>2. \/ agent' = [agent EXCEPT !.at = "reply", !.answer = "complete", !.carbonize = FALSE]
        \/ agent' = [agent EXCEPT !.at = "reply", !.answer = "agent_done", !.carbonize = TRUE]
    BY <2>1, <1>0, <1>2, ApplyFacts
  <2>3. agent'.at = "reply" /\ agent'.ev.id = s /\ (agent'.answer = "complete" \/ agent'.carbonize)
    BY <2>1, <2>2, <1>0
  <2> QED
    BY <2>3 DEF KeepingIsTold
<1>3. ASSUME src[s] = "kept" PROVE KeepingIsTold(s)'
  <2>1. CASE Told("complete", s)
    BY <2>1, <1>0, ToldStays DEF KeepingIsTold
  <2>2. CASE agent' = agent /\ agent.at \in {"reply", "cleanup"}
    BY <2>2, <1>3 , <2>1 DEF KeepingIsTold
  <2>3. CASE agent.at = "reply" /\ agent.ev.id = s /\ (agent.answer = "complete" \/ agent.carbonize)
    <3>1. CASE Reply /\ agent.answer = "complete"
      BY <3>1, <2>3, <1>0, ReplyTells DEF KeepingIsTold
    <3>2. CASE Reply /\ agent.carbonize
      <4>1. agent' = [agent EXCEPT !.at = "cleanup", !.answer = "complete"]
        BY <3>2 DEF Reply
      <4>2. agent'.at = "cleanup" /\ agent'.ev.id = s
        BY <4>1, <2>3, <1>0
      <4> QED
        BY <4>2 DEF KeepingIsTold
    <3>3. CASE ~Reply
      <4>1. agent' = agent
        BY <3>3, <2>3, <1>0, QuietSteps, PageFrame DEF Receive, Deliver, Generate, Apply, LiveComplete, vars
      <4> QED
        BY <4>1, <2>2, <2>3
    <3> QED
      BY <3>1, <3>2, <3>3, <2>3
  <2>4. CASE agent.at = "cleanup" /\ agent.ev.id = s
    <3>1. CASE LiveComplete
      <4>1. snap[s].phase /= "new"
        BY <2>4, <1>0 DEF SessionsAreKnown
      <4> QED
        BY <4>1, <3>1, <2>4, <1>0, CompleteTells DEF KeepingIsTold
    <3>2. CASE ~LiveComplete
      <4>1. agent' = agent
        BY <3>2, <2>4, <1>0, QuietSteps, PageFrame DEF Receive, Deliver, Generate, Apply, Reply, vars
      <4> QED
        BY <4>1, <2>2, <2>4
    <3> QED
      BY <3>1, <3>2
  <2> QED
    BY <2>1, <2>3, <2>4, <1>3 DEF KeepingIsTold
<1> QED
  BY <1>1, <1>2, <1>3

LEMMA SavingKept ==
  ASSUME ServedStep
  PROVE  SavingIsServed'
<1>0. /\ QuietStep /\ SavingIsServed /\ OffersExist /\ KeptIsAwaited /\ "accept" \in Asks /\ tab \in Tabs
  BY QuietTypes DEF ServedStep, QuietStep, Quiet, Served, Asks
<1> SUFFICES ASSUME tab'.st = "SAVING", NEW c, c = tab'.cur
             PROVE  /\ c \in Sessions /\ tab'.accept.id = c /\ tab'.arrived = N
                    /\ src'[c] = "full" => Wanted("accept", c)' \/ Told("error", c)'
                    /\ src'[c] = "kept" => KeepingIsTold(c)'
  BY DEF SavingIsServed, Wanted, InQueue, Told, KeepingIsTold
<1>1. CASE Saves
  <2>1. c \in Sessions /\ c = tab.cur /\ tab'.accept.id = c /\ tab'.arrived = N /\ tab.accept = NoAccept /\ Accept
    BY <1>1 DEF Saves
  <2>2. src' = src
    BY <2>1 DEF Accept, worldVars
  <2>3. src[c] /= "kept"
    BY <2>1, <1>0, Constants DEF KeptIsAwaited, NoAccept
  <2>4. Wanted("accept", c)'
    <3> DEFINE r == Request("accept", tab.cur, tab.shown)
    <3>1. r \in net' /\ r.type = "accept" /\ r.id = c
      BY <2>1 DEF Accept, Request
    <3> HIDE DEF r
    <3> QED
      BY <3>1 DEF Wanted
  <2> QED
    BY <2>1, <2>2, <2>3, <2>4
<1>2. ASSUME tab.st = "SAVING", tab.cur = c, tab'.arrived = tab.arrived, tab'.accept = tab.accept,
             ~(Message /\ 1 \in DOMAIN sse /\ sse[1].type \in {"error", "complete"} /\ sse[1].id = c)
      PROVE  /\ c \in Sessions /\ tab'.accept.id = c /\ tab'.arrived = N
             /\ src'[c] = "full" => Wanted("accept", c)' \/ Told("error", c)'
             /\ src'[c] = "kept" => KeepingIsTold(c)'
  <2>1. /\ c \in Sessions /\ tab.accept.id = c /\ tab.arrived = N
        /\ src[c] = "full" => Wanted("accept", c) \/ Told("error", c)
        /\ src[c] = "kept" => KeepingIsTold(c)
    BY <1>0, <1>2 DEF SavingIsServed
  <2>2. src[c] \in {"full", "kept", "restored"}
    BY <2>1, <1>0, <1>2, Constants DEF OffersExist
  <2> QED
    BY <2>1, <2>2, <1>2, EndKeepsComing
<1>3. tab.st = "SAVING" => tab.accept.id = tab.cur
  BY <1>0 DEF SavingIsServed
<1>4. ASSUME Message, 1 \in DOMAIN sse, sse[1].type \in {"error", "complete"}, sse[1].id = c,
             tab.st = "SAVING", tab.cur = c
      PROVE  FALSE
  <2>1. sse /= <<>> /\ Head(sse) = sse[1]
    BY <1>0, <1>4, QuietTypes, StreamTail DEF Message
  <2>2. CASE sse[1].type = "error"
    <3>1. OnError(sse[1])
      BY <2>1, <2>2, <1>4 DEF Message
    <3> QED
      BY <3>1, <1>0 DEF OnError, Tabs
  <2>3. CASE sse[1].type = "complete"
    <3>1. OnComplete(sse[1])
      BY <2>1, <2>3, <1>4 DEF Message
    <3>2. tab' = [tab EXCEPT !.st = "CONFIRMED"]
      BY <3>1, <1>3, <1>4 DEF OnComplete
    <3> QED
      BY <3>2, <1>0 DEF Tabs
  <2> QED
    BY <2>2, <2>3, <1>4
<1>5. CASE PageStep /\ StaysOn
  <2>1. tab.st = "SAVING" /\ tab.cur = c /\ tab'.arrived = tab.arrived /\ tab'.accept = tab.accept
    BY <1>3, <1>5 DEF StaysOn
  <2> QED
    BY <2>1, <1>2, <1>4
<1>6. CASE ~PageStep
  BY <1>0, <1>2, <1>4, <1>6, BarStands
<1> QED
  BY <1>0, <1>1, <1>5, <1>6, BarShows DEF LetsGo, Picks, Turns, Offers

LEMMA ServedKept ==
  ASSUME SlowFetch = FALSE, "fallback" \notin Results, LiveInv, NoFault => Served, [Next]_vars
  PROVE  NoFault' => Served'
<1>1. SUFFICES ASSUME NoFault' PROVE Served'
  OBVIOUS
<1>2. LiveInv' /\ count.faults \in Nat /\ (count'.faults = count.faults \/ count'.faults = count.faults + 1)
  BY LiveInvKept, CountMoves, TypeParts DEF LiveInv, Sound, WorldTyped
<1>3. NoFault
  BY <1>1, <1>2 DEF NoFault
<1>4. ServedStep
  BY <1>1, <1>2, <1>3 DEF ServedStep, QuietStep, LiveInv
<1> QED
  BY <1>4, KnownKept, WatchedKept, OffersKept, EarlyKept, NotResumedKept, AnsweredKept, WrapKept, TellKept,
    GeneratingKept, SavingKept DEF Served

(* What a bar waits for is under way. *)
LEMMA ServedFollows ==
  ASSUME LiveInv, NoFault => Served
  PROVE  NoBarWaitsForNothing
<1>1. ASSUME NEW type, NEW s, Wanted(type, s)
      PROVE  (\E r \in net : r.type = type /\ r.id = s) \/ Working(s)
  BY <1>1 DEF Wanted, InQueue, Working
<1>2. ASSUME NoFault, tab.st = "SAVING", NEW c, c = tab.cur
      PROVE  /\ tab.accept.id = c
             /\ \/ \E r \in net : r.type = "accept" /\ r.id = c
                \/ Working(c)
                \/ \E i \in DOMAIN sse : sse[i].id = c /\ sse[i].type /= "agent_done"
                \/ \E a \in answers : a.id = c /\ a.type = "discard"
  <2>1. SavingIsServed /\ OffersExist /\ DiscardsAreAnswered
    BY <1>2 DEF Served
  <2>2. /\ c \in Sessions /\ tab.accept.id = c /\ tab.arrived = N /\ c /= None
        /\ src[c] = "full" => Wanted("accept", c) \/ Told("error", c)
        /\ src[c] = "kept" => KeepingIsTold(c)
    BY <2>1, <1>2, Constants DEF SavingIsServed
  <2>3. CASE src[c] = "full"
    BY <2>2, <2>3, <1>1 DEF Told
  <2>4. CASE src[c] = "kept"
    BY <2>2, <2>4 DEF KeepingIsTold, Told, Working
  <2>5. CASE src[c] = "restored"
    BY <2>1, <2>2, <2>5, <1>2 DEF DiscardsAreAnswered, DiscardAnswered
  <2> QED
    BY <2>1, <2>2, <2>3, <2>4, <2>5, <1>2 DEF OffersExist
<1>3. ASSUME NoFault, tab.st = "GENERATING", NEW c, c = tab.cur
      PROVE  \/ \E r \in net : r.type = "generate" /\ r.id = c
             \/ Working(c)
             \/ \E i \in DOMAIN sse : sse[i].id = c
             \/ dom[c] /= src[c]
  <2>1. dom[c] /= "full" /\ VariantsComeTo(c)
    BY <1>3 DEF Served, GeneratingIsServed
  <2> QED
    BY <2>1, <1>1 DEF VariantsComeTo, Told, Working
<1>4. SavingHasWork
  BY <1>2 DEF SavingHasWork
<1>5. GeneratingHasWork
  BY <1>3 DEF GeneratingHasWork
<1> QED
  BY <1>4, <1>5 DEF NoBarWaitsForNothing

(* Without a fault no bar waits for something that will not come, on a     *)
(* page whose fetches of the source end before the bar turns elsewhere,    *)
(* and for sessions of files that live-accept writes: a request is under   *)
(* way until the source is written, the notice of it until the page is     *)
(* told (live-server.mjs, live-poll.mjs).                                  *)
THEOREM BarsDoNotWait ==
  ASSUME SlowFetch = FALSE, "fallback" \notin Results
  PROVE  Spec => []NoBarWaitsForNothing
<1> DEFINE Inv == LiveInv /\ (NoFault => Served)
<1>1. Init => Inv
  BY InitSound, InitQuiet, InitServed DEF LiveInv
<1>2. Inv /\ [Next]_vars => Inv'
  BY LiveInvKept, ServedKept
<1>3. Inv => NoBarWaitsForNothing
  BY ServedFollows
<1> QED
  BY <1>1, <1>2, <1>3, PTL DEF Spec
=============================================================================
