-------------------------- MODULE ReportDraftProofs --------------------------
(***************************************************************************)
(* Proofs about the report editor, for any number of edits, opinions,      *)
(* presses and events, where nothing slips (Slips = {}):                   *)
(*                                                                         *)
(*   ReportTypes      every variable has its type;                         *)
(*   ReportSound      what was typed is on the screen, in a revision or in *)
(*                    the copy of the browser; unsaved work has its copy;  *)
(*                    a label that says saving has a save to come; without *)
(*                    colleagues there is no conflict: the invariant that  *)
(*                    the run checks;                                      *)
(*   ReportStepsKept  no save replaces a colleague's revision unseen, and  *)
(*                    a freeze is of the screen.                           *)
(*                                                                         *)
(* RInv is the inductive invariant.  Bounded, Placed, Gens and Answers say *)
(* which saves there are and what they expect of the server; Screen,       *)
(* Copied, Worked, Operated and Saving relate the screen, the copy, the    *)
(* operation and the label to them; Alone follows the head while nobody    *)
(* but the analyst has touched the draft.                                  *)
(***************************************************************************)
EXTENDS MCClient, TLAPS
-----------------------------------------------------------------------------
(* The inductive invariant *)
LiveOp(K) == op # Nil /\ op.kind \in K
CopyFits == copy # Nil /\ copy.text = ed.text /\ copy.form = ed.form

\* An operation has the argument its kind takes and the answer it gets.
OpOK == op # Nil =>
  /\ op.ws # Nil => op.ws.ver <= Head_
  /\ op.kind \in {"sign", "freeze"} => op.arg \in Views /\ op.arg.ver \in 1..Head_
  /\ op.kind = "restore" => op.arg \in Restores
  /\ op.kind \in {"file", "changes"} => op.arg \in Outputs
  /\ op.kind = "shared" => op.arg = Nil
  /\ op.step = "ok" /\ op.kind # "file" => op.ws # Nil

\* Versions are of revisions there are, texts of those that can be typed.
Bounded ==
  /\ srv.job # Nil => srv.job.ver \in 1..Head_
  /\ \A f \in srv.frozen : f.ver \in 1..Head_
  /\ ed.ws # Nil => ed.ws.ver <= Head_
  /\ timer # Nil => timer.text \in Texts
  /\ copy # Nil => copy.text \in Texts /\ copy.base <= Head_
  /\ \A i \in 1..Len(chain) : chain[i].text \in Texts /\ chain[i].ver <= Head_
  /\ \A i \in 1..Len(old) : old[i].text \in Texts /\ old[i].ver <= Head_
  /\ OpOK
  /\ load # Nil /\ load.step = "read" => load.ws.ver <= Head_

\* Where the analyst is, saves and operations of this visit are; only the first save is under way.
Placed ==
  /\ IF ed.here THEN old = <<>> ELSE load = Nil /\ chain = <<>> /\ timer = Nil
  /\ load # Nil => timer = Nil /\ chain = <<>> /\ ed.gen = 0
  /\ ed.here /\ load = Nil => ed.ws # Nil
  /\ \A i \in 2..Len(chain) : chain[i].step = "queued"
  /\ \A i \in 2..Len(old) : old[i].step = "queued"
  /\ Locked => Loaded

\* A save of the present generation carries what is on the screen.
Gens ==
  /\ \A i \in 1..Len(chain) : chain[i].gen \in 1..ed.gen /\ (chain[i].gen = ed.gen => chain[i].text = ed.text)
  /\ \A i \in 1..Len(chain), j \in 1..Len(chain) : i < j => chain[i].gen <= chain[j].gen
  /\ timer # Nil => timer.gen = ed.gen /\ timer.text = ed.text /\ ed.gen # 0
  /\ ed.here /\ ~ed.unsaved => \A i \in 1..Len(chain) : chain[i].gen = ed.gen
  /\ ed.here /\ (ed.conflict # 0 \/ ed.unsaved) => ed.gen # 0

\* A save expects no version beyond those the screen has shown; what it was answered with is its revision.
AnswerOK(q) ==
  /\ q.step = "ok" => q.ver # 0 /\ srv.revs[q.ver] = q.text /\ q.ws # Nil /\ q.ws.ver = q.ver
  /\ q.step = "sent" => q.ver <= ed.shown
Answers ==
  /\ chain # <<>> => AnswerOK(chain[1])
  /\ old # <<>> => AnswerOK(old[1])
  /\ chain # <<>> /\ chain[1].step = "conflict" =>
       ed.shown <= chain[1].ver /\ ed.saved <= chain[1].ver /\ ed.conflict <= chain[1].ver
  /\ Loaded => ed.saved <= ed.shown /\ (ed.conflict # 0 => ed.shown <= ed.conflict)
  /\ Loaded /\ ed.gen = 0 /\ copy # Nil => copy.base <= ed.shown
  /\ load # Nil /\ load.step = "read" => copy = Nil \/ copy.base <= load.ws.ver

\* What is not marked unsaved is the saved revision.
Screen == Loaded /\ ~ed.unsaved => ed.text = TextOf(ed.saved)

\* The copy in the browser is of the screen, was found at its opening and is on offer, or was given up.
Copied ==
  /\ ed.offer = Nil \/ (copy # Nil /\ ed.offer = copy)
  /\ Loaded => \/ copy = Nil /\ (DirtyOf(ed) => work = NoWork)
               \/ CopyFits
               \/ ed.gen = 0 /\ ~DirtyOf(ed) /\ copy # Nil /\ ed.offer = copy

\* What was typed is in a revision or in the copy.
Published(t) == \E v \in 1..Head_ : srv.revs[v] = t
Worked ==
  /\ work.text # 0 => Published(work.text) \/ (copy # Nil /\ copy.text = work.text)
  /\ work.form # 0 => copy # Nil /\ copy.form = work.form

\* An operation begins on what it needs, and the lock keeps it so.
Operated ==
  /\ LiveOp({"sign", "freeze", "restore", "changes"}) => ~ed.unsaved
  /\ LiveOp({"sign", "restore", "shared", "changes"}) => copy = Nil \/ CopyFits
  /\ LiveOp({"changes"}) => ed.form = 0
  /\ LiveOp({"freeze"}) /\ op.step = "sent" => ed.form = 0 /\ op.arg.ver \in 1..Head_ /\ ed.text = srv.revs[op.arg.ver]

\* A label that says so has a save of the present generation to come.
Saving == Loaded =>
  /\ ed.state = "DIRTY" => timer # Nil
  /\ ed.state = "SAVING" => timer # Nil \/ (chain # <<>> /\ chain[Len(chain)].gen = ed.gen)

\* With nobody else about, the saves follow each other on the head.
Undisturbed ==
  /\ ed.here /\ (op # Nil => op.kind # "shared")
  /\ ed.state \notin {"CONFLICT", "ERROR"} /\ ed.conflict = 0
  /\ ed.gen = 0 => Head_ = 0 /\ ed.offer = Nil /\ op = Nil /\ ed.pick = Nil /\ (ed.ws # Nil => ed.ws.frozen = {})
  /\ \A i \in 1..Len(chain), j \in 1..Len(chain) : i < j => chain[i].gen < chain[j].gen
  /\ timer # Nil => \A i \in 1..Len(chain) : chain[i].gen < ed.gen
  /\ ~ed.unsaved => chain = <<>> /\ timer = Nil
  /\ chain # <<>> => chain[1].step \in {"queued", "sent", "ok"} /\ (chain[1].step \in {"sent", "ok"} => chain[1].ver = Head_)
  /\ IF op # Nil /\ op.kind \in {"restore", "changes"} /\ op.step = "ok" THEN op.ws.ver = Head_
     ELSE (chain # <<>> /\ chain[1].step = "ok") \/ ed.saved = Head_
  /\ load # Nil => Head_ = 0 /\ copy = Nil /\ (load.step = "read" => load.ws.ver = 0 /\ load.ws.frozen = {})
Alone == count.events = 0 => Undisturbed

\* Operations are left by leaving or a reload, which count as events.
LInv == left \subseteq Orders /\ (left # {} => count.events # 0)

RInv == EditorTypeOK /\ Bounded /\ Placed /\ Gens /\ Answers /\ Screen /\ Copied /\ Worked /\ Operated /\ Saving /\ Alone
-----------------------------------------------------------------------------
(* Sequences *)
LEMMA TailFacts ==
  ASSUME NEW S, NEW q \in Seq(S), q # <<>>
  PROVE  /\ Len(q) \in Nat \ {0} /\ q[1] \in S
         /\ Tail(q) \in Seq(S) /\ Len(Tail(q)) = Len(q) - 1 /\ \A i \in 1..(Len(q) - 1) : Tail(q)[i] = q[i + 1]
         /\ Tail(q) # <<>> => Len(q) > 1
OBVIOUS

LEMMA HeadFacts ==
  ASSUME NEW S, NEW q \in Seq(S), q # <<>>, NEW x \in S, NEW p, p = <<x>> \o Tail(q)
  PROVE  /\ p \in Seq(S) /\ Len(p) = Len(q) /\ p[1] = x /\ \A i \in 2..Len(q) : p[i] = q[i]
         /\ p # <<>>
<1>1. /\ Len(q) \in Nat \ {0} /\ Tail(q) \in Seq(S) /\ Len(Tail(q)) = Len(q) - 1
      /\ \A i \in 1..(Len(q) - 1) : Tail(q)[i] = q[i + 1]
  BY TailFacts
<1> DEFINE r == Tail(q)
<1> HIDE DEF r
<1>2. p = <<x>> \o r /\ r \in Seq(S) /\ <<x>> \in Seq(S)
  BY <1>1 DEF r
<1>3. p \in Seq(S) /\ Len(p) = 1 + Len(r) /\ p[1] = x /\ \A i \in 2..(1 + Len(r)) : p[i] = r[i - 1]
  BY <1>2
<1>4. \A i \in 2..Len(q) : p[i] = q[i]
  <2> TAKE i \in 2..Len(q)
  <2>1. p[i] = r[i - 1]
    BY <1>1, <1>3 DEF r
  <2>2. i - 1 \in 1..(Len(q) - 1) /\ (i - 1) + 1 = i
    BY <1>1
  <2>3. r[i - 1] = q[i]
    BY <1>1, <2>2 DEF r
  <2> QED BY <2>1, <2>3
<1>5. Len(p) = Len(q) /\ p # <<>>
  BY <1>1, <1>3 DEF r
<1> QED BY <1>3, <1>4, <1>5

LEMMA AppendFacts ==
  ASSUME NEW S, NEW q \in Seq(S), NEW x \in S, NEW p, p = Append(q, x)
  PROVE  /\ p \in Seq(S) /\ Len(q) \in Nat /\ Len(p) = Len(q) + 1 /\ p[Len(q) + 1] = x /\ \A i \in 1..Len(q) : p[i] = q[i]
         /\ p # <<>> /\ p[1] = IF q = <<>> THEN x ELSE q[1]
<1>1. /\ p \in Seq(S) /\ Len(q) \in Nat /\ Len(p) = Len(q) + 1 /\ p[Len(q) + 1] = x /\ \A i \in 1..Len(q) : p[i] = q[i]
  OBVIOUS
<1>2. p # <<>>
  BY <1>1
<1>3. CASE q = <<>>
  BY <1>1, <1>2, <1>3
<1>4. CASE q # <<>>
  BY <1>1, <1>2, <1>4
<1> QED BY <1>1, <1>2, <1>3, <1>4
-----------------------------------------------------------------------------
(* The editor's functions *)
LEMMA TextsFacts == 0 \in Texts /\ Texts \subseteq Nat /\ MaxEdits \in Nat /\ MaxEvents \in Nat /\ 0..MaxEdits \subseteq Texts
BY ReportAssumption DEF Texts

LEMMA RetainedFacts ==
  ASSUME NEW e \in Editors, NEW k, k = Retained(e)
  PROVE  /\ k \in Copies \cup {Nil}
         /\ DirtyOf(e) => k # Nil /\ k.text = e.text /\ k.form = e.form /\ k.base = e.saved
         /\ ~DirtyOf(e) => k = Nil
<1>1. CopyOf(e) \in Copies /\ CopyOf(e).text = e.text /\ CopyOf(e).form = e.form /\ CopyOf(e).base = e.saved
  BY DEF CopyOf, Copies, Editors
<1>2. CopyOf(e) # Nil
  BY <1>1, ReportAssumption
<1> HIDE DEF CopyOf
<1> QED BY <1>1, <1>2 DEF Retained

LEMMA RetainedSame ==
  ASSUME NEW e, NEW n, n.text = e.text, n.form = e.form, n.saved = e.saved, n.unsaved = e.unsaved
  PROVE  Retained(n) = Retained(e)
BY DEF Retained, DirtyOf, CopyOf

LEMMA KeepingFacts ==
  ASSUME NEW e \in Editors, NEW n, n = Keeping(e)
  PROVE  /\ n \in Editors /\ n.ws = e.ws /\ n.text = e.text /\ n.saved = e.saved /\ n.shown = e.shown /\ n.unsaved = e.unsaved
         /\ n.gen = e.gen /\ n.state = e.state /\ n.conflict = e.conflict /\ n.form = e.form /\ n.pick = e.pick /\ n.here = e.here
         /\ n.offer = IF e.offer = Nil THEN Nil ELSE Retained(n)
         /\ Retained(n) = Retained(e)
<1> DEFINE k == Retained(e)
<1>1. k \in Copies \cup {Nil}
  BY RetainedFacts
<1>2. n = [e EXCEPT !.offer = IF e.offer = Nil THEN Nil ELSE k]
  BY DEF Keeping
<1> HIDE DEF k
<1>3. /\ n \in Editors /\ n.ws = e.ws /\ n.text = e.text /\ n.saved = e.saved /\ n.shown = e.shown /\ n.unsaved = e.unsaved
      /\ n.gen = e.gen /\ n.state = e.state /\ n.conflict = e.conflict /\ n.form = e.form /\ n.pick = e.pick /\ n.here = e.here
      /\ n.offer = IF e.offer = Nil THEN Nil ELSE k
  BY <1>1, <1>2 DEF Editors
<1>4. Retained(n) = k
  BY <1>3, RetainedSame DEF k
<1> QED BY <1>3, <1>4 DEF k

LEMMA OnlyOne == ASSUME NEW n \in Nat \ {0}, 2 \notin 1..n PROVE n = 1
OBVIOUS

ChangedTo(e, text, n) ==
  /\ n \in Editors /\ n.ws = e.ws /\ n.text = text /\ n.saved = e.saved /\ n.shown = e.shown /\ n.unsaved = TRUE
  /\ n.gen = e.gen + 1 /\ n.state = "DIRTY" /\ n.conflict = 0 /\ n.form = e.form /\ n.pick = Nil /\ n.here = e.here
  /\ n.offer = IF e.offer = Nil THEN Nil ELSE Retained(n)
  /\ Retained(n) \in Copies /\ Retained(n) # Nil
  /\ Retained(n).text = text /\ Retained(n).form = e.form /\ Retained(n).base = e.saved
LEMMA ChangedFacts ==
  ASSUME NEW e \in Editors, NEW text \in Nat
  PROVE  ChangedTo(e, text, Changed(e, text))
<1> DEFINE n == Changed(e, text)
<1> DEFINE d == [e EXCEPT !.text = text, !.pick = Nil, !.conflict = 0, !.gen = @ + 1, !.unsaved = TRUE, !.state = "DIRTY"]
<1>1. /\ d \in Editors /\ d.ws = e.ws /\ d.text = text /\ d.saved = e.saved /\ d.shown = e.shown /\ d.unsaved = TRUE
      /\ d.gen = e.gen + 1 /\ d.state = "DIRTY" /\ d.conflict = 0 /\ d.form = e.form /\ d.pick = Nil /\ d.here = e.here
      /\ d.offer = e.offer
  <2> DEFINE a == [e EXCEPT !.text = text, !.pick = Nil, !.conflict = 0]
             g == e.gen + 1
             b == [a EXCEPT !.gen = g, !.unsaved = TRUE, !.state = "DIRTY"]
  <2>1. /\ a \in Editors /\ a.ws = e.ws /\ a.text = text /\ a.saved = e.saved /\ a.shown = e.shown
        /\ a.gen = e.gen /\ a.conflict = 0 /\ a.form = e.form /\ a.pick = Nil /\ a.here = e.here /\ a.offer = e.offer
    BY DEF Editors
  <2>2. d = b
    BY DEF Editors
  <2>g. g \in Nat
    BY DEF Editors
  <2> HIDE DEF a, d, g
  <2>3. /\ b \in Editors /\ b.ws = a.ws /\ b.text = a.text /\ b.saved = a.saved /\ b.shown = a.shown /\ b.unsaved = TRUE
        /\ b.gen = g /\ b.state = "DIRTY" /\ b.conflict = a.conflict /\ b.form = a.form /\ b.pick = a.pick
        /\ b.here = a.here /\ b.offer = a.offer
    BY <2>1, <2>g DEF Editors
  <2> HIDE DEF b
  <2> QED BY <2>1, <2>2, <2>3 DEF g
<1>2. n = Keeping(d)
  BY DEF Changed
<1> HIDE DEF d, n
<1>3. /\ n \in Editors /\ n.ws = d.ws /\ n.text = d.text /\ n.saved = d.saved /\ n.shown = d.shown /\ n.unsaved = d.unsaved
      /\ n.gen = d.gen /\ n.state = d.state /\ n.conflict = d.conflict /\ n.form = d.form /\ n.pick = d.pick /\ n.here = d.here
      /\ n.offer = IF d.offer = Nil THEN Nil ELSE Retained(n)
  BY <1>1, <1>2, KeepingFacts
<1>4. DirtyOf(n)
  BY <1>1, <1>3 DEF DirtyOf
<1>5. /\ Retained(n) \in Copies \cup {Nil} /\ Retained(n) # Nil
      /\ Retained(n).text = n.text /\ Retained(n).form = n.form /\ Retained(n).base = n.saved
  BY <1>3, <1>4, RetainedFacts
<1> QED BY <1>1, <1>3, <1>5 DEF ChangedTo, n

LEMMA AdoptedFacts ==
  ASSUME ed \in Editors, NEW ws \in Views, TextOf(ws.ver) \in Nat, NEW n, n = Adopted(ws)
  PROVE  /\ n \in Editors /\ n.ws = ws /\ n.text = TextOf(ws.ver) /\ n.saved = ws.ver /\ n.shown = ws.ver /\ n.unsaved = FALSE
         /\ n.gen = ed.gen /\ n.state = "SAVED" /\ n.conflict = 0 /\ n.form = ed.form /\ n.offer = Nil /\ n.pick = Nil /\ n.here = ed.here
<1> DEFINE t == TextOf(ws.ver)
<1>1. t \in Nat /\ n = [ed EXCEPT !.ws = ws, !.text = t, !.saved = ws.ver, !.shown = ws.ver, !.unsaved = FALSE,
     !.conflict = 0, !.pick = Nil, !.state = "SAVED", !.offer = Nil]
  BY DEF Adopted
<1> HIDE DEF t
<1>2. ws.ver \in Nat
  BY DEF Views
<1>3. /\ n \in Editors /\ n.ws = ws /\ n.text = t /\ n.saved = ws.ver /\ n.shown = ws.ver /\ n.unsaved = FALSE
         /\ n.gen = ed.gen /\ n.state = "SAVED" /\ n.conflict = 0 /\ n.form = ed.form /\ n.offer = Nil /\ n.pick = Nil /\ n.here = ed.here
  <2> DEFINE a == [ed EXCEPT !.ws = ws, !.text = t, !.saved = ws.ver, !.shown = ws.ver]
             b == [a EXCEPT !.unsaved = FALSE, !.conflict = 0, !.pick = Nil, !.state = "SAVED", !.offer = Nil]
  <2>1. /\ a \in Editors /\ a.ws = ws /\ a.text = t /\ a.saved = ws.ver /\ a.shown = ws.ver
        /\ a.gen = ed.gen /\ a.form = ed.form /\ a.here = ed.here
    BY <1>1, <1>2 DEF Editors
  <2>2. n = b
    BY <1>1 DEF Editors
  <2> HIDE DEF a
  <2>3. /\ b \in Editors /\ b.ws = a.ws /\ b.text = a.text /\ b.saved = a.saved /\ b.shown = a.shown /\ b.unsaved = FALSE
        /\ b.gen = a.gen /\ b.state = "SAVED" /\ b.conflict = 0 /\ b.form = a.form /\ b.offer = Nil /\ b.pick = Nil /\ b.here = a.here
    BY <2>1 DEF Editors
  <2> HIDE DEF b
  <2> QED BY <2>1, <2>2, <2>3
<1> QED BY <1>3 DEF t

LEMMA SaveLandedFacts ==
  ASSUME NEW e \in Editors, NEW q \in Saves, q.ws \in Views, NEW n, n = SaveLanded(e, q)
  PROVE  /\ n \in Editors /\ n.ws = q.ws /\ n.saved = q.ver /\ n.shown = q.ver /\ n.conflict = 0
         /\ n.gen = e.gen /\ n.form = e.form /\ n.offer = e.offer /\ n.pick = e.pick /\ n.here = e.here
         /\ q.gen = e.gen => n.text = q.text /\ n.unsaved = FALSE /\ n.state = "SAVED"
         /\ q.gen # e.gen => n.text = e.text /\ n.unsaved = e.unsaved /\ n.state = e.state
<1> DEFINE k == [e EXCEPT !.saved = q.ver, !.shown = q.ver, !.ws = q.ws, !.conflict = 0]
<1>1. /\ k \in Editors /\ k.ws = q.ws /\ k.saved = q.ver /\ k.shown = q.ver /\ k.conflict = 0
         /\ k.gen = e.gen /\ k.form = e.form /\ k.offer = e.offer /\ k.pick = e.pick /\ k.here = e.here
         /\ k.text = e.text /\ k.unsaved = e.unsaved /\ k.state = e.state
  BY DEF Editors, Saves
<1>2. n = IF q.gen = e.gen THEN [k EXCEPT !.unsaved = FALSE, !.text = q.text, !.state = "SAVED"] ELSE k
  BY DEF SaveLanded
<1> HIDE DEF k
<1>3. CASE q.gen = e.gen
  <2>1. n = [k EXCEPT !.unsaved = FALSE, !.text = q.text, !.state = "SAVED"]
    BY <1>2, <1>3
  <2>2. q.text \in Nat
    BY DEF Saves
  <2>3. /\ n \in Editors /\ n.ws = k.ws /\ n.saved = k.saved /\ n.shown = k.shown /\ n.conflict = k.conflict
        /\ n.gen = k.gen /\ n.form = k.form /\ n.offer = k.offer /\ n.pick = k.pick /\ n.here = k.here
        /\ n.text = q.text /\ n.unsaved = FALSE /\ n.state = "SAVED"
    BY <1>1, <2>1, <2>2 DEF Editors
  <2> QED BY <1>1, <1>3, <2>3
<1>4. CASE q.gen # e.gen
  BY <1>1, <1>2, <1>4
<1> QED BY <1>3, <1>4
-----------------------------------------------------------------------------
(* What follows from the invariant's types *)
LEMMA Kept ==
  ASSUME EditorTypeOK
  PROVE  /\ srv.revs \in Seq(Texts) /\ Head_ \in Nat /\ srv.signed \in Nat /\ srv.frozen \subseteq Outputs /\ srv.job \in FreezeJobs \cup {Nil}
         /\ ed.text \in Nat /\ ed.saved \in Nat /\ ed.shown \in Nat /\ ed.conflict \in Nat /\ ed.gen \in Nat /\ ed.form \in Nat
         /\ ed.unsaved \in BOOLEAN /\ ed.here \in BOOLEAN
         /\ ed.saved <= Head_ /\ ed.shown <= Head_ /\ ed.conflict <= Head_
         /\ ed.ws \in Views \cup {Nil} /\ (ed.ws # Nil => ed.ws.ver \in Nat)
         /\ ed.offer \in Copies \cup {Nil} /\ ed.pick \in Outputs \cup {Nil}
         /\ timer # Nil => timer.text \in Nat /\ timer.gen \in Nat
         /\ copy # Nil => copy.text \in Nat /\ copy.form \in Nat /\ copy.base \in Nat
<1>1. srv.revs \in Seq(Texts) /\ Head_ \in Nat /\ srv.signed \in Nat /\ srv.frozen \subseteq Outputs /\ srv.job \in FreezeJobs \cup {Nil}
  BY DEF EditorTypeOK, Head_
<1>2. /\ ed.text \in Nat /\ ed.saved \in Nat /\ ed.shown \in Nat /\ ed.conflict \in Nat /\ ed.gen \in Nat /\ ed.form \in Nat
      /\ ed.unsaved \in BOOLEAN /\ ed.here \in BOOLEAN
      /\ ed.ws \in Views \cup {Nil} /\ ed.offer \in Copies \cup {Nil} /\ ed.pick \in Outputs \cup {Nil}
  BY DEF EditorTypeOK, Editors
<1>3. ed.saved <= Head_ /\ ed.shown <= Head_ /\ ed.conflict <= Head_
  BY <1>1 DEF EditorTypeOK
<1>4. ed.ws # Nil => ed.ws.ver \in Nat
  BY <1>2 DEF Views
<1>5. timer # Nil => timer.text \in Nat /\ timer.gen \in Nat
  BY DEF EditorTypeOK, Autosaves
<1>6. copy # Nil => copy.text \in Nat /\ copy.form \in Nat /\ copy.base \in Nat
  BY DEF EditorTypeOK, Copies
<1> QED BY <1>1, <1>2, <1>3, <1>4, <1>5, <1>6

LEMMA SaveTyped ==
  ASSUME NEW c \in Seq(Saves)
  PROVE  /\ Len(c) \in Nat
         /\ \A i \in 1..Len(c) : /\ c[i] \in Saves /\ c[i].text \in Nat /\ c[i].gen \in Nat /\ c[i].ver \in Nat
                                 /\ c[i].step \in {"queued", "sent", "ok", "conflict", "fail"} /\ c[i].ws \in Views \cup {Nil}
         /\ c # <<>> => 1 \in 1..Len(c) /\ c[1] \in Saves
<1>1. Len(c) \in Nat /\ \A i \in 1..Len(c) : c[i] \in Saves
  OBVIOUS
<1>2. c # <<>> => 1 \in 1..Len(c)
  OBVIOUS
<1> QED BY <1>1, <1>2 DEF Saves

LEMMA TextOfTyped ==
  ASSUME EditorTypeOK, NEW v \in Nat, v <= Head_
  PROVE  TextOf(v) \in Texts /\ TextOf(v) \in Nat
<1>1. srv.revs \in Seq(Texts) /\ 0 \in Texts /\ Texts \subseteq Nat
  BY Kept, TextsFacts
<1>2. CASE v = 0
  BY <1>1, <1>2 DEF TextOf
<1>3. CASE v # 0
  <2>1. v \in 1..Len(srv.revs)
    BY <1>3 DEF Head_
  <2>2. srv.revs[v] \in Texts
    BY <1>1, <2>1
  <2> QED BY <1>1, <1>3, <2>2 DEF TextOf
<1> QED BY <1>2, <1>3
-----------------------------------------------------------------------------
(* Steps of the server *)
Counts == [edits : 0..MaxEdits, forms : 0..MaxForms, clicks : 0..MaxClicks, events : 0..MaxEvents]
Grows ==
  /\ srv' \in [revs : Seq(Texts), signed : 0..Head_', job : FreezeJobs \cup {Nil}, frozen : SUBSET Outputs]
  /\ Head_ <= Head_' /\ \A v \in 1..Head_ : srv'.revs[v] = srv.revs[v]
  /\ srv'.job # Nil => srv'.job.ver \in 1..Head_'
  /\ \A f \in srv'.frozen : f.ver \in 1..Head_'
\* An operation goes on, or is over.
GoesOn ==
  /\ op' \in Operations \cup {Nil}
  /\ op' # Nil => /\ op # Nil /\ op'.kind = op.kind /\ op'.arg = op.arg
                  /\ op'.ws # Nil => op'.ws.ver <= Head_'
                  /\ op'.step = "sent" => op.step = "sent"
                  /\ op'.step = "ok" /\ op'.kind # "file" => op'.ws # Nil
\* All but what the analyst has to himself.
RSound == EditorTypeOK /\ Bounded /\ Placed /\ Gens /\ Answers /\ Screen /\ Copied /\ Worked /\ Operated /\ Saving

LEMMA GrowsFacts ==
  ASSUME EditorTypeOK, Grows
  PROVE  /\ Head_ \in Nat /\ Head_' \in Nat /\ Head_ <= Head_'
         /\ \A v \in Nat : v <= Head_ => v <= Head_' /\ TextOf(v)' = TextOf(v) /\ (v # 0 => srv'.revs[v] = srv.revs[v])
         /\ \A t : Published(t) => Published(t)'
<1>1. Head_ \in Nat /\ Head_' \in Nat /\ Head_ <= Head_'
  BY Kept DEF Grows, Head_
<1>2. \A v \in Nat : v <= Head_ /\ v # 0 => srv'.revs[v] = srv.revs[v]
  BY <1>1 DEF Grows
<1>3. \A v \in Nat : v <= Head_ => v <= Head_' /\ TextOf(v)' = TextOf(v) /\ (v # 0 => srv'.revs[v] = srv.revs[v])
  BY <1>1, <1>2 DEF TextOf
<1>4. ASSUME NEW t, Published(t) PROVE Published(t)'
  <2>1. PICK v \in 1..Head_ : srv.revs[v] = t
    BY <1>4 DEF Published
  <2>2. v \in 1..Head_' /\ srv'.revs[v] = t
    BY <1>1, <2>1 DEF Grows
  <2> QED BY <2>2 DEF Published
<1> QED BY <1>1, <1>3, <1>4

LEMMA FlowStep ==
  ASSUME RInv, Grows, GoesOn, UNCHANGED <<ed, timer, load, copy, work>>,
         count' \in Counts, count'.edits = count.edits, count'.forms = count.forms,
         chain' \in Seq(Saves), old' \in Seq(Saves),
         \A i \in 1..Len(chain') : chain'[i].text \in Texts /\ chain'[i].ver <= Head_',
         \A i \in 1..Len(old') : old'[i].text \in Texts /\ old'[i].ver <= Head_',
         Placed', Gens', Answers', Saving'
  PROVE  RSound'
<1> USE DEF RInv
<1>0. /\ Head_ \in Nat /\ Head_' \in Nat /\ Head_ <= Head_'
      /\ \A v \in Nat : v <= Head_ => v <= Head_' /\ TextOf(v)' = TextOf(v) /\ (v # 0 => srv'.revs[v] = srv.revs[v])
      /\ \A t : Published(t) => Published(t)'
  BY GrowsFacts
<1>1. /\ ed.saved \in 0..Head_' /\ ed.shown \in 0..Head_' /\ ed.conflict \in 0..Head_'
      /\ ed.saved \in Nat /\ ed.saved <= Head_
      /\ ed.ws # Nil => ed.ws.ver \in Nat
      /\ copy # Nil => copy.base \in Nat
  BY <1>0, Kept
<1>2. EditorTypeOK'
  BY <1>0, <1>1 DEF EditorTypeOK, Grows, GoesOn, Counts, Texts
<1>4. load # Nil /\ load.step = "read" => load.ws.ver \in Nat
  <2>1. load \in Fetches \cup {Nil}
    BY DEF EditorTypeOK
  <2> QED BY <2>1 DEF Fetches, Views
<1>5. Bounded'
  <2>1. /\ srv'.job # Nil => srv'.job.ver \in 1..Head_'
        /\ \A f \in srv'.frozen : f.ver \in 1..Head_'
    BY DEF Grows
  <2>2. ed'.ws # Nil => ed'.ws.ver <= Head_'
    BY <1>0, <1>1 DEF Bounded
  <2>3. timer' # Nil => timer'.text \in Texts
    BY DEF Bounded
  <2>4. copy' # Nil => copy'.text \in Texts /\ copy'.base <= Head_'
    BY <1>0, <1>1 DEF Bounded
  <2>6. OpOK'
    <3>1. op # Nil /\ op.arg \in Views => op.arg.ver \in Nat
      BY DEF Views
    <3>2. op # Nil /\ op.kind \in {"sign", "freeze"} => op.arg \in Views /\ op.arg.ver \in 1..Head_'
      BY <1>0, <3>1 DEF Bounded, OpOK
    <3> QED BY <3>2 DEF Bounded, OpOK, GoesOn, Restores, Texts
  <2>7. load' # Nil /\ load'.step = "read" => load'.ws.ver <= Head_'
    BY <1>0, <1>4 DEF Bounded
  <2> QED BY <2>1, <2>2, <2>3, <2>4, <2>6, <2>7 DEF Bounded, Texts
<1>6. (Loaded <=> Loaded') /\ (Locked' => Locked)
  BY DEF Loaded, Locked, GoesOn
<1>11. Screen'
  BY <1>0, <1>1, <1>6 DEF Screen
<1>12. Copied'
  BY <1>6 DEF Copied, CopyFits, DirtyOf
<1>13. Worked'
  <2>1. work.text # 0 => Published(work.text)' \/ (copy # Nil /\ copy.text = work.text)
    BY <1>0 DEF Worked
  <2> QED BY <2>1 DEF Worked, Published
<1>14. Operated'
  <2>1. \A K : LiveOp(K)' => LiveOp(K) /\ op'.kind = op.kind /\ op'.arg = op.arg /\ (op'.step = "sent" => op.step = "sent")
    BY DEF LiveOp, GoesOn
  <2>2. /\ LiveOp({"sign", "freeze", "restore", "changes"})' => ~ed.unsaved
        /\ LiveOp({"sign", "restore", "shared", "changes"})' => copy = Nil \/ CopyFits
        /\ LiveOp({"changes"})' => ed.form = 0
    BY <2>1 DEF Operated
  <2>3. LiveOp({"freeze"})' /\ op'.step = "sent" => ed.form = 0 /\ op.arg.ver \in 1..Head_ /\ ed.text = srv.revs[op.arg.ver]
    BY <2>1 DEF Operated
  <2>4. LiveOp({"freeze"})' /\ op'.step = "sent" => ed.form = 0 /\ op'.arg.ver \in 1..Head_' /\ ed.text = srv'.revs[op'.arg.ver]
    BY <2>1, <2>3, <1>0 DEF Grows
  <2> QED BY <2>2, <2>4 DEF Operated, CopyFits, LiveOp
<1> QED BY <1>2, <1>5, <1>11, <1>12, <1>13, <1>14 DEF RSound

LEMMA ServerStep ==
  ASSUME RInv, Grows, GoesOn, UNCHANGED <<ed, timer, chain, old, load, copy, work>>,
         count' \in Counts, count'.edits = count.edits, count'.forms = count.forms
  PROVE  RSound'
<1> USE DEF RInv
<1>0. /\ Head_ \in Nat /\ Head_' \in Nat /\ Head_ <= Head_'
      /\ \A v \in Nat : v <= Head_ => v <= Head_' /\ TextOf(v)' = TextOf(v) /\ (v # 0 => srv'.revs[v] = srv.revs[v])
      /\ \A t : Published(t) => Published(t)'
  BY GrowsFacts
<1>1. ed.saved \in Nat /\ ed.saved <= Head_ /\ chain \in Seq(Saves) /\ old \in Seq(Saves)
  BY Kept DEF EditorTypeOK
<1>3. /\ \A i \in 1..Len(chain) : chain[i].ver \in Nat
      /\ \A i \in 1..Len(old) : old[i].ver \in Nat
      /\ chain # <<>> => 1 \in 1..Len(chain)
      /\ old # <<>> => 1 \in 1..Len(old)
  BY <1>1, SaveTyped
<1>5. /\ \A i \in 1..Len(chain') : chain'[i].text \in Texts /\ chain'[i].ver <= Head_'
      /\ \A i \in 1..Len(old') : old'[i].text \in Texts /\ old'[i].ver <= Head_'
  BY <1>0, <1>3 DEF Bounded
<1>6. (Loaded <=> Loaded') /\ (Locked' => Locked)
  BY DEF Loaded, Locked, GoesOn
<1>7. Placed'
  BY <1>6 DEF Placed
<1>8. Gens'
  BY DEF Gens
<1>9. /\ chain # <<>> => AnswerOK(chain[1])'
      /\ old # <<>> => AnswerOK(old[1])'
  BY <1>0, <1>3 DEF Answers, AnswerOK, Bounded
<1>10. Answers'
  BY <1>6, <1>9 DEF Answers, AnswerOK
<1>15. Saving'
  BY <1>6 DEF Saving
<1> QED BY <1>1, <1>5, <1>7, <1>8, <1>10, <1>15, FlowStep

LEMMA RInvOf ==
  ASSUME RSound', Alone'
  PROVE  RInv'
BY DEF RSound, RInv

\* With somebody else about, the last part says nothing.
LEMMA Disturbed ==
  ASSUME count \in Counts, count.events < MaxEvents, count' = [count EXCEPT !.events = @ + 1]
  PROVE  count' \in Counts /\ count'.edits = count.edits /\ count'.forms = count.forms /\ count'.events # 0 /\ Alone'
<1>1. count' \in Counts /\ count'.edits = count.edits /\ count'.forms = count.forms /\ count'.events # 0
  BY ReportAssumption DEF Counts
<1> QED BY <1>1 DEF Alone

LEMMA AppendedGrows ==
  ASSUME EditorTypeOK, Bounded, NEW t \in Texts, srv' = Appended(t)
  PROVE  Grows /\ Head_' = Head_ + 1 /\ srv'.revs[Head_ + 1] = t /\ srv'.job = srv.job /\ srv'.signed = srv.signed
<1>1. srv \in [revs : Seq(Texts), signed : 0..Head_, job : FreezeJobs \cup {Nil}, frozen : SUBSET Outputs]
  BY DEF EditorTypeOK
<1>2. srv' = [srv EXCEPT !.revs = Append(srv.revs, t)]
  BY DEF Appended
<1> DEFINE p == Append(srv.revs, t)
<1>3. p \in Seq(Texts) /\ Len(srv.revs) \in Nat /\ Len(p) = Len(srv.revs) + 1 /\ p[Len(srv.revs) + 1] = t
      /\ \A i \in 1..Len(srv.revs) : p[i] = srv.revs[i]
  <2>1. srv.revs \in Seq(Texts)
    BY <1>1
  <2> QED BY <2>1, AppendFacts
<1> HIDE DEF p
<1>4. srv'.revs = p /\ srv'.signed = srv.signed /\ srv'.job = srv.job /\ srv'.frozen = srv.frozen
      /\ srv' \in [revs : Seq(Texts), signed : 0..Head_, job : FreezeJobs \cup {Nil}, frozen : SUBSET Outputs]
  BY <1>1, <1>2, <1>3 DEF p
<1>5. Head_' = Head_ + 1 /\ Head_ \in Nat
  BY <1>3, <1>4 DEF Head_
<1>6. Grows
  BY <1>1, <1>3, <1>4, <1>5 DEF Grows, Bounded, Head_
<1> QED BY <1>3, <1>4, <1>5, <1>6 DEF Head_
-----------------------------------------------------------------------------
(* Colleagues, the worker and the server's side of an operation *)
LEMMA CountTyped == ASSUME EditorTypeOK PROVE count \in Counts
BY DEF EditorTypeOK, Counts

LEMMA SameGrows ==
  ASSUME EditorTypeOK, Bounded, srv' = srv
  PROVE  Grows /\ Head_' = Head_ /\ Head_ \in Nat
BY Kept DEF Grows, EditorTypeOK, Bounded, Head_

LEMMA OpSame == ASSUME EditorTypeOK, Bounded, Grows, op' = op PROVE GoesOn
<1>1. op \in Operations \cup {Nil} /\ (op # Nil /\ op.ws # Nil => op.ws.ver \in Nat)
  BY DEF EditorTypeOK, Operations, Views
<1>2. Head_ \in Nat /\ Head_' \in Nat /\ Head_ <= Head_'
  BY GrowsFacts
<1> QED BY <1>1, <1>2 DEF Bounded, OpOK, GoesOn

LEMMA OthersKept ==
  ASSUME RInv, ColleagueSaves \/ ColleagueFreezes
  PROVE  RInv'
<1>0. EditorTypeOK /\ Bounded /\ count \in Counts
  BY CountTyped DEF RInv
<1>1. /\ count' \in Counts /\ count'.edits = count.edits /\ count'.forms = count.forms /\ Alone'
      /\ UNCHANGED <<ed, timer, chain, old, op, load, copy, work>>
  BY <1>0, Disturbed DEF ColleagueSaves, ColleagueFreezes, Others
<1>2. Grows
  <2>1. CASE ColleagueSaves
    <3>1. count.events \in Nat /\ count.events < MaxEvents /\ MaxEdits \in Nat /\ MaxEvents \in Nat
      BY <1>0, <2>1, TextsFacts DEF ColleagueSaves, Others, Counts
    <3>2. MaxEdits + count.events + 1 \in Texts
      BY <3>1 DEF Texts
    <3> QED BY <1>0, <2>1, <3>2, AppendedGrows DEF ColleagueSaves, Others
  <2>2. CASE ColleagueFreezes
    <3> DEFINE o == [ver |-> Head_, st |-> "FROZEN", mine |-> FALSE]
    <3>1. Head_ \in Nat /\ Head_ # 0 /\ srv' = [srv EXCEPT !.signed = Head_, !.frozen = @ \cup {o}]
      BY <1>0, <2>2, Kept DEF ColleagueFreezes, Others
    <3>2. o \in Outputs /\ o.ver \in 1..Head_
      BY <3>1 DEF Outputs
    <3> HIDE DEF o
    <3>3. srv \in [revs : Seq(Texts), signed : 0..Head_, job : FreezeJobs \cup {Nil}, frozen : SUBSET Outputs]
      BY <1>0 DEF EditorTypeOK
    <3> DEFINE fs == srv.frozen \cup {o}
               h == Head_
    <3>a. fs \in SUBSET Outputs /\ h \in 0..h /\ srv' = [srv EXCEPT !.signed = h, !.frozen = fs]
      BY <3>1, <3>2, <3>3
    <3>b. srv \in [revs : Seq(Texts), signed : 0..h, job : FreezeJobs \cup {Nil}, frozen : SUBSET Outputs]
      BY <3>3
    <3> HIDE DEF fs, h
    <3>c. srv'.revs = srv.revs /\ srv'.job = srv.job /\ srv'.frozen = fs
          /\ srv' \in [revs : Seq(Texts), signed : 0..h, job : FreezeJobs \cup {Nil}, frozen : SUBSET Outputs]
      BY <3>a, <3>b
    <3>4. srv'.revs = srv.revs /\ srv'.job = srv.job /\ srv'.frozen = srv.frozen \cup {o} /\ Head_' = Head_
          /\ srv' \in [revs : Seq(Texts), signed : 0..Head_, job : FreezeJobs \cup {Nil}, frozen : SUBSET Outputs]
      BY <3>c DEF Head_, fs, h
    <3> QED BY <1>0, <3>1, <3>2, <3>4 DEF Grows, Bounded
  <2> QED BY <1>1, <2>1, <2>2
<1>3. GoesOn
  BY <1>0, <1>1, <1>2, OpSame
<1>4. RSound'
  BY <1>1, <1>2, <1>3, ServerStep
<1> QED BY <1>1, <1>4, RInvOf

LEMMA WorkerKept ==
  ASSUME RInv, WorkerPublishes
  PROVE  RInv'
<1>0. EditorTypeOK /\ Bounded /\ count \in Counts /\ Head_ \in Nat
  BY CountTyped, Kept DEF RInv
<1>1. UNCHANGED <<ed, timer, chain, old, op, load, copy, work, count>>
  BY DEF WorkerPublishes
<1> DEFINE j1 == [srv.job EXCEPT !.st = "FAILED"]
           j2 == [srv.job EXCEPT !.st = "PUBLISHED"]
           o == [ver |-> srv.job.ver, st |-> "FROZEN", mine |-> TRUE]
<1>2. srv.job \in FreezeJobs /\ srv.job.ver \in 1..Head_
  BY <1>0, Kept DEF WorkerPublishes, Bounded
<1>3. j1 \in FreezeJobs /\ j1.ver = srv.job.ver /\ j2 \in FreezeJobs /\ j2.ver = srv.job.ver /\ o \in Outputs /\ o.ver = srv.job.ver
  BY <1>0, <1>2 DEF FreezeJobs, Outputs
<1>4. \/ srv' = [srv EXCEPT !.job = j1]
      \/ srv' = [srv EXCEPT !.job = j2, !.frozen = @ \cup {o}]
  <2>1. srv' \in {[srv EXCEPT !.job.st = "FAILED"], [srv EXCEPT !.job.st = "PUBLISHED", !.frozen = @ \cup {o}]}
    BY DEF WorkerPublishes
  <2> QED BY <2>1
<1> HIDE DEF j1, j2, o
<1>5. srv \in [revs : Seq(Texts), signed : 0..Head_, job : FreezeJobs \cup {Nil}, frozen : SUBSET Outputs]
  BY <1>0 DEF EditorTypeOK
<1>6. /\ srv'.revs = srv.revs /\ Head_' = Head_ /\ srv'.job \in {j1, j2} /\ srv'.frozen \subseteq srv.frozen \cup {o}
      /\ srv' \in [revs : Seq(Texts), signed : 0..Head_, job : FreezeJobs \cup {Nil}, frozen : SUBSET Outputs]
  <2>1. CASE srv' = [srv EXCEPT !.job = j1]
    BY <1>3, <1>5, <2>1 DEF Head_
  <2>2. CASE srv' = [srv EXCEPT !.job = j2, !.frozen = @ \cup {o}]
    BY <1>3, <1>5, <2>2 DEF Head_
  <2> QED BY <1>4, <2>1, <2>2
<1>7. Grows
  BY <1>0, <1>2, <1>3, <1>6 DEF Grows, Bounded
<1>8. GoesOn
  BY <1>0, <1>1, <1>7, OpSame
<1>9. RSound'
  BY <1>0, <1>1, <1>7, <1>8, ServerStep
<1>10. Alone'
  BY <1>1, <1>6 DEF RInv, Alone, Undisturbed
<1> QED BY <1>9, <1>10, RInvOf

LEMMA OpLostKept ==
  ASSUME RInv, OpLost
  PROVE  RInv'
<1>0. EditorTypeOK /\ Bounded /\ count \in Counts
  BY CountTyped DEF RInv
<1>1. /\ count' \in Counts /\ count'.edits = count.edits /\ count'.forms = count.forms /\ Alone'
      /\ UNCHANGED <<srv, ed, timer, chain, old, load, copy, work>>
  BY <1>0, Disturbed DEF OpLost
<1>2. Grows
  BY <1>0, <1>1, SameGrows
<1>3. op \in Operations /\ op' = [op EXCEPT !.step = "no"] /\ op # Nil
  BY <1>0 DEF OpLost, EditorTypeOK
<1>4. /\ op' \in Operations /\ op'.kind = op.kind /\ op'.arg = op.arg /\ op'.ws = op.ws /\ op'.step = "no"
  BY <1>3 DEF Operations
<1>5. op.ws # Nil => op.ws.ver <= Head_'
  BY <1>0, <1>3, <1>1, SameGrows DEF Bounded, OpOK
<1>6. GoesOn
  BY <1>3, <1>4, <1>5 DEF GoesOn
<1>7. RSound'
  BY <1>1, <1>2, <1>6, ServerStep
<1> QED BY <1>1, <1>7, RInvOf
-----------------------------------------------------------------------------
(* An operation is served *)
LEMMA AnsweredGoesOn ==
  ASSUME op \in Operations, op # Nil, NEW ws \in Views \cup {Nil}, op' = [op EXCEPT !.step = "ok", !.ws = ws],
         ws # Nil => ws.ver <= Head_', op.kind # "file" => ws # Nil
  PROVE  GoesOn /\ op' # Nil /\ op'.step = "ok" /\ op'.ws = ws /\ op'.kind = op.kind
<1>1. /\ op' \in Operations /\ op'.kind = op.kind /\ op'.arg = op.arg /\ op'.ws = ws /\ op'.step = "ok"
  BY DEF Operations
<1>2. op' # Nil
  BY <1>1, ReportAssumption
<1> QED BY <1>1, <1>2 DEF GoesOn

LEMMA RefusedGoesOn ==
  ASSUME EditorTypeOK, Bounded, op # Nil, op' = [op EXCEPT !.step = "no"], Head_' = Head_
  PROVE  GoesOn /\ op' # Nil /\ op'.step = "no" /\ op'.kind = op.kind
<1>0. op \in Operations
  BY DEF EditorTypeOK
<1>1. /\ op' \in Operations /\ op'.kind = op.kind /\ op'.arg = op.arg /\ op'.ws = op.ws /\ op'.step = "no"
  BY <1>0 DEF Operations
<1>2. op' # Nil
  BY <1>1, ReportAssumption
<1> QED BY <1>1, <1>2 DEF GoesOn, Bounded, OpOK

LEMMA ServedKept ==
  ASSUME RInv, Grows, GoesOn, UNCHANGED <<ed, timer, chain, old, load, copy, work, count>>, op # Nil, op.step = "sent", op' # Nil,
         \/ Head_' = Head_ /\ (op'.step = "ok" => op'.kind \notin {"restore", "changes"})
         \/ op'.kind \in {"restore", "changes"} /\ op'.step = "ok" /\ op'.ws.ver = Head_' /\ Head_ # 0
  PROVE  RInv'
<1>0. EditorTypeOK /\ count \in Counts /\ Head_ \in Nat
  BY CountTyped, Kept DEF RInv
<1>1. RSound'
  BY <1>0, ServerStep
<1>2. ASSUME count.events = 0 PROVE Undisturbed'
  <2>1. Undisturbed
    BY <1>2 DEF RInv, Alone
  <2>2. load = Nil /\ op'.kind = op.kind /\ op.kind # "shared"
    BY <2>1 DEF RInv, Placed, Locked, Loaded, Undisturbed, GoesOn
  <2>3. CASE Head_' = Head_ /\ (op'.step = "ok" => op'.kind \notin {"restore", "changes"})
    BY <2>1, <2>2, <2>3 DEF Undisturbed
  <2>4. CASE op'.kind \in {"restore", "changes"} /\ op'.step = "ok" /\ op'.ws.ver = Head_' /\ Head_ # 0
    <3>1. ~ed.unsaved
      BY <2>2, <2>4 DEF RInv, Operated, LiveOp
    <3>2. chain = <<>> /\ timer = Nil /\ ed.gen # 0
      BY <2>1, <2>4, <3>1 DEF Undisturbed
    <3> QED BY <2>1, <2>2, <2>4, <3>2 DEF Undisturbed
  <2> QED BY <2>3, <2>4
<1>3. Alone'
  BY <1>2 DEF Alone
<1> QED BY <1>1, <1>3, RInvOf

LEMMA ViewFacts ==
  ASSUME EditorTypeOK
  PROVE  View \in Views /\ View # Nil /\ View.ver = Head_ /\ View.signed = srv.signed /\ View.job = srv.job /\ View.frozen = srv.frozen
<1>1. View \in Views
  BY Kept DEF View, Views
<1> QED BY <1>1, ReportAssumption DEF View

LEMMA FiledFacts ==
  ASSUME NEW fs, fs \subseteq Outputs, NEW f \in Outputs, NEW gs, gs = Filed(fs, f)
  PROVE  gs \subseteq Outputs /\ \A g \in gs : \E o \in fs : g.ver = o.ver
<1> SUFFICES ASSUME NEW g \in gs PROVE g \in Outputs /\ \E o \in fs : g.ver = o.ver
  OBVIOUS
<1>1. PICK o \in fs : g = IF o = f THEN [o EXCEPT !.st = "FILED"] ELSE IF o.st = "FILED" THEN [o EXCEPT !.st = "SUPERSEDED"] ELSE o
  BY DEF Filed
<1>2. o \in Outputs
  OBVIOUS
<1>3. g \in Outputs /\ g.ver = o.ver
  BY <1>1, <1>2 DEF Outputs
<1> QED BY <1>3

\* What each kind of operation does to the server.
Changes(f) ==
  [srv EXCEPT !.revs = Append(srv.revs, TextOf(f.ver)), !.frozen = (srv.frozen \ {f}) \cup {[f EXCEPT !.st = "CHANGES_REQUESTED"]}]

LEMMA SignGrows ==
  ASSUME EditorTypeOK, Bounded, srv' = [srv EXCEPT !.signed = Head_]
  PROVE  Grows /\ Head_' = Head_
<1> DEFINE h == Head_
<1>1. srv \in [revs : Seq(Texts), signed : 0..h, job : FreezeJobs \cup {Nil}, frozen : SUBSET Outputs] /\ h \in 0..h /\ h \in Nat
      /\ srv' = [srv EXCEPT !.signed = h]
  <2>1. h \in Nat
    BY Kept
  <2> QED BY <2>1 DEF EditorTypeOK
<1> HIDE DEF h
<1>2. srv'.revs = srv.revs /\ srv'.job = srv.job /\ srv'.frozen = srv.frozen
      /\ srv' \in [revs : Seq(Texts), signed : 0..h, job : FreezeJobs \cup {Nil}, frozen : SUBSET Outputs]
  BY <1>1
<1> QED BY <1>1, <1>2 DEF Grows, Bounded, Head_, h

LEMMA FreezeGrows ==
  ASSUME EditorTypeOK, Bounded, Head_ # 0, srv' = [srv EXCEPT !.job = [ver |-> Head_, st |-> "QUEUED"]]
  PROVE  Grows /\ Head_' = Head_
<1> DEFINE job == [ver |-> Head_, st |-> "QUEUED"]
<1>1. srv \in [revs : Seq(Texts), signed : 0..Head_, job : FreezeJobs \cup {Nil}, frozen : SUBSET Outputs] /\ Head_ \in Nat
  BY Kept DEF EditorTypeOK
<1>2. job \in FreezeJobs /\ job.ver = Head_ /\ srv' = [srv EXCEPT !.job = job]
  BY <1>1 DEF FreezeJobs
<1> HIDE DEF job
<1>3. srv'.revs = srv.revs /\ srv'.job = job /\ srv'.frozen = srv.frozen
      /\ srv' \in [revs : Seq(Texts), signed : 0..Head_, job : FreezeJobs \cup {Nil}, frozen : SUBSET Outputs]
  BY <1>1, <1>2
<1> QED BY <1>1, <1>2, <1>3 DEF Grows, Bounded, Head_

LEMMA FileGrows ==
  ASSUME EditorTypeOK, Bounded, NEW f \in Outputs, srv' = [srv EXCEPT !.frozen = Filed(@, f)]
  PROVE  Grows /\ Head_' = Head_
<1> DEFINE gs == Filed(srv.frozen, f)
<1>1. srv \in [revs : Seq(Texts), signed : 0..Head_, job : FreezeJobs \cup {Nil}, frozen : SUBSET Outputs] /\ Head_ \in Nat
      /\ srv' = [srv EXCEPT !.frozen = gs]
  BY Kept DEF EditorTypeOK
<1>2. gs \subseteq Outputs /\ \A g \in gs : \E o \in srv.frozen : g.ver = o.ver
  BY <1>1, FiledFacts
<1> HIDE DEF gs
<1>3. srv'.revs = srv.revs /\ srv'.job = srv.job /\ srv'.frozen = gs
      /\ srv' \in [revs : Seq(Texts), signed : 0..Head_, job : FreezeJobs \cup {Nil}, frozen : SUBSET Outputs]
  BY <1>1, <1>2
<1> QED BY <1>1, <1>2, <1>3 DEF Grows, Bounded, Head_

LEMMA ChangesGrows ==
  ASSUME EditorTypeOK, Bounded, NEW f \in srv.frozen, srv' = Changes(f)
  PROVE  Grows /\ Head_' = Head_ + 1 /\ Head_ # 0
<1> DEFINE revs == Append(srv.revs, TextOf(f.ver))
           gone == (srv.frozen \ {f}) \cup {[f EXCEPT !.st = "CHANGES_REQUESTED"]}
<1>1. srv \in [revs : Seq(Texts), signed : 0..Head_, job : FreezeJobs \cup {Nil}, frozen : SUBSET Outputs] /\ Head_ \in Nat
      /\ srv' = [srv EXCEPT !.revs = revs, !.frozen = gone] /\ f \in Outputs /\ f.ver \in 1..Head_
  BY Kept DEF EditorTypeOK, Bounded, Changes
<1>2. TextOf(f.ver) \in Texts /\ Head_ # 0
  BY <1>1, TextOfTyped
<1>3. revs \in Seq(Texts) /\ Len(revs) = Head_ + 1 /\ \A i \in 1..Head_ : revs[i] = srv.revs[i]
  <2>1. srv.revs \in Seq(Texts)
    BY <1>1
  <2> QED BY <1>2, <2>1, AppendFacts DEF Head_
<1>4. [f EXCEPT !.st = "CHANGES_REQUESTED"] \in Outputs /\ [f EXCEPT !.st = "CHANGES_REQUESTED"].ver = f.ver
  BY <1>1 DEF Outputs
<1>5. gone \in SUBSET Outputs /\ \A g \in gone : g.ver \in 1..Head_
  BY <1>1, <1>4 DEF Bounded
<1> HIDE DEF revs, gone
<1>6. srv'.revs = revs /\ srv'.job = srv.job /\ srv'.frozen = gone
      /\ srv' \in [revs : Seq(Texts), signed : 0..Head_, job : FreezeJobs \cup {Nil}, frozen : SUBSET Outputs]
  BY <1>1, <1>3, <1>5
<1>7. Head_' = Head_ + 1
  BY <1>3, <1>6 DEF Head_
<1> QED BY <1>1, <1>2, <1>3, <1>5, <1>6, <1>7 DEF Grows, Bounded

\* The outcomes there are.
LEMMA Outcomes ==
  ASSUME NEW o, o.kind \in OpKinds
  PROVE  \/ Outcome(o) = Refused
         \/ o.kind = "sign" /\ o.arg.ver = Head_ /\ Outcome(o) = Done([srv EXCEPT !.signed = Head_], [o.arg EXCEPT !.signed = Head_])
         \/ /\ o.kind = "freeze" /\ o.arg.ver = Head_ /\ srv.signed = Head_
            /\ Outcome(o) = Done([srv EXCEPT !.job = [ver |-> Head_, st |-> "QUEUED"]],
                                 [o.arg EXCEPT !.job = [ver |-> Head_, st |-> "QUEUED"]])
         \/ o.kind = "restore" /\ o.arg.ver = Head_ /\ Outcome(o) = Done(Appended(o.arg.text), [View EXCEPT !.ver = Head_ + 1])
         \/ o.kind = "shared" /\ Outcome(o) = Done(srv, View)
         \/ o.kind = "file" /\ Outcome(o) = Done([srv EXCEPT !.frozen = Filed(@, o.arg)], Nil)
         \/ /\ o.kind = "changes" /\ o.arg \in srv.frozen
            /\ Outcome(o) = Done(Changes(o.arg),
                 [View EXCEPT !.ver = Head_ + 1, !.frozen = (srv.frozen \ {o.arg}) \cup {[o.arg EXCEPT !.st = "CHANGES_REQUESTED"]}])
<1>1. CASE o.kind \in {"sign", "freeze", "restore"}
  BY <1>1 DEF Outcome
<1>2. CASE o.kind \in {"shared", "file"}
  BY <1>2 DEF Outcome
<1>3. CASE o.kind = "changes"
  BY <1>3 DEF Outcome, Changes
<1> QED BY <1>1, <1>2, <1>3 DEF OpKinds

Becomes(s, ws) == srv' = s /\ op' = [op EXCEPT !.step = "ok", !.ws = ws]
TurnedDown == op' = [op EXCEPT !.step = "no"] /\ srv' = srv

LEMMA OpServedKept ==
  ASSUME RInv, OpServed
  PROVE  RInv'
<1>0. /\ EditorTypeOK /\ Bounded /\ Head_ \in Nat /\ op \in Operations /\ op # Nil /\ op.step = "sent"
      /\ UNCHANGED <<ed, timer, chain, old, load, copy, work, count>>
  BY Kept DEF RInv, OpServed, EditorTypeOK
<1>1. srv \in [revs : Seq(Texts), signed : 0..Head_, job : FreezeJobs \cup {Nil}, frozen : SUBSET Outputs]
  BY <1>0 DEF EditorTypeOK
<1>r. ASSUME TurnedDown PROVE RInv'
  <2>1. op' = [op EXCEPT !.step = "no"] /\ srv' = srv
    BY <1>r DEF TurnedDown
  <2>2. Grows /\ Head_' = Head_
    BY <1>0, <2>1, SameGrows
  <2>3. GoesOn /\ op' # Nil /\ op'.step = "no" /\ op'.kind = op.kind
    BY <1>0, <2>1, <2>2, RefusedGoesOn
  <2> QED BY <1>0, <2>2, <2>3, ServedKept
<1>2. CASE op.kind = "sign" /\ op.arg.ver = Head_ /\ Becomes([srv EXCEPT !.signed = Head_], [op.arg EXCEPT !.signed = Head_])
  <2> DEFINE h == Head_
             ws == [op.arg EXCEPT !.signed = h]
  <2>1. op.arg \in Views /\ h \in 0..h /\ h \in Nat /\ srv' = [srv EXCEPT !.signed = h] /\ op' = [op EXCEPT !.step = "ok", !.ws = ws]
    BY <1>0, <1>2 DEF Bounded, OpOK, Becomes
  <2>a. ws \in Views /\ ws.ver = op.arg.ver
    BY <2>1 DEF Views
  <2>2. ws \in Views /\ ws.ver = Head_ /\ ws # Nil
    BY <1>2, <2>a, ReportAssumption
  <2> HIDE DEF ws
  <2>3. Head_' = Head_ /\ Grows
    BY <1>0, <2>1, SignGrows
  <2>g. ws.ver <= Head_' /\ op.kind # "file"
    BY <1>0, <1>2, <2>2, <2>3
  <2>4. GoesOn /\ op' # Nil /\ op'.step = "ok" /\ op'.ws = ws /\ op'.kind = op.kind
    BY <1>0, <2>1, <2>2, <2>g, AnsweredGoesOn
  <2> QED BY <1>0, <1>2, <2>3, <2>4, ServedKept
<1>3. CASE op.kind = "freeze" /\ op.arg.ver = Head_ /\ srv.signed = Head_
           /\ Becomes([srv EXCEPT !.job = [ver |-> Head_, st |-> "QUEUED"]], [op.arg EXCEPT !.job = [ver |-> Head_, st |-> "QUEUED"]])
  <2> DEFINE job == [ver |-> Head_, st |-> "QUEUED"]
             ws == [op.arg EXCEPT !.job = job]
  <2>1. op.arg \in Views /\ Head_ # 0 /\ srv' = [srv EXCEPT !.job = job] /\ op' = [op EXCEPT !.step = "ok", !.ws = ws]
    BY <1>0, <1>3 DEF Bounded, OpOK, Becomes
  <2>2. job \in FreezeJobs /\ job.ver = Head_
    BY <1>0 DEF FreezeJobs
  <2> HIDE DEF job
  <2>a. ws \in Views /\ ws.ver = op.arg.ver
    BY <2>1, <2>2 DEF Views
  <2>3. ws \in Views /\ ws.ver = Head_ /\ ws # Nil
    BY <1>3, <2>a, ReportAssumption
  <2> HIDE DEF ws
  <2>5. Head_' = Head_ /\ Grows
    BY <1>0, <2>1, FreezeGrows DEF job
  <2>g. ws.ver <= Head_' /\ op.kind # "file"
    BY <1>0, <1>3, <2>3, <2>5
  <2>6. GoesOn /\ op' # Nil /\ op'.step = "ok" /\ op'.ws = ws /\ op'.kind = op.kind
    BY <1>0, <2>1, <2>3, <2>g, AnsweredGoesOn
  <2> QED BY <1>0, <1>3, <2>5, <2>6, ServedKept
<1>4. CASE op.kind = "restore" /\ op.arg.ver = Head_ /\ Becomes(Appended(op.arg.text), [View EXCEPT !.ver = Head_ + 1])
  <2> DEFINE ws == [View EXCEPT !.ver = Head_ + 1]
  <2>1. op.arg.text \in Texts /\ Head_ # 0 /\ srv' = Appended(op.arg.text) /\ op' = [op EXCEPT !.step = "ok", !.ws = ws]
    BY <1>0, <1>4 DEF Bounded, OpOK, Becomes, Restores, Texts
  <2>2. Grows /\ Head_' = Head_ + 1
    BY <1>0, <2>1, AppendedGrows
  <2>a. ws \in Views /\ ws.ver = Head_ + 1
    BY <1>0, ViewFacts DEF Views
  <2>3. ws \in Views /\ ws.ver = Head_ + 1 /\ ws # Nil
    BY <2>a, ReportAssumption
  <2> HIDE DEF ws
  <2>g. ws.ver <= Head_' /\ op.kind # "file"
    BY <1>0, <1>4, <2>2, <2>3
  <2>4. GoesOn /\ op' # Nil /\ op'.step = "ok" /\ op'.ws = ws /\ op'.kind = op.kind
    BY <1>0, <2>1, <2>3, <2>g, AnsweredGoesOn
  <2> QED BY <1>0, <1>4, <2>1, <2>2, <2>3, <2>4, ServedKept
<1>5. CASE op.kind = "shared" /\ Becomes(srv, View)
  <2>1. srv' = srv /\ op' = [op EXCEPT !.step = "ok", !.ws = View]
    BY <1>5 DEF Becomes
  <2>2. Grows /\ Head_' = Head_
    BY <1>0, <2>1, SameGrows
  <2> DEFINE ws == View
  <2>v. ws \in Views /\ ws # Nil /\ ws.ver <= Head_' /\ op.kind # "file"
    BY <1>0, <1>5, <2>2, ViewFacts
  <2> HIDE DEF ws
  <2>3. GoesOn /\ op' # Nil /\ op'.step = "ok" /\ op'.ws = ws /\ op'.kind = op.kind
    BY <1>0, <2>1, <2>v, AnsweredGoesOn DEF ws
  <2> QED BY <1>0, <1>5, <2>2, <2>3, ServedKept
<1>6. CASE op.kind = "file" /\ Becomes([srv EXCEPT !.frozen = Filed(@, op.arg)], Nil)
  <2>1. op.arg \in Outputs /\ srv' = [srv EXCEPT !.frozen = Filed(@, op.arg)] /\ op' = [op EXCEPT !.step = "ok", !.ws = Nil]
    BY <1>0, <1>6 DEF Bounded, OpOK, Becomes
  <2>4. Head_' = Head_ /\ Grows
    BY <1>0, <2>1, FileGrows
  <2>5. GoesOn /\ op' # Nil /\ op'.step = "ok" /\ op'.ws = Nil /\ op'.kind = op.kind
    BY <1>0, <1>6, <2>1, AnsweredGoesOn
  <2> QED BY <1>0, <1>6, <2>4, <2>5, ServedKept
<1> DEFINE gone == (srv.frozen \ {op.arg}) \cup {[op.arg EXCEPT !.st = "CHANGES_REQUESTED"]}
<1>7. CASE op.kind = "changes" /\ op.arg \in srv.frozen
           /\ Becomes(Changes(op.arg), [View EXCEPT !.ver = Head_ + 1, !.frozen = gone])
  <2> DEFINE ws == [View EXCEPT !.ver = Head_ + 1, !.frozen = gone]
  <2>1. op.arg \in Outputs /\ srv' = Changes(op.arg) /\ op' = [op EXCEPT !.step = "ok", !.ws = ws]
    BY <1>0, <1>7 DEF Bounded, OpOK, Becomes
  <2>2. Grows /\ Head_' = Head_ + 1 /\ Head_ # 0
    BY <1>0, <1>7, <2>1, ChangesGrows
  <2>3. gone \in SUBSET Outputs
    BY <1>1, <2>1 DEF Outputs
  <2> HIDE DEF gone
  <2> DEFINE v == View
             h == Head_ + 1
  <2>b. v \in Views /\ h \in Nat /\ ws = [v EXCEPT !.ver = h, !.frozen = gone]
    BY <1>0, ViewFacts
  <2> HIDE DEF v, h, ws
  <2>c. ws \in Views /\ ws.ver = h
    BY <2>b, <2>3 DEF Views
  <2>6. ws \in Views /\ ws.ver = Head_ + 1 /\ ws # Nil
    BY <2>c, ReportAssumption DEF h
  <2> HIDE DEF ws
  <2>g. ws.ver <= Head_' /\ op.kind # "file"
    BY <1>0, <1>7, <2>6, <2>2
  <2>10. GoesOn /\ op' # Nil /\ op'.step = "ok" /\ op'.ws = ws /\ op'.kind = op.kind
    BY <1>0, <2>1, <2>6, <2>g, AnsweredGoesOn
  <2> QED BY <1>0, <1>7, <2>2, <2>6, <2>10, ServedKept
<1>8. \/ TurnedDown
      \/ op.kind = "sign" /\ op.arg.ver = Head_ /\ Becomes([srv EXCEPT !.signed = Head_], [op.arg EXCEPT !.signed = Head_])
      \/ op.kind = "freeze" /\ op.arg.ver = Head_ /\ srv.signed = Head_
         /\ Becomes([srv EXCEPT !.job = [ver |-> Head_, st |-> "QUEUED"]], [op.arg EXCEPT !.job = [ver |-> Head_, st |-> "QUEUED"]])
      \/ op.kind = "restore" /\ op.arg.ver = Head_ /\ Becomes(Appended(op.arg.text), [View EXCEPT !.ver = Head_ + 1])
      \/ op.kind = "shared" /\ Becomes(srv, View)
      \/ op.kind = "file" /\ Becomes([srv EXCEPT !.frozen = Filed(@, op.arg)], Nil)
      \/ op.kind = "changes" /\ op.arg \in srv.frozen
         /\ Becomes(Changes(op.arg), [View EXCEPT !.ver = Head_ + 1, !.frozen = gone])
  <2> DEFINE r == Outcome(op)
  <2>1. srv' = r.srv /\ op' = IF r.ok THEN [op EXCEPT !.step = "ok", !.ws = r.ws] ELSE [op EXCEPT !.step = "no"]
    BY DEF OpServed
  <2>2. op.kind \in OpKinds
    BY <1>0 DEF Operations
  <2> HIDE DEF r
  <2>3. ASSUME NEW s, NEW ws, r = Done(s, ws) PROVE Becomes(s, ws)
    BY <2>1, <2>3 DEF Done, Becomes
  <2>4. r = Refused => TurnedDown
    BY <2>1 DEF Refused, TurnedDown
  <2> QED BY <2>2, <2>3, <2>4, Outcomes DEF r
<1> QED BY <1>2, <1>3, <1>4, <1>5, <1>6, <1>7, <1>8, <1>r

\* One that was left is served with nobody waiting.
LEMMA LeftServedKept ==
  ASSUME RInv, LInv, LeftServed
  PROVE  RInv'
<1>0. EditorTypeOK /\ Bounded /\ count \in Counts /\ Head_ \in Nat
  BY CountTyped, Kept DEF RInv
<1>1. PICK o \in left : srv' = Outcome(o).srv /\ UNCHANGED <<ed, timer, chain, old, op, load, copy, work, count>>
  BY DEF LeftServed
<1>2. /\ o \in Orders /\ count.events # 0
  BY DEF LInv
<1>3. /\ o.kind \in OpKinds
      /\ o.kind \in {"sign", "freeze"} => o.arg \in Views /\ o.arg.ver # 0
      /\ o.kind = "restore" => o.arg \in Restores
      /\ o.kind = "file" => o.arg \in Outputs
  BY <1>2 DEF Orders, OpKinds
<1>4. \/ srv' = srv
      \/ srv' = [srv EXCEPT !.signed = Head_]
      \/ o.kind = "freeze" /\ o.arg.ver = Head_ /\ srv' = [srv EXCEPT !.job = [ver |-> Head_, st |-> "QUEUED"]]
      \/ o.kind = "restore" /\ srv' = Appended(o.arg.text)
      \/ o.kind = "file" /\ srv' = [srv EXCEPT !.frozen = Filed(@, o.arg)]
      \/ o.arg \in srv.frozen /\ srv' = Changes(o.arg)
  <2> DEFINE r == Outcome(o)
  <2>1. srv' = r.srv
    BY <1>1
  <2> HIDE DEF r
  <2>2. \A s, ws : r = Done(s, ws) => srv' = s
    BY <2>1 DEF Done
  <2>3. r = Refused => srv' = srv
    BY <2>1 DEF Refused
  <2> QED BY <1>3, <2>2, <2>3, Outcomes DEF r
<1>5. Grows
  <2>1. o.kind = "restore" => o.arg.text \in Texts
    BY <1>3 DEF Restores, Texts
  <2> QED BY <1>0, <1>3, <1>4, <2>1, SameGrows, SignGrows, FreezeGrows, FileGrows, ChangesGrows, AppendedGrows
<1>6. GoesOn
  BY <1>0, <1>1, <1>5, OpSame
<1>7. RSound'
  BY <1>0, <1>1, <1>5, <1>6, ServerStep
<1>8. Alone'
  BY <1>1, <1>2 DEF Alone
<1> QED BY <1>7, <1>8, RInvOf
-----------------------------------------------------------------------------
(* The analyst begins an operation *)
LEMMA PressedFacts ==
  ASSUME count \in Counts, Pressed
  PROVE  count' \in Counts /\ count'.edits = count.edits /\ count'.forms = count.forms /\ count'.events = count.events
BY ReportAssumption DEF Pressed, Counts

\* Who has answered the offer has the copy on the screen, or none.
LEMMA AnsweredFits ==
  ASSUME Slips = {}, RInv, Loaded, Answered
  PROVE  copy = Nil \/ CopyFits
<1>1. ed.offer # Nil => [text |-> ed.offer.text, form |-> ed.offer.form] = [text |-> ed.text, form |-> ed.form]
  BY DEF Answered, Unanswered
<1>2. ed.offer # Nil => ed.offer.text = ed.text /\ ed.offer.form = ed.form
  BY <1>1
<1> QED BY <1>2 DEF RInv, Copied, CopyFits

LEMMA BegunOp ==
  ASSUME RInv, NEW kind, NEW arg, Begin(kind, arg),
         kind \in {"sign", "freeze"} => arg \in Views /\ arg.ver \in 1..Head_,
         kind = "restore" => arg \in Restores,
         kind \in {"file", "changes"} => arg \in Outputs,
         kind = "shared" => arg = Nil,
         kind \in {"sign", "freeze", "restore", "shared", "file", "changes"}
  PROVE  /\ op' \in Operations /\ op' # Nil /\ op'.kind = kind /\ op'.arg = arg /\ op'.step = "sent" /\ op'.ws = Nil
         /\ OpOK'
<1>1. op' = [kind |-> kind, arg |-> arg, step |-> "sent", ws |-> Nil] /\ srv' = srv
  BY DEF Begin
<1>2. arg \in Views \cup Outputs \cup Restores \cup {Nil}
  OBVIOUS
<1>3. op' \in Operations /\ op'.kind = kind /\ op'.arg = arg /\ op'.step = "sent" /\ op'.ws = Nil
  BY <1>1, <1>2 DEF Operations, OpKinds
<1>4. op' # Nil
  BY <1>3, ReportAssumption
<1>5. OpOK'
  BY <1>1, <1>3 DEF OpOK, Restores, Texts, Head_
<1> QED BY <1>3, <1>4, <1>5

LEMMA BeginKept ==
  ASSUME Slips = {}, RInv, NEW kind, NEW arg, Begin(kind, arg), 
         kind \in {"sign", "freeze"} => arg \in Views /\ arg.ver \in 1..Head_,
         kind = "restore" => arg \in Restores,
         kind \in {"file", "changes"} => arg \in Outputs,
         kind = "shared" => arg = Nil /\ ed.conflict # 0,
         kind \in {"sign", "freeze", "restore", "shared", "file", "changes"},
         kind \in {"sign", "freeze", "restore", "changes"} => ~ed.unsaved,
         kind = "changes" => ed.form = 0,
         kind = "freeze" => ed.form = 0 /\ arg.ver = ed.saved,
         Undisturbed => ed.gen # 0
  PROVE  RInv'
<1>1. /\ op' \in Operations /\ op' # Nil /\ op'.kind = kind /\ op'.arg = arg /\ op'.step = "sent" /\ op'.ws = Nil
      /\ OpOK'
  BY BegunOp
<1>2. /\ UNCHANGED <<srv, ed, timer, chain, old, load, copy, work>> /\ op = Nil /\ Loaded
      /\ kind \in {"sign", "restore", "shared", "changes"} => Answered
  BY DEF Begin, Locked
<1>3. count' \in Counts /\ count'.edits = count.edits /\ count'.forms = count.forms /\ count'.events = count.events
  BY CountTyped, PressedFacts DEF RInv, Begin
<1>4. EditorTypeOK'
  BY <1>1, <1>2, <1>3 DEF RInv, EditorTypeOK, Counts, Head_, Texts
<1>5. Bounded'
  BY <1>1, <1>2 DEF RInv, Bounded, Head_, Texts
<1>6. Loaded' /\ Placed'
  BY <1>2 DEF RInv, Placed, Loaded
<1>7. Gens' /\ Answers'
  BY <1>2 DEF RInv, Gens, Answers, AnswerOK, Loaded
<1>8. Screen' /\ Copied' /\ Worked' /\ Saving'
  BY <1>2 DEF RInv, Screen, Copied, CopyFits, DirtyOf, Worked, Published, Saving, Loaded, TextOf, Head_
<1>9. Operated'
  <2>1. kind \in {"sign", "restore", "shared", "changes"} => copy = Nil \/ CopyFits
    BY <1>2, AnsweredFits
  <2>2. kind = "freeze" => ed.form = 0 /\ arg.ver \in 1..Head_ /\ ed.text = srv.revs[arg.ver]
    <3>1. kind = "freeze" => ed.text = TextOf(ed.saved)
      BY <1>2 DEF RInv, Screen
    <3> QED BY <3>1 DEF TextOf
  <2> QED BY <1>1, <1>2, <2>1, <2>2 DEF Operated, LiveOp, CopyFits, Head_
<1>10. Alone'
  BY <1>1, <1>2, <1>3 DEF RInv, Alone, Undisturbed, Head_
<1> QED BY <1>4, <1>5, <1>6, <1>7, <1>8, <1>9, <1>10 DEF RInv

LEMMA OperationsBegin ==
  ASSUME Slips = {}, RInv, SignOpinion \/ Freeze \/ RestoreRevision \/ AcceptShared \/ FileFrozen \/ RequestChanges
  PROVE  RInv'
<1>0. EditorTypeOK /\ Head_ \in Nat /\ ed.ws \in Views \cup {Nil} /\ ed.pick \in Outputs \cup {Nil} /\ ed.saved <= Head_ /\ ed.saved \in Nat
  BY Kept DEF RInv
<1>1. Loaded /\ ExactlySaved => ed.ws \in Views /\ ed.ws.ver \in 1..Head_ /\ ~ed.unsaved /\ ed.ws.ver = ed.saved
  BY <1>0 DEF Loaded, ExactlySaved
<1>2. CASE SignOpinion
  <2>1. Begin("sign", ed.ws) /\ Loaded /\ ExactlySaved
    BY <1>2 DEF SignOpinion, Begin
  <2> QED BY <1>0, <1>1, <2>1, BeginKept DEF Undisturbed
<1>3. CASE Freeze
  <2>1. Begin("freeze", ed.ws) /\ Loaded /\ ExactlySaved /\ ed.form = 0
    BY <1>3 DEF Freeze, MayFreeze
  <2> QED BY <1>0, <1>1, <2>1, BeginKept DEF Undisturbed
<1>4. CASE RestoreRevision
  <2>1. PICK v \in 1..ed.ws.ver : Begin("restore", [ver |-> ed.ws.ver, text |-> TextOf(v)]) /\ Loaded /\ ~ed.unsaved
    BY <1>4 DEF RestoreRevision
  <2>2. ed.ws # Nil /\ ed.ws \in Views /\ ed.ws.ver \in Nat /\ ed.ws.ver <= Head_
    BY <1>0, <2>1, Kept DEF Loaded, RInv, Bounded
  <2>3. v \in Nat /\ v <= Head_ /\ ed.ws.ver # 0
    BY <1>0, <2>2
  <2>4. TextOf(v) \in Texts
    BY <1>0, <2>3, TextOfTyped
  <2>5. [ver |-> ed.ws.ver, text |-> TextOf(v)] \in Restores
    BY <2>2, <2>3, <2>4 DEF Restores, Texts
  <2>6. Undisturbed => ed.gen # 0
    BY <1>0, <2>2, <2>3 DEF Undisturbed
  <2> QED BY <2>1, <2>5, <2>6, BeginKept
<1>5. CASE AcceptShared
  BY <1>5, BeginKept DEF AcceptShared, Undisturbed
<1>6. CASE FileFrozen
  BY <1>0, <1>6, BeginKept DEF FileFrozen, Undisturbed
<1>7. CASE RequestChanges
  <2>1. Begin("changes", ed.pick) /\ ed.pick \in Outputs /\ ~DirtyOf(ed)
    BY <1>0, <1>7 DEF RequestChanges
  <2>2. ~ed.unsaved /\ ed.form = 0
    BY <2>1 DEF DirtyOf
  <2>3. Undisturbed => ed.gen # 0
    BY <1>7 DEF RequestChanges, Undisturbed
  <2> QED BY <2>1, <2>2, <2>3, BeginKept
<1> QED BY <1>2, <1>3, <1>4, <1>5, <1>6, <1>7
-----------------------------------------------------------------------------
(* The analyst edits *)
LEMMA ChangedKept ==
  ASSUME RInv, Loaded, ~Locked, NEW e \in Editors, NEW text \in Texts, MarkChanged(e, text),
         UNCHANGED <<srv, chain, old, op, load>>,
         e.ws \in Views, e.ws.ver <= Head_, e.gen = ed.gen, e.here = ed.here, e.saved <= e.shown, ed.shown <= e.shown, e.shown <= Head_,
         chain # <<>> /\ chain[1].step = "conflict" => e.shown <= chain[1].ver,
         count' \in Counts, work' \in [text : 0..count'.edits, form : 0..count'.forms],
         work'.text # 0 => Published(work'.text) \/ work'.text = text,
         work'.form # 0 => work'.form = e.form,
         count'.events = 0 => count.events = 0 /\ (Undisturbed => e.saved = ed.saved)
  PROVE  RInv'
<1> DEFINE n == Changed(e, text)
<1>0. /\ EditorTypeOK /\ Head_ \in Nat /\ ed.gen \in Nat /\ ed.shown \in Nat /\ text \in Nat /\ text \in Texts
      /\ e.saved \in Nat /\ e.shown \in Nat /\ e.gen \in Nat
  BY Kept, TextsFacts DEF RInv, Editors
<1>1. /\ n \in Editors /\ n.ws = e.ws /\ n.text = text /\ n.saved = e.saved /\ n.shown = e.shown /\ n.unsaved = TRUE
      /\ n.gen = e.gen + 1 /\ n.state = "DIRTY" /\ n.conflict = 0 /\ n.form = e.form /\ n.pick = Nil /\ n.here = e.here
      /\ n.offer = IF e.offer = Nil THEN Nil ELSE Retained(n)
      /\ Retained(n) \in Copies /\ Retained(n) # Nil
      /\ Retained(n).text = text /\ Retained(n).form = e.form /\ Retained(n).base = e.saved
  <2>1. ChangedTo(e, text, n)
    BY <1>0, ChangedFacts
  <2> QED BY <2>1 DEF ChangedTo
<1>2. ed' = n /\ copy' = Retained(n) /\ timer' = [text |-> text, gen |-> n.gen]
  BY DEF MarkChanged
<1> HIDE DEF n
<1>3. /\ ed' \in Editors /\ ed'.ws = e.ws /\ ed'.text = text /\ ed'.saved = e.saved /\ ed'.shown = e.shown /\ ed'.unsaved = TRUE
      /\ ed'.gen = ed.gen + 1 /\ ed'.state = "DIRTY" /\ ed'.conflict = 0 /\ ed'.form = e.form /\ ed'.here
      /\ ed'.offer = IF e.offer = Nil THEN Nil ELSE copy'
      /\ copy' \in Copies /\ copy' # Nil /\ copy'.text = text /\ copy'.form = e.form /\ copy'.base = e.saved
  BY <1>1, <1>2 DEF Loaded
<1>4. timer' \in Autosaves /\ timer'.text = text /\ timer'.gen = ed'.gen /\ timer' # Nil
  <2>1. timer' \in Autosaves /\ timer'.text = text /\ timer'.gen = n.gen
    BY <1>0, <1>1, <1>2 DEF Autosaves
  <2> QED BY <2>1, <1>2, ReportAssumption
<1>5. Loaded' /\ load = Nil /\ load' = Nil /\ ed.here /\ Head_' = Head_ /\ ~Locked'
  BY <1>3, ReportAssumption DEF Loaded, Head_, Locked
<1> HIDE DEF MarkChanged
<1>6. /\ Len(chain) \in Nat
      /\ \A i \in 1..Len(chain) : chain[i].gen \in 1..ed.gen /\ chain[i].ver \in Nat
      /\ chain # <<>> => 1 \in 1..Len(chain)
  BY SaveTyped DEF RInv, EditorTypeOK, Gens
<1>7. EditorTypeOK'
  <2>1. /\ srv' = srv /\ ed'.text \in Texts /\ {ed'.saved, ed'.shown, ed'.conflict} \subseteq 0..Head_
        /\ chain' = chain /\ old' = old /\ op' = op /\ load' = load
    BY <1>0, <1>3
  <2> QED BY <1>0, <1>3, <1>4, <1>5, <2>1 DEF EditorTypeOK, Counts, Texts
<1>8. Bounded'
  BY <1>0, <1>3, <1>4, <1>5 DEF RInv, Bounded, OpOK, Texts
<1>9. Placed'
  <2>1. ed'.ws # Nil /\ ed'.here /\ load' = Nil /\ ~Locked' /\ old' = old /\ chain' = chain
    BY <1>3, <1>5, ReportAssumption
  <2>2. /\ old = <<>> /\ \A i \in 2..Len(chain) : chain[i].step = "queued"
        /\ \A i \in 2..Len(old) : old[i].step = "queued"
    BY <1>5 DEF RInv, Placed
  <2> QED BY <2>1, <2>2 DEF Placed
<1>10. Gens'
  <2>1. \A i \in 1..Len(chain) : chain[i].gen \in 1..ed'.gen /\ chain[i].gen # ed'.gen
    BY <1>0, <1>3, <1>6
  <2>2. ed'.gen # 0
    BY <1>0, <1>3
  <2> QED BY <1>0, <1>3, <1>4, <2>1, <2>2 DEF RInv, Gens
<1>11. Answers'
  <2>1. chain # <<>> => AnswerOK(chain[1])'
    BY <1>0, <1>3, <1>6 DEF RInv, Answers, AnswerOK
  <2>2. old # <<>> => AnswerOK(old[1])'
    BY <1>5 DEF RInv, Placed
  <2>3. chain # <<>> /\ chain[1].step = "conflict" => e.shown <= chain[1].ver /\ e.saved <= chain[1].ver /\ 0 <= chain[1].ver
    BY <1>0, <1>6
  <2>4. ed'.gen # 0
    BY <1>0, <1>3
  <2> QED BY <1>3, <1>5, <2>1, <2>2, <2>3, <2>4 DEF Answers, AnswerOK
<1>12. Screen' /\ Copied' /\ Saving'
  BY <1>3, <1>4, <1>5 DEF Screen, Copied, CopyFits, Saving
<1>13. Worked'
  <2>1. \A t : Published(t)' <=> Published(t)
    BY <1>5 DEF Published
  <2> QED BY <1>3, <2>1 DEF Worked
<1>14. Operated'
  <2>1. \A K : ~LiveOp(K)'
    BY <1>5 DEF LiveOp, Locked
  <2> QED BY <2>1 DEF Operated
<1>15. Alone'
  <2> SUFFICES ASSUME count'.events = 0 PROVE Undisturbed'
    BY DEF Alone
  <2>1. Undisturbed /\ e.saved = ed.saved
    BY DEF RInv, Alone
  <2>2. \A i \in 1..Len(chain) : chain[i].gen < ed'.gen
    BY <1>0, <1>3, <1>6
  <2>3. ed'.gen # 0
    BY <1>0, <1>3
  <2> QED BY <1>3, <1>4, <1>5, <2>1, <2>2, <2>3 DEF Undisturbed
<1> QED BY <1>7, <1>8, <1>9, <1>10, <1>11, <1>12, <1>13, <1>14, <1>15 DEF RInv

LEMMA EditKept ==
  ASSUME Slips = {}, RInv, Edit
  PROVE  RInv'
<1>0. /\ EditorTypeOK /\ Head_ \in Nat /\ ed \in Editors /\ count \in Counts /\ work \in [text : 0..count.edits, form : 0..count.forms]
      /\ Loaded /\ ~Locked /\ Answered /\ MarkChanged(ed, count.edits + 1) /\ count.edits < MaxEdits
      /\ UNCHANGED <<srv, chain, old, op, load>>
  BY CountTyped, Kept DEF RInv, Edit, Writable, EditorTypeOK
<1>1. ed.ws \in Views /\ ed.ws.ver <= Head_ /\ ed.saved <= ed.shown /\ ed.shown <= Head_ /\ ed.shown \in Nat
  BY <1>0, Kept DEF RInv, Loaded, Bounded, Answers
<1>2. /\ work' = [work EXCEPT !.text = count.edits + 1] /\ count' = [count EXCEPT !.edits = @ + 1]
  BY DEF Edit
<1>3. /\ count' \in Counts /\ count'.edits = count.edits + 1 /\ count'.forms = count.forms /\ count'.events = count.events
      /\ count.edits + 1 \in Nat /\ count.edits + 1 \in 0..MaxEdits
  BY <1>0, <1>2, ReportAssumption DEF Counts
<1>4. work'.text = count.edits + 1 /\ work'.form = work.form /\ work' \in [text : 0..count'.edits, form : 0..count'.forms]
  <2>1. count.edits + 1 \in 0..count'.edits
    BY <1>3
  <2>2. work'.text = count.edits + 1 /\ work'.form = work.form /\ work' \in [text : 0..count'.edits, form : 0..count.forms]
    BY <1>0, <1>2, <2>1
  <2> QED BY <1>3, <2>2
<1>5. count.edits + 1 \in Texts
  BY <1>3, TextsFacts
<1>6. work.form # 0 => work.form = ed.form
  <2>1. copy = Nil \/ CopyFits
    BY <1>0, AnsweredFits
  <2> QED BY <2>1 DEF RInv, Worked, CopyFits
<1>7. chain # <<>> /\ chain[1].step = "conflict" => ed.shown <= chain[1].ver
  BY DEF RInv, Answers
<1>8. ed.shown <= ed.shown
  BY <1>1
<1> QED BY <1>0, <1>1, <1>3, <1>4, <1>5, <1>6, <1>7, <1>8, ChangedKept
-----------------------------------------------------------------------------
(* Steps that leave the draft, its saves and its operation as they are *)
LEMMA ScreenKept ==
  ASSUME RInv, Loaded, UNCHANGED <<srv, timer, chain, old, load>>, ed' \in Editors,
         ed'.text = ed.text, ed'.saved = ed.saved, ed'.shown = ed.shown, ed'.unsaved = ed.unsaved, ed'.gen = ed.gen,
         ed'.state = ed.state, ed'.conflict = ed.conflict, ed'.here = ed.here,
         ed'.ws \in Views, ed'.ws.ver <= Head_,
         copy' \in Copies \cup {Nil}, copy' # Nil => copy' = copy \/ (copy'.text \in Texts /\ copy'.base <= ed.shown),
         count' \in Counts, work' \in [text : 0..count'.edits, form : 0..count'.forms],
         op' \in Operations \cup {Nil}, OpOK', Locked' => Locked, Copied', Worked', Operated',
         count'.events = 0 => count.events = 0,
         Undisturbed /\ ed.gen = 0 => ed'.offer = Nil /\ op' = Nil /\ ed'.pick = Nil /\ ed'.ws.frozen = {},
         Undisturbed /\ op' # Nil => op'.kind = op.kind /\ (op.kind = "freeze" \/ (op'.step = op.step /\ op'.ws = op.ws)),
         Undisturbed /\ op' = Nil => op = Nil \/ op.kind \notin {"restore", "changes"} \/ op.step # "ok",
         op = Nil => op' = Nil
  PROVE  RInv'
<1>0. /\ EditorTypeOK /\ Head_ \in Nat /\ ed.saved <= Head_ /\ ed.shown <= Head_ /\ ed.conflict <= Head_
      /\ ed.shown \in Nat /\ ed.saved \in Nat /\ ed.conflict \in Nat
      /\ ed.here /\ ed.ws # Nil /\ load = Nil /\ ed'.ws # Nil
  BY Kept, ReportAssumption DEF RInv, Loaded
<1>1. Loaded' /\ Head_' = Head_
  BY <1>0 DEF Loaded, Head_
<1>2. EditorTypeOK'
  <2>1. /\ srv' = srv /\ ed'.text = ed.text /\ {ed'.saved, ed'.shown, ed'.conflict} \subseteq 0..Head_
        /\ timer' = timer /\ chain' = chain /\ old' = old /\ load' = load
    BY <1>0
  <2> QED BY <1>0, <1>1, <2>1 DEF EditorTypeOK, Counts, Texts
<1>3. copy' # Nil => copy'.text \in Texts /\ copy'.base <= Head_
  <2>1. copy # Nil => copy.text \in Texts /\ copy.base <= Head_
    BY DEF RInv, Bounded
  <2>2. CASE copy' = copy
    BY <2>1, <2>2
  <2>3. CASE copy' # copy
    BY <1>0, <2>3 DEF Copies
  <2> QED BY <2>2, <2>3
<1>4. Bounded'
  BY <1>0, <1>1, <1>3 DEF RInv, Bounded, Texts
<1>5. Placed'
  BY <1>0, <1>1 DEF RInv, Placed
<1>6. Gens'
  BY DEF RInv, Gens
<1>7. Answers'
  <2>1. /\ chain # <<>> => AnswerOK(chain[1])'
        /\ old # <<>> => AnswerOK(old[1])'
    BY DEF RInv, Answers, AnswerOK
  <2>2. ed.gen = 0 /\ copy' # Nil => copy'.base <= ed.shown
    BY DEF RInv, Answers
  <2> QED BY <1>0, <1>1, <2>1, <2>2 DEF RInv, Answers, AnswerOK
<1>8. Screen' /\ Saving'
  BY <1>0, <1>1 DEF RInv, Screen, Saving, TextOf
<1>9. Alone'
  <2> SUFFICES ASSUME count'.events = 0 PROVE Undisturbed'
    BY DEF Alone
  <2>1. Undisturbed
    BY DEF RInv, Alone
  <2>2. ed'.here /\ (op' # Nil => op'.kind # "shared")
    BY <2>1, <1>0 DEF Undisturbed
  <2>3. ed'.gen = 0 => Head_' = 0 /\ ed'.offer = Nil /\ op' = Nil /\ ed'.pick = Nil /\ (ed'.ws # Nil => ed'.ws.frozen = {})
    BY <1>1, <2>1 DEF Undisturbed
  <2>4. IF op' # Nil /\ op'.kind \in {"restore", "changes"} /\ op'.step = "ok" THEN op'.ws.ver = Head_
        ELSE (chain # <<>> /\ chain[1].step = "ok") \/ ed.saved = Head_
    BY <2>1 DEF Undisturbed
  <2> QED BY <1>0, <1>1, <2>1, <2>2, <2>3, <2>4 DEF Undisturbed
<1> QED BY <1>2, <1>4, <1>5, <1>6, <1>7, <1>8, <1>9 DEF RInv

LEMMA TypeOpinionKept ==
  ASSUME Slips = {}, RInv, TypeOpinion
  PROVE  RInv'
<1> DEFINE e == [ed EXCEPT !.form = count.forms + 1]
           n == Keeping(e)
<1>0. /\ EditorTypeOK /\ Head_ \in Nat /\ ed \in Editors /\ count \in Counts /\ work \in [text : 0..count.edits, form : 0..count.forms]
      /\ Loaded /\ ~Locked /\ Answered /\ count.forms < MaxForms /\ op \in Operations \cup {Nil}
      /\ UNCHANGED <<srv, timer, chain, old, op, load>>
  BY CountTyped, Kept DEF RInv, TypeOpinion, Writable, EditorTypeOK
<1>1. /\ count' \in Counts /\ count'.edits = count.edits /\ count'.forms = count.forms + 1 /\ count'.events = count.events
      /\ count.forms + 1 \in Nat \ {0}
  BY <1>0, ReportAssumption DEF Counts, TypeOpinion
<1>2. work'.form = count.forms + 1 /\ work'.text = work.text /\ work' \in [text : 0..count'.edits, form : 0..count'.forms]
  <2>1. count.forms + 1 \in 0..count'.forms
    BY <1>1
  <2>2. work'.form = count.forms + 1 /\ work'.text = work.text /\ work' \in [text : 0..count.edits, form : 0..count'.forms]
    BY <1>0, <2>1 DEF TypeOpinion
  <2> QED BY <1>1, <2>2
<1>3. /\ e \in Editors /\ e.ws = ed.ws /\ e.text = ed.text /\ e.saved = ed.saved /\ e.shown = ed.shown /\ e.unsaved = ed.unsaved
      /\ e.gen = ed.gen /\ e.state = ed.state /\ e.conflict = ed.conflict /\ e.form = count.forms + 1 /\ e.pick = ed.pick
      /\ e.here = ed.here /\ e.offer = ed.offer
  BY <1>0, <1>1 DEF Editors
<1>4. ed' = n /\ copy' = Retained(n)
  BY DEF TypeOpinion
<1> HIDE DEF e
<1>5. /\ n \in Editors /\ n.ws = e.ws /\ n.text = e.text /\ n.saved = e.saved /\ n.shown = e.shown /\ n.unsaved = e.unsaved
      /\ n.gen = e.gen /\ n.state = e.state /\ n.conflict = e.conflict /\ n.form = e.form /\ n.pick = e.pick /\ n.here = e.here
      /\ n.offer = IF e.offer = Nil THEN Nil ELSE Retained(n)
      /\ Retained(n) = Retained(e)
  BY <1>3, KeepingFacts
<1> HIDE DEF n
<1>6. DirtyOf(n)
  BY <1>1, <1>3, <1>5 DEF DirtyOf
<1>7. copy' \in Copies \cup {Nil} /\ copy' # Nil /\ copy'.text = n.text /\ copy'.form = n.form /\ copy'.base = n.saved
  BY <1>4, <1>5, <1>6, RetainedFacts
<1>8. /\ ed' \in Editors /\ ed'.ws = ed.ws /\ ed'.text = ed.text /\ ed'.saved = ed.saved /\ ed'.shown = ed.shown /\ ed'.unsaved = ed.unsaved
      /\ ed'.gen = ed.gen /\ ed'.state = ed.state /\ ed'.conflict = ed.conflict /\ ed'.form = count.forms + 1 /\ ed'.pick = ed.pick
      /\ ed'.here = ed.here /\ ed'.offer = IF ed.offer = Nil THEN Nil ELSE copy'
      /\ copy'.text = ed.text /\ copy'.form = ed'.form /\ copy'.base = ed.saved
  BY <1>3, <1>4, <1>5, <1>7
<1>9. ed'.ws \in Views /\ ed'.ws.ver <= Head_
  BY <1>0, <1>8, Kept DEF RInv, Loaded, Bounded
<1>10. copy' # Nil => copy' = copy \/ (copy'.text \in Texts /\ copy'.base <= ed.shown)
  BY <1>0, <1>8 DEF RInv, Answers, EditorTypeOK
<1>11. OpOK'
  BY <1>0 DEF RInv, Bounded, OpOK, Head_, Restores, Texts
<1>12. (Locked' => Locked) /\ Copied' /\ Operated'
  BY <1>0, <1>7, <1>8 DEF Locked, Copied, CopyFits, Operated, LiveOp
<1>13. Worked'
  <2>1. copy = Nil \/ CopyFits
    BY <1>0, AnsweredFits
  <2>2. work.text # 0 => Published(work.text)' \/ copy'.text = work.text
    BY <1>0, <1>2, <1>8, <2>1 DEF RInv, Worked, CopyFits, Published, Head_
  <2> QED BY <1>2, <1>7, <1>8, <2>2 DEF Worked, Published
<1>14. Undisturbed /\ ed.gen = 0 => ed'.offer = Nil /\ op' = Nil /\ ed'.pick = Nil /\ ed'.ws.frozen = {}
  BY <1>0, <1>8 DEF Undisturbed, Loaded
<1>15. /\ Undisturbed /\ op' # Nil => op'.kind = op.kind /\ (op.kind = "freeze" \/ (op'.step = op.step /\ op'.ws = op.ws))
       /\ Undisturbed /\ op' = Nil => op = Nil \/ op.kind \notin {"restore", "changes"} \/ op.step # "ok"
       /\ op = Nil => op' = Nil
  BY <1>0 DEF Undisturbed
<1> QED BY <1>0, <1>1, <1>2, <1>7, <1>8, <1>9, <1>10, <1>11, <1>12, <1>13, <1>14, <1>15, ScreenKept

LEMMA DiscardKept ==
  ASSUME RInv, DiscardRecovery
  PROVE  RInv'
<1>0. /\ EditorTypeOK /\ Head_ \in Nat /\ ed \in Editors /\ count \in Counts
      /\ Loaded /\ ~Locked /\ op \in Operations \cup {Nil}
      /\ UNCHANGED <<srv, timer, chain, old, op, load>> /\ copy' = Nil /\ work' = NoWork
  BY CountTyped, Kept DEF RInv, DiscardRecovery, EditorTypeOK
<1>1. count' \in Counts /\ count'.edits = count.edits /\ count'.forms = count.forms /\ count'.events = count.events
  BY <1>0, PressedFacts DEF DiscardRecovery
<1>2. work'.text = 0 /\ work'.form = 0 /\ work' \in [text : 0..count'.edits, form : 0..count'.forms]
  BY <1>0, <1>1 DEF NoWork, Counts
<1>3. ed' = [ed EXCEPT !.offer = Nil]
  BY DEF DiscardRecovery
<1>4. /\ ed' \in Editors /\ ed'.ws = ed.ws /\ ed'.text = ed.text /\ ed'.saved = ed.saved /\ ed'.shown = ed.shown /\ ed'.unsaved = ed.unsaved
      /\ ed'.gen = ed.gen /\ ed'.state = ed.state /\ ed'.conflict = ed.conflict /\ ed'.form = ed.form /\ ed'.pick = ed.pick
      /\ ed'.here = ed.here /\ ed'.offer = Nil
  BY <1>0, <1>3 DEF Editors
<1>5. ed'.ws \in Views /\ ed'.ws.ver <= Head_
  BY <1>0, <1>4, Kept DEF RInv, Loaded, Bounded
<1>6. OpOK'
  BY <1>0 DEF RInv, Bounded, OpOK, Head_, Restores, Texts
<1>7. (Locked' => Locked) /\ Copied' /\ Operated' /\ Worked'
  BY <1>0, <1>2, <1>4 DEF Locked, Copied, CopyFits, Operated, LiveOp, Worked
<1>8. Undisturbed /\ ed.gen = 0 => ed'.offer = Nil /\ op' = Nil /\ ed'.pick = Nil /\ ed'.ws.frozen = {}
  BY <1>0, <1>4 DEF Undisturbed, Loaded
<1>9. /\ Undisturbed /\ op' # Nil => op'.kind = op.kind /\ (op.kind = "freeze" \/ (op'.step = op.step /\ op'.ws = op.ws))
      /\ Undisturbed /\ op' = Nil => op = Nil \/ op.kind \notin {"restore", "changes"} \/ op.step # "ok"
      /\ op = Nil => op' = Nil
  BY <1>0 DEF Undisturbed
<1> QED BY <1>0, <1>1, <1>2, <1>4, <1>5, <1>6, <1>7, <1>8, <1>9, ScreenKept

LEMMA SelectKept ==
  ASSUME RInv, SelectFrozen
  PROVE  RInv'
<1>0. /\ EditorTypeOK /\ Head_ \in Nat /\ ed \in Editors /\ count \in Counts /\ work \in [text : 0..count.edits, form : 0..count.forms]
      /\ Loaded /\ ~Locked /\ op \in Operations \cup {Nil} /\ copy \in Copies \cup {Nil}
      /\ UNCHANGED <<srv, timer, chain, old, op, load, copy, work, count>>
  BY CountTyped, Kept DEF RInv, SelectFrozen, EditorTypeOK
<1>1. PICK f \in Fileable : ed' = [ed EXCEPT !.pick = f]
  BY DEF SelectFrozen
<1>2. ed.ws \in Views /\ f \in ed.ws.frozen /\ f \in Outputs /\ ed.ws.ver <= Head_
  BY <1>0, Kept DEF Fileable, Loaded, Views, RInv, Bounded
<1>4. /\ ed' \in Editors /\ ed'.ws = ed.ws /\ ed'.text = ed.text /\ ed'.saved = ed.saved /\ ed'.shown = ed.shown /\ ed'.unsaved = ed.unsaved
      /\ ed'.gen = ed.gen /\ ed'.state = ed.state /\ ed'.conflict = ed.conflict /\ ed'.form = ed.form /\ ed'.offer = ed.offer
      /\ ed'.here = ed.here
  BY <1>0, <1>1, <1>2 DEF Editors
<1>6. OpOK'
  BY <1>0 DEF RInv, Bounded, OpOK, Head_, Restores, Texts
<1>7. (Locked' => Locked) /\ Loaded' /\ Copied' /\ Operated' /\ Worked'
  BY <1>0, <1>4 DEF RInv, Locked, Loaded, Copied, CopyFits, DirtyOf, Operated, LiveOp, Worked, Published, Head_
<1>8. Undisturbed /\ ed.gen = 0 => ed'.offer = Nil /\ op' = Nil /\ ed'.pick = Nil /\ ed'.ws.frozen = {}
  BY <1>0, <1>2 DEF Undisturbed, Loaded
<1>9. /\ Undisturbed /\ op' # Nil => op'.kind = op.kind /\ (op.kind = "freeze" \/ (op'.step = op.step /\ op'.ws = op.ws))
      /\ Undisturbed /\ op' = Nil => op = Nil \/ op.kind \notin {"restore", "changes"} \/ op.step # "ok"
      /\ op = Nil => op' = Nil
  BY <1>0 DEF Undisturbed
<1>10. work' \in [text : 0..count'.edits, form : 0..count'.forms] /\ count' \in Counts /\ ed'.ws \in Views /\ ed'.ws.ver <= Head_
  BY <1>0, <1>2, <1>4
<1> QED BY <1>0, <1>2, <1>4, <1>6, <1>7, <1>8, <1>9, <1>10, ScreenKept
-----------------------------------------------------------------------------
(* Conflicts and recovery *)
LEMMA RetryOverKept ==
  ASSUME RInv, RetryOver
  PROVE  RInv'
<1> DEFINE c == ed.conflict
           wv == [ed.ws EXCEPT !.ver = c]
           e == [ed EXCEPT !.saved = c, !.shown = c, !.ws = wv]
<1>0. /\ EditorTypeOK /\ Head_ \in Nat /\ ed \in Editors /\ count \in Counts /\ work \in [text : 0..count.edits, form : 0..count.forms]
      /\ Loaded /\ ~Locked /\ c # 0 /\ c \in Nat /\ c <= Head_ /\ ed.ws \in Views /\ ed.text \in Texts /\ ed.gen # 0 /\ ed.here
      /\ UNCHANGED <<srv, chain, old, op, load>> /\ work' = work
  BY CountTyped, Kept DEF RInv, RetryOver, EditorTypeOK, Loaded, Gens
<1>1. count' \in Counts /\ count'.edits = count.edits /\ count'.forms = count.forms /\ count'.events = count.events
  BY <1>0, PressedFacts DEF RetryOver
<1>2. MarkChanged(e, ed.text)
  BY <1>0 DEF RetryOver, Editors
<1>3. ed.shown <= c /\ (chain # <<>> /\ chain[1].step = "conflict" => c <= chain[1].ver)
  BY <1>0 DEF RInv, Answers
<1> HIDE DEF c
<1>4. wv \in Views /\ wv.ver = c
  BY <1>0 DEF Views
<1> HIDE DEF wv
<1>5. /\ e \in Editors /\ e.ws = wv /\ e.saved = c /\ e.shown = c /\ e.form = ed.form /\ e.gen = ed.gen /\ e.here = ed.here
  BY <1>0, <1>4 DEF Editors
<1> HIDE DEF e
<1>6. /\ e.ws \in Views /\ e.ws.ver <= Head_ /\ e.saved <= e.shown /\ ed.shown <= e.shown /\ e.shown <= Head_
      /\ chain # <<>> /\ chain[1].step = "conflict" => e.shown <= chain[1].ver
  BY <1>0, <1>3, <1>4, <1>5
<1>7. copy = Nil \/ CopyFits
  BY <1>0 DEF RInv, Copied
<1>8. /\ work' \in [text : 0..count'.edits, form : 0..count'.forms]
      /\ work'.text # 0 => Published(work'.text) \/ work'.text = ed.text
      /\ work'.form # 0 => work'.form = e.form
  BY <1>0, <1>1, <1>5, <1>7 DEF RInv, Worked, CopyFits
<1>9. count'.events = 0 => count.events = 0 /\ (Undisturbed => e.saved = ed.saved)
  BY <1>0, <1>1 DEF Undisturbed, c
<1> QED BY <1>0, <1>1, <1>2, <1>5, <1>6, <1>8, <1>9, ChangedKept

LEMMA ApplyKept ==
  ASSUME Slips = {}, RInv, ApplyRecovery
  PROVE  RInv'
<1> DEFINE b == ed.offer.base
           f == ed.offer.form
           t == ed.offer.text
           e == [ed EXCEPT !.saved = b, !.form = f]
<1>0. /\ EditorTypeOK /\ Head_ \in Nat /\ ed \in Editors /\ count \in Counts /\ work \in [text : 0..count.edits, form : 0..count.forms]
      /\ Loaded /\ ~Locked /\ ed.offer # Nil /\ ed.ws \in Views /\ ed.here /\ ed.ws.ver <= Head_ /\ ed.shown \in Nat /\ ed.shown <= Head_
      /\ UNCHANGED <<srv, chain, old, op, load>> /\ work' = work
  BY CountTyped, Kept DEF RInv, ApplyRecovery, EditorTypeOK, Loaded, Bounded
<1>1. count' \in Counts /\ count'.edits = count.edits /\ count'.forms = count.forms /\ count'.events = count.events
  BY <1>0, PressedFacts DEF ApplyRecovery
<1>2. MarkChanged(e, t) /\ (b = ed.saved \/ ed.gen = 0)
  BY DEF ApplyRecovery
<1>3. copy # Nil /\ copy \in Copies /\ ed.offer = copy /\ t \in Texts /\ b = copy.base /\ f = copy.form /\ t = copy.text
  BY <1>0 DEF RInv, Copied, Bounded, EditorTypeOK
<1>4. b <= ed.shown /\ b \in Nat /\ f \in Nat
  BY <1>0, <1>2, <1>3 DEF RInv, Answers, Copies
<1> HIDE DEF b, f, t
<1>5. /\ e \in Editors /\ e.ws = ed.ws /\ e.saved = b /\ e.shown = ed.shown /\ e.form = f /\ e.gen = ed.gen /\ e.here = ed.here
  BY <1>0, <1>4 DEF Editors
<1> HIDE DEF e
<1>6. /\ e.ws \in Views /\ e.ws.ver <= Head_ /\ e.saved <= e.shown /\ ed.shown <= e.shown /\ e.shown <= Head_
      /\ chain # <<>> /\ chain[1].step = "conflict" => e.shown <= chain[1].ver
  BY <1>0, <1>4, <1>5 DEF RInv, Answers
<1>8. /\ work' \in [text : 0..count'.edits, form : 0..count'.forms]
      /\ work'.text # 0 => Published(work'.text) \/ work'.text = t
      /\ work'.form # 0 => work'.form = e.form
  BY <1>0, <1>1, <1>3, <1>5 DEF RInv, Worked
<1>9. count'.events = 0 => count.events = 0 /\ (Undisturbed => e.saved = ed.saved)
  BY <1>0, <1>1, <1>2, <1>5 DEF Undisturbed
<1> QED BY <1>0, <1>1, <1>2, <1>3, <1>5, <1>6, <1>8, <1>9, ChangedKept
-----------------------------------------------------------------------------
(* Saves are queued *)
LEMMA StateFacts ==
  ASSUME ed \in Editors, NEW st \in {"IDLE", "INCOMPLETE", "DIRTY", "SAVING", "SAVED", "CONFLICT", "ERROR"}, ed' = [ed EXCEPT !.state = st]
  PROVE  /\ ed' \in Editors /\ ed'.ws = ed.ws /\ ed'.text = ed.text /\ ed'.saved = ed.saved /\ ed'.shown = ed.shown
         /\ ed'.unsaved = ed.unsaved /\ ed'.gen = ed.gen /\ ed'.state = st /\ ed'.conflict = ed.conflict /\ ed'.form = ed.form
         /\ ed'.offer = ed.offer /\ ed'.pick = ed.pick /\ ed'.here = ed.here
BY DEF Editors

LEMMA QueuedFacts ==
  ASSUME EditorTypeOK, NEW text \in Nat, NEW gen \in Nat, NEW q, q = Queued(text, gen)
  PROVE  q \in Saves /\ q.text = text /\ q.gen = gen /\ q.step = "queued" /\ q.ver = ed.saved /\ q.ws = Nil
<1>1. ed.saved \in Nat
  BY Kept
<1> QED BY <1>1 DEF Queued, Saves

LEMMA EnqueueKept ==
  ASSUME RInv, Loaded, ed.gen # 0, Enqueue(ed.text, ed.gen), UNCHANGED <<srv, old, op, load, copy, work, count>>,
         \/ timer # Nil /\ timer' = Nil
         \/ timer' = timer /\ ed.state = "ERROR" /\ ed.unsaved
  PROVE  RInv'
<1>0. /\ EditorTypeOK /\ Head_ \in Nat /\ ed \in Editors /\ ed.gen \in Nat /\ ed.saved \in Nat /\ ed.saved <= Head_ /\ ed.text \in Nat
      /\ ed.text \in Texts /\ chain \in Seq(Saves) /\ ed.here /\ load = Nil
  BY Kept DEF RInv, EditorTypeOK, Loaded
<1> DEFINE st == ed'.state
           q == Queued(ed.text, ed.gen)
<1>1. /\ ed' = [ed EXCEPT !.state = st] /\ st \in {"INCOMPLETE", "SAVING"}
      /\ \/ st = "INCOMPLETE" /\ chain' = chain
         \/ st = "SAVING" /\ chain' = Append(chain, q)
  BY <1>0 DEF Enqueue, Editors
<1>2. /\ ed' \in Editors /\ ed'.ws = ed.ws /\ ed'.text = ed.text /\ ed'.saved = ed.saved /\ ed'.shown = ed.shown
      /\ ed'.unsaved = ed.unsaved /\ ed'.gen = ed.gen /\ ed'.state = st /\ ed'.conflict = ed.conflict /\ ed'.form = ed.form
      /\ ed'.offer = ed.offer /\ ed'.pick = ed.pick /\ ed'.here = ed.here
  BY <1>0, <1>1, StateFacts
<1>3. q \in Saves /\ q.text = ed.text /\ q.gen = ed.gen /\ q.step = "queued" /\ q.ver = ed.saved /\ q.ws = Nil
  BY <1>0, QueuedFacts
<1> HIDE DEF q, st
<1>4. /\ Len(chain) \in Nat
      /\ \A i \in 1..Len(chain) : /\ chain[i] \in Saves /\ chain[i].text \in Nat /\ chain[i].gen \in Nat /\ chain[i].ver \in Nat
                                  /\ chain[i].step \in {"queued", "sent", "ok", "conflict", "fail"} /\ chain[i].ws \in Views \cup {Nil}
      /\ chain # <<>> => 1 \in 1..Len(chain) /\ chain[1] \in Saves
  BY <1>0, SaveTyped
<1>5. CASE st = "INCOMPLETE" /\ chain' = chain
  <2>1. EditorTypeOK'
    <3>1. timer' \in Autosaves \cup {Nil}
      BY <1>0 DEF EditorTypeOK
    <3> QED BY <1>0, <1>2, <1>5, <3>1 DEF EditorTypeOK, Head_, Texts
  <2>2. Bounded'
    BY <1>2, <1>5 DEF RInv, Bounded, OpOK, Head_, Texts, Restores
  <2>3. Loaded' /\ (Locked' <=> Locked)
    BY <1>0, <1>2, ReportAssumption DEF Loaded, Locked
  <2>4. Placed'
    BY <1>0, <1>2, <1>5, <2>3 DEF RInv, Placed
  <2>5. Gens' /\ Answers'
    BY <1>0, <1>2, <1>5, <2>3 DEF RInv, Gens, Answers, AnswerOK
  <2>6. Screen' /\ Copied' /\ Worked' /\ Operated' /\ Saving'
    BY <1>0, <1>2, <1>5, <2>3 DEF RInv, Screen, Copied, CopyFits, DirtyOf, Worked, Published, Operated, LiveOp, Saving, TextOf, Head_
  <2>7. Alone'
    <3> SUFFICES ASSUME count'.events = 0 PROVE Undisturbed'
      BY DEF Alone
    <3>1. Undisturbed
      BY DEF RInv, Alone
    <3> QED BY <1>0, <1>2, <1>5, <3>1 DEF Undisturbed, Head_
  <2> QED BY <2>1, <2>2, <2>4, <2>5, <2>6, <2>7 DEF RInv
<1>6. CASE st = "SAVING" /\ chain' = Append(chain, q)
  <2> DEFINE p == Append(chain, q)
             m == Len(chain) + 1
  <2>1. /\ p \in Seq(Saves) /\ Len(chain) \in Nat /\ Len(p) = Len(chain) + 1 /\ p[Len(chain) + 1] = q /\ \A i \in 1..Len(chain) : p[i] = chain[i]
        /\ p # <<>> /\ p[1] = IF chain = <<>> THEN q ELSE chain[1]
    <3>1. chain \in Seq(Saves) /\ q \in Saves
      BY <1>0, <1>3
    <3>2. p = Append(chain, q)
      OBVIOUS
    <3> HIDE DEF p
    <3> QED BY <3>1, <3>2, AppendFacts
  <2>2. chain' = p
    BY <1>6
  <2> HIDE DEF p
  <2>3. /\ \A i \in 1..Len(chain') : chain'[i] = IF i = m THEN q ELSE chain[i]
        /\ \A i \in 1..Len(chain') : i = m \/ i \in 1..Len(chain)
        /\ Len(chain') = m /\ m \in Nat \ {0}
        /\ chain' \in Seq(Saves) /\ chain' # <<>> /\ chain'[1] = IF chain = <<>> THEN q ELSE chain[1]
    BY <1>4, <2>1, <2>2
  <2>4. \A i \in 2..m : i = m \/ i \in 2..Len(chain)
    BY <1>4
  <2> HIDE DEF m
  <2>5. EditorTypeOK'
    <3>1. timer' \in Autosaves \cup {Nil}
      BY <1>0 DEF EditorTypeOK
    <3> QED BY <1>0, <1>2, <2>3, <3>1 DEF EditorTypeOK, Head_, Texts
  <2>6. Bounded'
    <3>1. \A i \in 1..Len(chain') : chain'[i].text \in Texts /\ chain'[i].ver <= Head_
      BY <1>0, <1>3, <2>3 DEF RInv, Bounded
    <3> QED BY <1>2, <3>1 DEF RInv, Bounded, OpOK, Head_, Texts, Restores
  <2>7. Loaded' /\ (Locked' <=> Locked)
    BY <1>0, <1>2, ReportAssumption DEF Loaded, Locked
  <2>8. Placed'
    <3>1. \A i \in 2..Len(chain') : chain'[i].step = "queued"
      <4> TAKE i \in 2..Len(chain')
      <4>1. i = m \/ i \in 2..Len(chain)
        BY <2>3, <2>4
      <4>2. i \in 1..Len(chain')
        BY <2>3
      <4> QED BY <1>3, <2>3, <4>1, <4>2 DEF RInv, Placed
    <3> QED BY <1>0, <1>2, <2>7, <3>1 DEF RInv, Placed
  <2>9. Gens'
    <3>1. \A i \in 1..Len(chain') : chain'[i].gen \in 1..ed.gen /\ (chain'[i].gen = ed.gen => chain'[i].text = ed.text)
      <4>1. ed.gen \in 1..ed.gen
        BY <1>0
      <4> QED BY <1>3, <2>3, <4>1 DEF RInv, Gens
    <3>2. \A i \in 1..Len(chain'), j \in 1..Len(chain') : i < j => chain'[i].gen <= chain'[j].gen
      <4> TAKE i \in 1..Len(chain'), j \in 1..Len(chain')
      <4> HAVE i < j
      <4>1. i \in 1..Len(chain) /\ chain'[i] = chain[i] /\ chain[i].gen \in 1..ed.gen
        BY <2>3 DEF RInv, Gens
      <4>2. CASE j = m
        BY <1>0, <1>3, <2>3, <4>1, <4>2
      <4>3. CASE j # m
        BY <2>3, <4>1, <4>3 DEF RInv, Gens
      <4> QED BY <4>2, <4>3
    <3>3. ed.here /\ ~ed.unsaved => \A i \in 1..Len(chain') : chain'[i].gen = ed.gen
      BY <1>3, <2>3 DEF RInv, Gens
    <3> QED BY <1>2, <3>1, <3>2, <3>3 DEF RInv, Gens
  <2>10. Answers'
    <3>1. chain'[1].step = "conflict" => chain # <<>> /\ chain'[1] = chain[1]
      BY <1>3, <2>3
    <3>2. AnswerOK(chain[1])'
      BY <1>2, <1>3, <2>3 DEF RInv, Answers, AnswerOK
    <3> QED BY <1>0, <1>2, <2>7, <3>1, <3>2 DEF RInv, Answers, AnswerOK
  <2>11. Screen' /\ Copied' /\ Worked' /\ Operated'
    BY <1>0, <1>2, <2>7 DEF RInv, Screen, Copied, CopyFits, DirtyOf, Worked, Published, Operated, LiveOp, TextOf, Head_
  <2>12. Saving'
    BY <1>2, <1>3, <1>6, <2>3, <2>7 DEF Saving
  <2>13. Alone'
    <3> SUFFICES ASSUME count'.events = 0 PROVE Undisturbed'
      BY DEF Alone
    <3>1. Undisturbed
      BY DEF RInv, Alone
    <3>2. timer # Nil /\ timer' = Nil
      BY <3>1 DEF Undisturbed
    <3>3. \A i \in 1..Len(chain) : chain[i].gen < ed.gen
      BY <3>1, <3>2 DEF Undisturbed
    <3>4. \A i \in 1..Len(chain'), j \in 1..Len(chain') : i < j => chain'[i].gen < chain'[j].gen
      <4> TAKE i \in 1..Len(chain'), j \in 1..Len(chain')
      <4> HAVE i < j
      <4>1. i \in 1..Len(chain) /\ chain'[i] = chain[i]
        BY <2>3
      <4>2. CASE j = m
        BY <1>0, <1>3, <2>3, <3>3, <4>1, <4>2
      <4>3. CASE j # m
        BY <2>3, <3>1, <4>1, <4>3 DEF Undisturbed
      <4> QED BY <4>2, <4>3
    <3>5. chain'[1].step \in {"queued", "sent", "ok"} /\ (chain'[1].step \in {"sent", "ok"} => chain'[1].ver = Head_)
      BY <1>3, <2>3, <3>1 DEF Undisturbed
    <3>6. IF op # Nil /\ op.kind \in {"restore", "changes"} /\ op.step = "ok" THEN op.ws.ver = Head_
          ELSE (chain' # <<>> /\ chain'[1].step = "ok") \/ ed.saved = Head_
      BY <2>3, <3>1 DEF Undisturbed
    <3>7. ed.unsaved
      BY <3>1, <3>2 DEF Undisturbed
    <3> QED BY <1>0, <1>1, <1>2, <3>1, <3>2, <3>4, <3>5, <3>6, <3>7 DEF Undisturbed, Head_
  <2> QED BY <2>5, <2>6, <2>8, <2>9, <2>10, <2>11, <2>12, <2>13 DEF RInv
<1> QED BY <1>1, <1>5, <1>6

LEMMA QueueKept ==
  ASSUME RInv, TimerFires \/ Retry
  PROVE  RInv'
<1>1. CASE TimerFires
  <2>1. timer # Nil /\ Enqueue(timer.text, timer.gen) /\ timer' = Nil /\ UNCHANGED <<srv, old, op, load, copy, work, count>>
    BY <1>1 DEF TimerFires
  <2>2. Loaded /\ ed.gen # 0 /\ timer.gen = ed.gen /\ timer.text = ed.text
    BY <2>1 DEF RInv, Placed, Gens, Loaded
  <2> QED BY <2>1, <2>2, EnqueueKept
<1>2. CASE Retry
  <2>1. Loaded /\ ed.state = "ERROR" /\ ed.unsaved /\ Enqueue(ed.text, ed.gen) /\ timer' = timer
        /\ UNCHANGED <<srv, old, op, load, copy, work, count>>
    BY <1>2 DEF Retry
  <2>2. ed.gen # 0
    BY <2>1 DEF RInv, Gens, Loaded
  <2> QED BY <2>1, <2>2, EnqueueKept
<1> QED BY <1>1, <1>2
-----------------------------------------------------------------------------
(* The first save of the chain is sent and served *)
LEMMA HeadKept ==
  ASSUME RInv, Grows, UNCHANGED <<ed, timer, old, op, load, copy, work>>,
         count' \in Counts, count'.edits = count.edits, count'.forms = count.forms,
         chain # <<>>, NEW x \in Saves, chain' = <<x>> \o Tail(chain), x.gen = chain[1].gen, x.text = chain[1].text, x.ver <= Head_',
         x.step = "ok" => x.ver # 0 /\ srv'.revs[x.ver] = x.text /\ x.ws # Nil /\ x.ws.ver = x.ver,
         x.step = "sent" => x.ver <= ed.shown,
         x.step = "conflict" => ed.shown <= x.ver /\ ed.saved <= x.ver /\ ed.conflict <= x.ver,
         count'.events = 0 =>
           /\ count.events = 0 /\ x.step \in {"sent", "ok"} /\ x.ver = Head_'
           /\ Undisturbed => IF x.step = "ok" THEN ~(op # Nil /\ op.kind \in {"restore", "changes"} /\ op.step = "ok")
                             ELSE Head_' = Head_ /\ chain[1].step # "ok"
  PROVE  RInv'
<1>0. /\ EditorTypeOK /\ Bounded /\ Head_ \in Nat /\ chain \in Seq(Saves) /\ old \in Seq(Saves) /\ Head_' \in Nat /\ Head_ <= Head_'
  BY Kept, GrowsFacts DEF RInv, EditorTypeOK
<1>1. /\ chain' \in Seq(Saves) /\ Len(chain') = Len(chain) /\ chain'[1] = x /\ \A i \in 2..Len(chain) : chain'[i] = chain[i]
      /\ chain' # <<>>
  <2> DEFINE p == chain'
  <2>1. p = <<x>> \o Tail(chain)
    OBVIOUS
  <2> HIDE DEF p
  <2>2. /\ p \in Seq(Saves) /\ Len(p) = Len(chain) /\ p[1] = x /\ \A i \in 2..Len(chain) : p[i] = chain[i]
        /\ p # <<>>
    BY <1>0, <2>1, HeadFacts
  <2> QED BY <2>2 DEF p
<1>2. /\ Len(chain) \in Nat
      /\ \A i \in 1..Len(chain) : /\ chain[i] \in Saves /\ chain[i].text \in Nat /\ chain[i].gen \in Nat /\ chain[i].ver \in Nat
                                  /\ chain[i].step \in {"queued", "sent", "ok", "conflict", "fail"} /\ chain[i].ws \in Views \cup {Nil}
      /\ chain # <<>> => 1 \in 1..Len(chain) /\ chain[1] \in Saves
  BY <1>0, SaveTyped
<1>o. /\ \A i \in 1..Len(old) : old[i].ver \in Nat
      /\ old # <<>> => 1 \in 1..Len(old)
  BY <1>0, SaveTyped
<1>3. \A i \in 1..Len(chain) : chain'[i].gen = chain[i].gen /\ chain'[i].text = chain[i].text
  <2> TAKE i \in 1..Len(chain)
  <2>1. i = 1 \/ i \in 2..Len(chain)
    BY <1>2
  <2> QED BY <1>1, <2>1
<1>4. \A i \in 1..Len(chain) : chain'[i].ver <= Head_' /\ chain'[i].text \in Texts
  <2> TAKE i \in 1..Len(chain)
  <2>1. i = 1 \/ i \in 2..Len(chain)
    BY <1>2
  <2>2. chain[i].ver <= Head_ /\ chain[i].text \in Texts /\ chain[i].ver \in Nat
    BY <1>2 DEF RInv, Bounded
  <2>3. i # 1 => chain'[i] = chain[i]
    BY <1>1, <2>1
  <2> QED BY <1>0, <1>1, <1>3, <2>1, <2>2, <2>3
<1>5. \A i \in 1..Len(old) : old[i].text \in Texts /\ old[i].ver <= Head_'
  BY <1>0, <1>o DEF RInv, Bounded
<1>6. GoesOn
  BY <1>0, OpSame
<1>7. (Loaded <=> Loaded') /\ (Locked' <=> Locked)
  BY DEF Loaded, Locked
<1>8. Placed'
  BY <1>1, <1>7 DEF RInv, Placed
<1>9. Gens'
  BY <1>1, <1>3 DEF RInv, Gens
<1>10. Answers'
  <2>1. AnswerOK(chain[1])'
    BY <1>1 DEF AnswerOK
  <2>2. old # <<>> => AnswerOK(old[1])'
    <3>1. old # <<>> /\ old[1].step = "ok" => srv'.revs[old[1].ver] = srv.revs[old[1].ver]
      BY <1>0, <1>o, GrowsFacts DEF RInv, Answers, AnswerOK, Bounded
    <3> QED BY <3>1 DEF RInv, Answers, AnswerOK
  <2> QED BY <1>1, <1>7, <2>1, <2>2 DEF RInv, Answers, AnswerOK
<1>11. Saving'
  <2>1. Len(chain) \in 1..Len(chain)
    BY <1>2
  <2> QED BY <1>1, <1>3, <1>7, <2>1 DEF RInv, Saving
<1>12. RSound'
  BY <1>0, <1>1, <1>4, <1>5, <1>6, <1>8, <1>9, <1>10, <1>11, FlowStep
<1>13. Alone'
  <2> SUFFICES ASSUME count'.events = 0 PROVE Undisturbed'
    BY DEF Alone
  <2>1. Undisturbed
    BY DEF RInv, Alone
  <2>2. ed.unsaved /\ ed.gen # 0 /\ load = Nil
    BY <2>1 DEF Undisturbed, RInv, Gens, Placed
  <2>3. \A i \in 1..Len(chain'), j \in 1..Len(chain') : i < j => chain'[i].gen < chain'[j].gen
    BY <1>1, <1>3, <2>1 DEF Undisturbed
  <2>4. timer # Nil => \A i \in 1..Len(chain') : chain'[i].gen < ed.gen
    BY <1>1, <1>3, <2>1 DEF Undisturbed
  <2>5. IF op # Nil /\ op.kind \in {"restore", "changes"} /\ op.step = "ok" THEN op.ws.ver = Head_'
        ELSE (chain' # <<>> /\ chain'[1].step = "ok") \/ ed.saved = Head_'
    BY <1>1, <2>1 DEF Undisturbed
  <2> QED BY <1>1, <2>1, <2>2, <2>3, <2>4, <2>5 DEF Undisturbed
<1> QED BY <1>12, <1>13, RInvOf

LEMMA ChainSendsKept ==
  ASSUME RInv, ChainSends
  PROVE  RInv' /\ Loaded
<1> DEFINE q == chain[1]
           x == Posted(q)
<1>0. /\ EditorTypeOK /\ Bounded /\ Head_ \in Nat /\ chain \in Seq(Saves) /\ count \in Counts /\ ed.saved \in Nat /\ ed.saved <= Head_
      /\ UNCHANGED <<srv, ed, timer, old, op, load, copy, work, count>> /\ chain # <<>> /\ q.step = "queued"
  BY Kept, CountTyped DEF RInv, EditorTypeOK, ChainSends
<1>1. Loaded
  BY <1>0, Kept DEF RInv, Placed, Loaded
<1>2. 1 \in 1..Len(chain) /\ q \in Saves /\ q.text \in Nat /\ q.gen \in 1..ed.gen
  BY <1>0, SaveTyped DEF RInv, Gens
<1>3. ed.gen \in Nat /\ q.gen <= ed.gen
  BY <1>0, <1>2, Kept
<1>4. chain' = <<x>> \o Tail(chain)
  BY <1>1, <1>3 DEF ChainSends, Put, Sends, Loaded
<1>5. x \in Saves /\ x.gen = q.gen /\ x.text = q.text /\ x.step = "sent" /\ x.ver = ed.saved
  BY <1>0, <1>2 DEF Posted, Saves
<1> HIDE DEF x
<1>6. Grows /\ Head_' = Head_
  BY <1>0, SameGrows
<1>7. x.step = "sent" => x.ver <= ed.shown
  BY <1>1, <1>5 DEF RInv, Answers
<1>8. count'.events = 0 =>
           /\ count.events = 0 /\ x.step \in {"sent", "ok"} /\ x.ver = Head_'
           /\ Undisturbed => IF x.step = "ok" THEN ~(op # Nil /\ op.kind \in {"restore", "changes"} /\ op.step = "ok")
                             ELSE Head_' = Head_ /\ chain[1].step # "ok"
  <2> SUFFICES ASSUME count'.events = 0 PROVE count.events = 0 /\ x.ver = Head_'
    BY <1>0, <1>5, <1>6
  <2>1. Undisturbed
    BY <1>0 DEF RInv, Alone
  <2>2. ed.unsaved
    BY <1>0, <2>1 DEF Undisturbed
  <2>3. op # Nil => op.kind \notin {"restore", "changes"}
    BY <2>2 DEF RInv, Operated, LiveOp
  <2>4. ed.saved = Head_
    BY <1>0, <2>1, <2>3 DEF Undisturbed
  <2> QED BY <1>0, <1>5, <1>6, <2>4
<1>9. x.ver <= Head_' /\ x.step # "ok" /\ x.step # "conflict"
  BY <1>0, <1>5, <1>6
<1>10. count' \in Counts /\ count'.edits = count.edits /\ count'.forms = count.forms /\ chain # <<>>
       /\ x.gen = chain[1].gen /\ x.text = chain[1].text
  BY <1>0, <1>5
<1> QED BY <1>0, <1>1, <1>4, <1>5, <1>6, <1>7, <1>8, <1>9, <1>10, HeadKept

\* What the server makes of a save, and what is lost of it.
LEMMA PutFacts ==
  ASSUME EditorTypeOK, Bounded, NEW q \in Saves, q.text \in Texts, NEW x, PutServed(q), x = ServedAnswer(q)
  PROVE  /\ Grows /\ count' = count /\ x \in Saves /\ x.gen = q.gen /\ x.text = q.text /\ x.ver <= Head_' /\ x.ver \in Nat
         /\ \/ /\ q.ver = Head_ /\ Head_' = Head_ + 1 /\ x.step = "ok" /\ x.ver = Head_' /\ x.ver # 0
               /\ srv'.revs[x.ver] = x.text /\ x.ws # Nil /\ x.ws.ver = x.ver
            \/ q.ver # Head_ /\ srv' = srv /\ Head_' = Head_ /\ x.step = "conflict" /\ x.ver = Head_
<1>0. Head_ \in Nat /\ q.text \in Nat /\ q.gen \in Nat
  BY Kept DEF Saves
<1>1. CASE q.ver = Head_
  <2>1. srv' = Appended(q.text) /\ count' = count
    BY <1>1 DEF PutServed
  <2>2. Grows /\ Head_' = Head_ + 1 /\ srv'.revs[Head_ + 1] = q.text
    BY <2>1, AppendedGrows
  <2> DEFINE v == View
             h == Head_ + 1
             ws == [v EXCEPT !.ver = h]
  <2>3. v \in Views /\ h \in Nat
    BY <1>0, ViewFacts
  <2>4. x = [q EXCEPT !.step = "ok", !.ver = h, !.ws = ws]
    BY <1>1 DEF ServedAnswer
  <2> HIDE DEF v, h
  <2>a. ws \in Views /\ ws.ver = h
    BY <2>3 DEF Views
  <2>b. ws # Nil
    BY <2>a, ReportAssumption
  <2> HIDE DEF ws
  <2>5. x \in Saves /\ x.gen = q.gen /\ x.text = q.text /\ x.step = "ok" /\ x.ver = h /\ x.ws = ws
    BY <2>3, <2>4, <2>a DEF Saves
  <2> QED BY <1>0, <1>1, <2>1, <2>2, <2>a, <2>b, <2>5 DEF h
<1>2. CASE q.ver # Head_
  <2>1. srv' = srv /\ count' = count
    BY <1>2 DEF PutServed
  <2>2. Grows /\ Head_' = Head_
    BY <2>1, SameGrows
  <2> DEFINE h == Head_
  <2>3. x = [q EXCEPT !.step = "conflict", !.ver = h] /\ h \in Nat
    BY <1>0, <1>2 DEF ServedAnswer
  <2> HIDE DEF h
  <2>4. x \in Saves /\ x.gen = q.gen /\ x.text = q.text /\ x.step = "conflict" /\ x.ver = h
    BY <2>3 DEF Saves
  <2> QED BY <1>0, <1>2, <2>1, <2>2, <2>4 DEF h
<1> QED BY <1>1, <1>2

LEMMA LostFacts ==
  ASSUME EditorTypeOK, Bounded, NEW q \in Saves, q.text \in Texts, q.ver <= Head_, Lost(q), NEW x, x = [q EXCEPT !.step = "fail"]
  PROVE  /\ Grows /\ x \in Saves /\ x.gen = q.gen /\ x.text = q.text /\ x.ver <= Head_' /\ x.step = "fail"
         /\ count' \in Counts /\ count'.edits = count.edits /\ count'.forms = count.forms /\ count'.events # 0 /\ Alone'
<1>1. x \in Saves /\ x.gen = q.gen /\ x.text = q.text /\ x.step = "fail" /\ x.ver = q.ver /\ q.ver \in Nat
  BY DEF Saves
<1>2. ASSUME srv' = srv PROVE Grows
  BY <1>2, SameGrows
<1>3. ASSUME srv' = Appended(q.text) PROVE Grows
  BY <1>3, AppendedGrows
<1>4. Grows
  BY <1>2, <1>3 DEF Lost
<1>5. x.ver <= Head_'
  BY <1>1, <1>4, GrowsFacts
<1>6. count' \in Counts /\ count'.edits = count.edits /\ count'.forms = count.forms /\ count'.events # 0 /\ Alone'
  BY CountTyped, Disturbed DEF Lost
<1> QED BY <1>1, <1>4, <1>5, <1>6

LEMMA ChainServedKept ==
  ASSUME RInv, ChainServed
  PROVE  RInv'
<1> DEFINE q == chain[1]
<1>0. /\ EditorTypeOK /\ Bounded /\ Head_ \in Nat /\ chain \in Seq(Saves) /\ count \in Counts
      /\ UNCHANGED <<ed, timer, old, op, load, copy, work>> /\ chain # <<>> /\ q.step = "sent"
  BY Kept, CountTyped DEF RInv, EditorTypeOK, ChainServed
<1>1. 1 \in 1..Len(chain) /\ q \in Saves /\ q.text \in Texts /\ q.ver <= Head_
  BY <1>0, SaveTyped DEF RInv, Bounded
<1>2. ASSUME PutServed(q), chain' = <<ServedAnswer(q)>> \o Tail(chain) PROVE RInv'
  <2> DEFINE x == ServedAnswer(q)
  <2>1. /\ Grows /\ count' = count /\ x \in Saves /\ x.gen = q.gen /\ x.text = q.text /\ x.ver <= Head_' /\ x.ver \in Nat
        /\ \/ /\ q.ver = Head_ /\ Head_' = Head_ + 1 /\ x.step = "ok" /\ x.ver = Head_' /\ x.ver # 0
              /\ srv'.revs[x.ver] = x.text /\ x.ws # Nil /\ x.ws.ver = x.ver
           \/ q.ver # Head_ /\ srv' = srv /\ Head_' = Head_ /\ x.step = "conflict" /\ x.ver = Head_
    BY <1>0, <1>1, <1>2, PutFacts
  <2>2. chain' = <<x>> \o Tail(chain)
    BY <1>2
  <2> HIDE DEF x
  <2>3. /\ x.step = "ok" => x.ver # 0 /\ srv'.revs[x.ver] = x.text /\ x.ws # Nil /\ x.ws.ver = x.ver
        /\ x.step = "sent" => x.ver <= ed.shown
        /\ x.step = "conflict" => ed.shown <= x.ver /\ ed.saved <= x.ver /\ ed.conflict <= x.ver
    BY <1>0, <2>1, Kept
  <2>4. count'.events = 0 =>
           /\ count.events = 0 /\ x.step \in {"sent", "ok"} /\ x.ver = Head_'
           /\ Undisturbed => IF x.step = "ok" THEN ~(op # Nil /\ op.kind \in {"restore", "changes"} /\ op.step = "ok")
                             ELSE Head_' = Head_ /\ chain[1].step # "ok"
    <3> SUFFICES ASSUME count'.events = 0
                 PROVE  x.step = "ok" /\ x.ver = Head_' /\ ~(op # Nil /\ op.kind \in {"restore", "changes"} /\ op.step = "ok")
      BY <2>1
    <3>1. Undisturbed
      BY <2>1 DEF RInv, Alone
    <3>2. q.ver = Head_ /\ ed.unsaved
      BY <1>0, <3>1 DEF Undisturbed
    <3>3. op # Nil => op.kind \notin {"restore", "changes"}
      BY <3>2 DEF RInv, Operated, LiveOp
    <3> QED BY <2>1, <3>2, <3>3
  <2>5. count' \in Counts /\ count'.edits = count.edits /\ count'.forms = count.forms /\ chain # <<>>
        /\ x.gen = chain[1].gen /\ x.text = chain[1].text
    BY <1>0, <2>1
  <2> QED BY <1>0, <2>1, <2>2, <2>3, <2>4, <2>5, HeadKept
<1>3. ASSUME Lost(q), chain' = <<[q EXCEPT !.step = "fail"]>> \o Tail(chain) PROVE RInv'
  <2> DEFINE x == [q EXCEPT !.step = "fail"]
  <2>1. /\ Grows /\ x \in Saves /\ x.gen = q.gen /\ x.text = q.text /\ x.ver <= Head_' /\ x.step = "fail"
        /\ count' \in Counts /\ count'.edits = count.edits /\ count'.forms = count.forms /\ count'.events # 0 /\ Alone'
    BY <1>0, <1>1, <1>3, LostFacts
  <2>2. chain' = <<x>> \o Tail(chain)
    BY <1>3
  <2> HIDE DEF x
  <2>3. /\ x.step = "ok" => x.ver # 0 /\ srv'.revs[x.ver] = x.text /\ x.ws # Nil /\ x.ws.ver = x.ver
        /\ x.step = "sent" => x.ver <= ed.shown
        /\ x.step = "conflict" => ed.shown <= x.ver /\ ed.saved <= x.ver /\ ed.conflict <= x.ver
        /\ x.gen = chain[1].gen /\ x.text = chain[1].text
    BY <2>1
  <2>4. count'.events = 0 =>
           /\ count.events = 0 /\ x.step \in {"sent", "ok"} /\ x.ver = Head_'
           /\ Undisturbed => IF x.step = "ok" THEN ~(op # Nil /\ op.kind \in {"restore", "changes"} /\ op.step = "ok")
                             ELSE Head_' = Head_ /\ chain[1].step # "ok"
    BY <2>1
  <2> QED BY <1>0, <2>1, <2>2, <2>3, <2>4, HeadKept
<1> QED BY <1>0, <1>2, <1>3 DEF ChainServed
-----------------------------------------------------------------------------
(* The answer of a save *)
LEMMA LandedKept ==
  ASSUME RInv, Loaded, chain # <<>>, chain' = Tail(chain), UNCHANGED <<srv, timer, old, op, load, work, count>>,
         ed' \in Editors, ed'.gen = ed.gen, ed'.text = ed.text, ed'.form = ed.form, ed'.here,
         ed'.ws \in Views, ed'.ws.ver <= Head_, ed'.saved <= ed'.shown, ed'.shown <= Head_,
         ed'.conflict <= Head_, ed'.conflict # 0 => ed'.shown <= ed'.conflict,
         ed'.unsaved => ed.unsaved, ~ed'.unsaved => ed'.text = TextOf(ed'.saved),
         ~ed'.unsaved /\ ed.unsaved => chain[1].gen = ed.gen,
         copy' \in Copies \cup {Nil}, copy' # Nil => copy'.text \in Texts /\ copy'.base <= Head_,
         ed'.offer = Nil \/ ed'.offer = copy', (copy' = Nil /\ (DirtyOf(ed') => work = NoWork)) \/ CopyFits', Worked',
         ed'.state \in {"SAVED", "CONFLICT", "ERROR"} \/ (ed'.state = ed.state /\ chain[1].gen # ed.gen), Alone'
  PROVE  RInv'
<1>0. /\ EditorTypeOK /\ Bounded /\ Head_ \in Nat /\ Head_' = Head_ /\ chain \in Seq(Saves) /\ ed.here /\ load = Nil /\ ed.text \in Texts
      /\ ed'.saved \in Nat /\ ed'.shown \in Nat /\ ed'.conflict \in Nat /\ ed.gen \in Nat
  BY Kept DEF RInv, EditorTypeOK, Head_, Loaded, Editors
<1> DEFINE p == chain'
           m == Len(chain) - 1
<1>1. /\ Len(chain) \in Nat \ {0} /\ p \in Seq(Saves) /\ Len(p) = m /\ m \in Nat /\ \A i \in 1..m : p[i] = chain[i + 1]
      /\ \A i \in 1..m : i + 1 \in 2..Len(chain) /\ i + 1 \in 1..Len(chain)
      /\ p # <<>> => 1 \in 1..m
  <2>1. /\ Len(chain) \in Nat \ {0} /\ chain[1] \in Saves
         /\ Tail(chain) \in Seq(Saves) /\ Len(Tail(chain)) = Len(chain) - 1 /\ \A i \in 1..(Len(chain) - 1) : Tail(chain)[i] = chain[i + 1]
         /\ Tail(chain) # <<>> => Len(chain) > 1
    BY <1>0, TailFacts
  <2> QED BY <2>1
<1>2. \A i \in 1..m : p[i].step = "queued"
  BY <1>1 DEF RInv, Placed
<1>3. /\ p = chain' /\ Len(chain') = m
  BY <1>1
<1> HIDE DEF p, m
<1>4. Loaded' /\ (Locked' <=> Locked) /\ ed'.ws # Nil
  BY <1>0, ReportAssumption DEF Loaded, Locked
<1>5. EditorTypeOK'
  <2>1. {ed'.saved, ed'.shown, ed'.conflict} \subseteq 0..Head_
    BY <1>0
  <2> QED BY <1>0, <1>1, <1>3, <2>1 DEF EditorTypeOK, Texts
<1>6. Bounded'
  <2>1. \A i \in 1..Len(chain') : chain'[i].text \in Texts /\ chain'[i].ver <= Head_
    BY <1>1, <1>3 DEF RInv, Bounded
  <2> QED BY <1>0, <2>1 DEF RInv, Bounded, OpOK, Texts, Restores
<1>7. Placed'
  <2>1. \A i \in 2..Len(chain') : chain'[i].step = "queued"
    <3> TAKE i \in 2..Len(chain')
    <3>1. i \in 1..m
      BY <1>1, <1>3
    <3>2. p[i].step = "queued"
      BY <1>2, <3>1
    <3> QED BY <1>3, <3>2
  <2>2. old' = <<>> /\ load' = Nil /\ ed'.ws # Nil
    BY <1>0, <1>4 DEF RInv, Placed
  <2> QED BY <1>4, <2>1, <2>2 DEF Placed
<1>8. Gens'
  <2>1. \A i \in 1..m : p[i].gen \in 1..ed.gen /\ (p[i].gen = ed.gen => p[i].text = ed.text)
    <3> TAKE i \in 1..m
    <3>1. p[i] = chain[i + 1] /\ i + 1 \in 1..Len(chain)
      BY <1>1
    <3>2. \A k \in 1..Len(chain) : chain[k].gen \in 1..ed.gen /\ (chain[k].gen = ed.gen => chain[k].text = ed.text)
      BY DEF RInv, Gens
    <3> QED BY <3>1, <3>2
  <2>2. \A i \in 1..m, j \in 1..m : i < j => p[i].gen <= p[j].gen
    <3> TAKE i \in 1..m, j \in 1..m
    <3> HAVE i < j
    <3>1. i + 1 < j + 1 /\ i + 1 \in 1..Len(chain) /\ j + 1 \in 1..Len(chain)
      BY <1>1
    <3> QED BY <1>1, <3>1 DEF RInv, Gens
  <2>3. ~ed'.unsaved => \A i \in 1..m : p[i].gen = ed.gen
    <3> SUFFICES ASSUME ~ed'.unsaved, NEW i \in 1..m PROVE p[i].gen = ed.gen
      OBVIOUS
    <3>1. CASE ~ed.unsaved
      BY <1>0, <1>1, <3>1 DEF RInv, Gens
    <3>2. CASE ed.unsaved
      <4>1. chain[1].gen = ed.gen /\ 1 \in 1..Len(chain) /\ 1 < i + 1
        BY <1>1, <3>2
      <4>2. ed.gen <= p[i].gen
        BY <1>1, <4>1 DEF RInv, Gens
      <4> QED BY <1>0, <2>1, <4>2
    <3> QED BY <3>1, <3>2
  <2>4. ed'.conflict # 0 \/ ed'.unsaved => ed'.gen # 0
    <3>1. chain[1].gen \in 1..ed.gen
      BY <1>1 DEF RInv, Gens
    <3> QED BY <1>0, <3>1
  <2> QED BY <1>3, <2>1, <2>2, <2>3, <2>4 DEF RInv, Gens
<1>9. Answers'
  <2>1. chain' # <<>> => chain'[1].step = "queued"
    BY <1>1, <1>2, <1>3
  <2>2. ed'.gen # 0
    <3>1. chain[1].gen \in 1..ed.gen
      BY <1>1 DEF RInv, Gens
    <3> QED BY <1>0, <3>1
  <2>3. old' = <<>> /\ load' = Nil
    BY <1>0 DEF RInv, Placed
  <2> QED BY <1>4, <2>1, <2>2, <2>3 DEF Answers, AnswerOK
<1>10. Screen' /\ Copied'
  BY <1>4 DEF Screen, Copied, TextOf, Head_
<1>11. Operated'
  <2>1. \A K : LiveOp(K)' <=> LiveOp(K)
    BY DEF LiveOp
  <2>2. /\ LiveOp({"sign", "freeze", "restore", "changes"})' => ~ed'.unsaved
        /\ LiveOp({"sign", "restore", "shared", "changes"})' => copy' = Nil \/ CopyFits'
        /\ LiveOp({"changes"})' => ed'.form = 0
    BY <2>1 DEF RInv, Operated
  <2>3. LiveOp({"freeze"})' /\ op'.step = "sent" => ed'.form = 0 /\ op'.arg.ver \in 1..Head_' /\ ed'.text = srv'.revs[op'.arg.ver]
    BY <1>0, <2>1 DEF RInv, Operated
  <2> QED BY <2>2, <2>3 DEF Operated
<1>12. Saving'
  <2>1. CASE ed'.state \in {"SAVED", "CONFLICT", "ERROR"}
    BY <2>1 DEF Saving
  <2>2. CASE ed'.state = ed.state /\ chain[1].gen # ed.gen
    <3>1. chain[Len(chain)].gen = ed.gen => m \in 1..m /\ chain'[m].gen = ed.gen /\ chain' # <<>>
      <4> SUFFICES ASSUME chain[Len(chain)].gen = ed.gen PROVE m \in 1..m /\ chain'[m].gen = ed.gen /\ chain' # <<>>
        OBVIOUS
      <4>1. Len(chain) # 1
        BY <2>2
      <4>2. m \in 1..m /\ m + 1 = Len(chain)
        BY <1>1, <4>1 DEF m
      <4>3. chain'[m].gen = ed.gen
        BY <1>1, <1>3, <4>2
      <4> QED BY <1>3, <4>2, <4>3
    <3> QED BY <1>3, <1>4, <2>2, <3>1 DEF RInv, Saving
  <2> QED BY <2>1, <2>2
<1> QED BY <1>5, <1>6, <1>7, <1>8, <1>9, <1>10, <1>11, <1>12 DEF RInv

\* What the first save of the chain is, once it is answered.
LEMMA HeadOfChain ==
  ASSUME RInv, chain # <<>>
  PROVE  /\ Loaded /\ ed.here /\ load = Nil /\ old = <<>> /\ ed.gen # 0 /\ (copy = Nil \/ CopyFits)
         /\ 1 \in 1..Len(chain) /\ Len(chain) \in Nat /\ chain[1] \in Saves /\ chain[1].gen \in 1..ed.gen
         /\ chain[1].ver \in Nat /\ chain[1].ver <= Head_ /\ chain[1].text \in Texts
         /\ chain[1].gen = ed.gen => chain[1].text = ed.text
         /\ chain[1].gen # ed.gen => ed.unsaved
<1>1. chain \in Seq(Saves) /\ ed.gen \in Nat
  BY Kept DEF RInv, EditorTypeOK
<1>2. Loaded /\ ed.here /\ load = Nil /\ old = <<>>
  BY Kept DEF RInv, Placed, Loaded
<1>3. 1 \in 1..Len(chain) /\ Len(chain) \in Nat /\ chain[1] \in Saves /\ chain[1].ver \in Nat
  BY <1>1, SaveTyped
<1>4. /\ chain[1].gen \in 1..ed.gen /\ ed.gen # 0
      /\ chain[1].gen = ed.gen => chain[1].text = ed.text
      /\ chain[1].gen # ed.gen => ed.unsaved
  BY <1>1, <1>2, <1>3 DEF RInv, Gens
<1>5. copy = Nil \/ CopyFits
  BY <1>2, <1>4 DEF RInv, Copied
<1>6. chain[1].ver <= Head_ /\ chain[1].text \in Texts
  BY <1>3 DEF RInv, Bounded
<1> QED BY <1>2, <1>3, <1>4, <1>5, <1>6

LEMMA SavedLandsKept ==
  ASSUME RInv, ChainLands, chain[1].step = "ok", chain[1].gen = ed.gen
  PROVE  RInv'
<1> DEFINE q == chain[1]
           n == SaveLanded(ed, q)
<1>0. /\ EditorTypeOK /\ Head_ \in Nat /\ ed \in Editors /\ chain # <<>> /\ Landed(q) /\ chain' = Tail(chain) /\ Head_' = Head_
      /\ UNCHANGED <<srv, timer, old, op, load, work, count>>
  BY Kept DEF RInv, EditorTypeOK, ChainLands, Head_
<1>1. /\ Loaded /\ ed.here /\ load = Nil /\ old = <<>> /\ ed.gen # 0 /\ (copy = Nil \/ CopyFits)
      /\ 1 \in 1..Len(chain) /\ Len(chain) \in Nat /\ q \in Saves /\ q.gen \in 1..ed.gen
      /\ q.ver \in Nat /\ q.ver <= Head_ /\ q.text \in Texts
      /\ q.gen = ed.gen => q.text = ed.text
      /\ q.gen # ed.gen => ed.unsaved
  BY <1>0, HeadOfChain
<1>2. q.ver # 0 /\ srv.revs[q.ver] = q.text /\ q.ws \in Views /\ q.ws.ver = q.ver
  <2>1. q.ver # 0 /\ srv.revs[q.ver] = q.text /\ q.ws # Nil /\ q.ws.ver = q.ver
    BY <1>0 DEF RInv, Answers, AnswerOK
  <2> QED BY <1>1, <2>1 DEF Saves
<1>3. copy' = Retained(n) /\ ed' = IF n.unsaved THEN n ELSE [n EXCEPT !.offer = copy']
  BY <1>0 DEF Landed
<1>4. /\ n \in Editors /\ n.ws = q.ws /\ n.saved = q.ver /\ n.shown = q.ver /\ n.conflict = 0
      /\ n.gen = ed.gen /\ n.form = ed.form /\ n.offer = ed.offer /\ n.pick = ed.pick /\ n.here = ed.here
      /\ q.gen = ed.gen => n.text = q.text /\ n.unsaved = FALSE /\ n.state = "SAVED"
      /\ q.gen # ed.gen => n.text = ed.text /\ n.unsaved = ed.unsaved /\ n.state = ed.state
  <2>1. ed \in Editors /\ q \in Saves /\ q.ws \in Views
    BY <1>0, <1>1, <1>2
  <2> HIDE DEF q
  <2> QED BY <2>1, SaveLandedFacts
<1> HIDE DEF n
<1>5. /\ copy' \in Copies \cup {Nil}
      /\ DirtyOf(n) => copy' # Nil /\ copy'.text = n.text /\ copy'.form = n.form /\ copy'.base = n.saved
      /\ ~DirtyOf(n) => copy' = Nil
  BY <1>3, <1>4, RetainedFacts
<1>6. /\ ed' \in Editors /\ ed'.ws = q.ws /\ ed'.saved = q.ver /\ ed'.shown = q.ver /\ ed'.conflict = 0
      /\ ed'.gen = ed.gen /\ ed'.form = ed.form /\ ed'.offer = copy' /\ ed'.pick = ed.pick /\ ed'.here = ed.here
      /\ ed'.text = ed.text /\ ed'.unsaved = FALSE /\ ed'.state = "SAVED"
  BY <1>1, <1>3, <1>4, <1>5 DEF Editors
<1>7. /\ ed.form # 0 => copy' # Nil /\ copy'.text = ed.text /\ copy'.form = ed.form /\ copy'.base = q.ver
      /\ ed.form = 0 => copy' = Nil
  BY <1>1, <1>4, <1>5 DEF DirtyOf
<1>8. ed'.text = TextOf(ed'.saved)
  BY <1>1, <1>2, <1>6 DEF TextOf
<1>9. (copy' = Nil /\ (DirtyOf(ed') => work = NoWork)) \/ CopyFits'
  BY <1>6, <1>7 DEF DirtyOf, CopyFits
<1>10. Worked'
  <2>1. work.text # 0 => Published(work.text)
    <3>1. Published(q.text)
      <4>1. q.ver \in 1..Head_
        BY <1>0, <1>1, <1>2
      <4> QED BY <1>2, <4>1 DEF Published
    <3> QED BY <1>1, <3>1 DEF RInv, Worked, CopyFits
  <2>2. work.form # 0 => copy' # Nil /\ copy'.form = work.form
    BY <1>1, <1>7 DEF RInv, Worked, CopyFits
  <2> QED BY <1>0, <2>1, <2>2 DEF Worked, Published
<1>11. Alone'
  <2> SUFFICES ASSUME count'.events = 0 PROVE Undisturbed'
    BY DEF Alone
  <2>1. Undisturbed
    BY <1>0 DEF RInv, Alone
  <2>2. Len(chain) = 1
    <3>0. Len(chain) \in Nat \ {0}
      BY <1>1
    <3> SUFFICES ASSUME 2 \in 1..Len(chain) PROVE FALSE
      BY <3>0, OnlyOne
    <3>1. q.gen < chain[2].gen
      BY <1>1, <2>1 DEF Undisturbed
    <3>2. chain[2].gen \in 1..ed.gen
      BY DEF RInv, Gens
    <3> QED BY <1>0, <3>1, <3>2, Kept
  <2>3. chain' = <<>>
    <3>1. chain \in Seq(Saves)
      BY <1>0 DEF EditorTypeOK
    <3> QED BY <1>0, <2>2, <3>1
  <2>4. timer = Nil
    BY <1>1, <2>1, <1>0, Kept DEF Undisturbed
  <2>5. q.ver = Head_ /\ ed.unsaved
    BY <1>0, <2>1 DEF Undisturbed
  <2>6. op # Nil => op.kind \notin {"restore", "changes"}
    BY <2>5 DEF RInv, Operated, LiveOp
  <2> QED BY <1>0, <1>1, <1>6, <2>1, <2>3, <2>4, <2>5, <2>6 DEF Undisturbed
<1>12. copy' # Nil => copy'.text \in Texts /\ copy'.base <= Head_
  BY <1>1, <1>7
<1>13. /\ ed'.ws \in Views /\ ed'.ws.ver <= Head_ /\ ed'.saved <= ed'.shown /\ ed'.shown <= Head_
       /\ ed'.conflict <= Head_ /\ (ed'.conflict # 0 => ed'.shown <= ed'.conflict)
  BY <1>0, <1>1, <1>2, <1>6
<1> QED BY <1>0, <1>1, <1>5, <1>6, <1>8, <1>9, <1>10, <1>11, <1>12, <1>13, LandedKept

LEMMA EarlierLandsKept ==
  ASSUME RInv, ChainLands, chain[1].step = "ok", chain[1].gen # ed.gen
  PROVE  RInv'
<1> DEFINE q == chain[1]
           n == SaveLanded(ed, q)
<1>0. /\ EditorTypeOK /\ Head_ \in Nat /\ ed \in Editors /\ chain # <<>> /\ Landed(q) /\ chain' = Tail(chain) /\ Head_' = Head_
      /\ UNCHANGED <<srv, timer, old, op, load, work, count>> /\ chain \in Seq(Saves)
  BY Kept DEF RInv, EditorTypeOK, ChainLands, Head_
<1>1. /\ Loaded /\ ed.here /\ load = Nil /\ old = <<>> /\ ed.gen # 0 /\ (copy = Nil \/ CopyFits)
      /\ 1 \in 1..Len(chain) /\ Len(chain) \in Nat /\ q \in Saves /\ q.gen \in 1..ed.gen
      /\ q.ver \in Nat /\ q.ver <= Head_ /\ q.text \in Texts
      /\ q.gen = ed.gen => q.text = ed.text
      /\ q.gen # ed.gen => ed.unsaved
  BY <1>0, HeadOfChain
<1>2. q.ver # 0 /\ srv.revs[q.ver] = q.text /\ q.ws \in Views /\ q.ws.ver = q.ver
  <2>1. q.ver # 0 /\ srv.revs[q.ver] = q.text /\ q.ws # Nil /\ q.ws.ver = q.ver
    BY <1>0 DEF RInv, Answers, AnswerOK
  <2> QED BY <1>1, <2>1 DEF Saves
<1>3. copy' = copy /\ ed' = IF n.unsaved THEN n ELSE [n EXCEPT !.offer = copy']
  BY <1>0 DEF Landed
<1>4. /\ n \in Editors /\ n.ws = q.ws /\ n.saved = q.ver /\ n.shown = q.ver /\ n.conflict = 0
      /\ n.gen = ed.gen /\ n.form = ed.form /\ n.offer = ed.offer /\ n.pick = ed.pick /\ n.here = ed.here
      /\ q.gen = ed.gen => n.text = q.text /\ n.unsaved = FALSE /\ n.state = "SAVED"
      /\ q.gen # ed.gen => n.text = ed.text /\ n.unsaved = ed.unsaved /\ n.state = ed.state
  <2>1. ed \in Editors /\ q \in Saves /\ q.ws \in Views
    BY <1>0, <1>1, <1>2
  <2> HIDE DEF q
  <2> QED BY <2>1, SaveLandedFacts
<1> HIDE DEF n
<1>6. /\ ed' \in Editors /\ ed'.ws = q.ws /\ ed'.saved = q.ver /\ ed'.shown = q.ver /\ ed'.conflict = 0
      /\ ed'.gen = ed.gen /\ ed'.form = ed.form /\ ed'.offer = ed.offer /\ ed'.pick = ed.pick /\ ed'.here = ed.here
      /\ ed'.text = ed.text /\ ed'.unsaved /\ ed'.state = ed.state /\ ed.unsaved
  BY <1>1, <1>3, <1>4
<1>7. ed.offer = Nil \/ ed.offer = copy
  BY DEF RInv, Copied
<1>8. (copy' = Nil /\ (DirtyOf(ed') => work = NoWork)) \/ CopyFits'
  BY <1>1, <1>3, <1>6 DEF RInv, Copied, CopyFits, DirtyOf
<1>9. Worked'
  BY <1>0, <1>3 DEF RInv, Worked, Published
<1>10. copy' \in Copies \cup {Nil} /\ (copy' # Nil => copy'.text \in Texts /\ copy'.base <= Head_)
  BY <1>0, <1>3 DEF RInv, Bounded, EditorTypeOK
<1>11. Alone'
  <2> SUFFICES ASSUME count'.events = 0 PROVE Undisturbed'
    BY DEF Alone
  <2>1. Undisturbed
    BY <1>0 DEF RInv, Alone
  <2> DEFINE p == chain'
             m == Len(chain) - 1
  <2>2. /\ p \in Seq(Saves) /\ Len(p) = m /\ m \in Nat /\ \A i \in 1..m : p[i] = chain[i + 1]
        /\ \A i \in 1..m : i + 1 \in 2..Len(chain) /\ i + 1 \in 1..Len(chain)
        /\ p # <<>> => 1 \in 1..m
    <3>1. /\ Len(chain) \in Nat \ {0} /\ chain[1] \in Saves
          /\ Tail(chain) \in Seq(Saves) /\ Len(Tail(chain)) = Len(chain) - 1 /\ \A i \in 1..(Len(chain) - 1) : Tail(chain)[i] = chain[i + 1]
          /\ Tail(chain) # <<>> => Len(chain) > 1
      BY <1>0, TailFacts
    <3> QED BY <1>0, <3>1
  <2> HIDE DEF m
  <2>3. \A i \in 1..Len(chain'), j \in 1..Len(chain') : i < j => chain'[i].gen < chain'[j].gen
    <3> TAKE i \in 1..Len(chain'), j \in 1..Len(chain')
    <3> HAVE i < j
    <3>1. i + 1 < j + 1 /\ i + 1 \in 1..Len(chain) /\ j + 1 \in 1..Len(chain)
      BY <2>2
    <3> QED BY <2>1, <2>2, <3>1 DEF Undisturbed
  <2>4. timer # Nil => \A i \in 1..Len(chain') : chain'[i].gen < ed.gen
    BY <2>1, <2>2 DEF Undisturbed
  <2>5. chain' # <<>> => chain'[1].step = "queued"
    BY <2>2 DEF RInv, Placed
  <2>6. q.ver = Head_
    BY <1>0, <2>1 DEF Undisturbed
  <2>7. op # Nil => op.kind \notin {"restore", "changes"}
    BY <1>6, <2>6 DEF RInv, Operated, LiveOp
  <2> QED BY <1>0, <1>1, <1>6, <2>1, <2>3, <2>4, <2>5, <2>6, <2>7 DEF Undisturbed
<1>13. /\ ed'.ws \in Views /\ ed'.ws.ver <= Head_ /\ ed'.saved <= ed'.shown /\ ed'.shown <= Head_
       /\ ed'.conflict <= Head_ /\ (ed'.conflict # 0 => ed'.shown <= ed'.conflict)
  BY <1>0, <1>1, <1>2, <1>6
<1> QED BY <1>0, <1>1, <1>3, <1>6, <1>7, <1>8, <1>9, <1>10, <1>11, <1>13, LandedKept

LEMMA RefusedLandsKept ==
  ASSUME RInv, ChainLands, chain[1].step \in {"conflict", "fail"}
  PROVE  RInv'
<1> DEFINE q == chain[1]
           st == IF q.step = "conflict" THEN "CONFLICT" ELSE "ERROR"
           c == IF q.step = "conflict" THEN q.ver ELSE ed.conflict
<1>0. /\ EditorTypeOK /\ Head_ \in Nat /\ ed \in Editors /\ chain # <<>> /\ Landed(q) /\ chain' = Tail(chain) /\ Head_' = Head_
      /\ UNCHANGED <<srv, timer, old, op, load, work, count>>
  BY Kept DEF RInv, EditorTypeOK, ChainLands, Head_
<1>1. /\ Loaded /\ ed.here /\ load = Nil /\ old = <<>> /\ ed.gen # 0 /\ (copy = Nil \/ CopyFits)
      /\ 1 \in 1..Len(chain) /\ Len(chain) \in Nat /\ q \in Saves /\ q.gen \in 1..ed.gen
      /\ q.ver \in Nat /\ q.ver <= Head_ /\ q.text \in Texts
      /\ q.gen = ed.gen => q.text = ed.text
      /\ q.gen # ed.gen => ed.unsaved
  BY <1>0, HeadOfChain
<1>2. /\ ed.conflict \in Nat /\ ed.conflict <= Head_ /\ copy \in Copies \cup {Nil} /\ ed.ws \in Views /\ ed.ws.ver <= Head_
      /\ ed.saved <= ed.shown /\ ed.shown <= Head_
      /\ c \in Nat /\ c <= Head_ /\ (c # 0 => ed.shown <= c)
  BY <1>0, <1>1, Kept DEF RInv, Answers, Bounded, Loaded, EditorTypeOK
<1>3. copy' = copy /\ ed' = [ed EXCEPT !.offer = copy, !.conflict = c, !.state = st]
  <2>1. CASE q.step = "conflict"
    BY <1>0, <2>1 DEF Landed, ConflictLanded
  <2>2. CASE q.step = "fail"
    BY <1>0, <2>2 DEF Landed, Editors
  <2> QED BY <2>1, <2>2
<1>s. st \in {"CONFLICT", "ERROR"}
  OBVIOUS
<1> HIDE DEF c, st
<1>4. /\ ed' \in Editors /\ ed'.ws = ed.ws /\ ed'.saved = ed.saved /\ ed'.shown = ed.shown /\ ed'.conflict = c
      /\ ed'.gen = ed.gen /\ ed'.form = ed.form /\ ed'.offer = copy /\ ed'.pick = ed.pick /\ ed'.here = ed.here
      /\ ed'.text = ed.text /\ ed'.unsaved = ed.unsaved /\ ed'.state = st
  BY <1>0, <1>2, <1>3, <1>s DEF Editors
<1>5. ~ed'.unsaved => ed'.text = TextOf(ed'.saved)
  BY <1>1, <1>4 DEF RInv, Screen
<1>8. (copy' = Nil /\ (DirtyOf(ed') => work = NoWork)) \/ CopyFits'
  BY <1>1, <1>3, <1>4 DEF RInv, Copied, CopyFits, DirtyOf
<1>9. Worked'
  BY <1>0, <1>3 DEF RInv, Worked, Published
<1>10. copy' \in Copies \cup {Nil} /\ (copy' # Nil => copy'.text \in Texts /\ copy'.base <= Head_)
  BY <1>2, <1>3 DEF RInv, Bounded
<1>11. Alone'
  <2> SUFFICES ASSUME count'.events = 0 PROVE FALSE
    BY DEF Alone
  <2> QED BY <1>0 DEF RInv, Alone, Undisturbed
<1>13. /\ ed'.ws \in Views /\ ed'.ws.ver <= Head_ /\ ed'.saved <= ed'.shown /\ ed'.shown <= Head_
       /\ ed'.conflict <= Head_ /\ (ed'.conflict # 0 => ed'.shown <= ed'.conflict)
  BY <1>2, <1>4
<1> QED BY <1>0, <1>1, <1>3, <1>4, <1>s, <1>5, <1>8, <1>9, <1>10, <1>11, <1>13, LandedKept

LEMMA ChainLandsKept ==
  ASSUME RInv, ChainLands
  PROVE  RInv'
BY SavedLandsKept, EarlierLandsKept, RefusedLandsKept DEF ChainLands
-----------------------------------------------------------------------------
(* Saves of an earlier visit *)
LEMMA OldKept ==
  ASSUME RInv, Grows, UNCHANGED <<ed, timer, chain, op, load, copy, work>>, ~ed.here,
         count' \in Counts, count'.edits = count.edits, count'.forms = count.forms, count' = count \/ count'.events # 0,
         old' \in Seq(Saves), \A i \in 1..Len(old') : old'[i].text \in Texts /\ old'[i].ver <= Head_',
         \A i \in 2..Len(old') : old'[i].step = "queued", old' # <<>> => AnswerOK(old[1])'
  PROVE  RInv'
<1>0. EditorTypeOK /\ Bounded /\ chain = <<>> /\ timer = Nil /\ load = Nil /\ ~Loaded /\ ~Locked
  BY DEF RInv, Placed, Loaded
<1>1. ~Loaded' /\ ~Locked'
  BY <1>0 DEF Loaded, Locked
<1>2. GoesOn
  BY <1>0, OpSame
<1>3. chain' \in Seq(Saves) /\ \A i \in 1..Len(chain') : chain'[i].text \in Texts /\ chain'[i].ver <= Head_'
  BY <1>0
<1>4. Placed' /\ Gens' /\ Answers' /\ Saving'
  BY <1>0, <1>1 DEF Placed, Gens, Answers, AnswerOK, Saving
<1>5. RSound'
  BY <1>2, <1>3, <1>4, FlowStep
<1>6. Alone'
  BY DEF RInv, Alone, Undisturbed
<1> QED BY <1>5, <1>6, RInvOf

LEMMA OldGoesOnKept ==
  ASSUME RInv, OldGoesOn
  PROVE  RInv'
<1> DEFINE q == old[1]
           m == Len(old) - 1
<1>0. /\ EditorTypeOK /\ Bounded /\ Head_ \in Nat /\ old \in Seq(Saves) /\ count \in Counts
      /\ UNCHANGED <<timer, chain, op, load, work>> /\ old # <<>> /\ ~ed.here
  BY Kept, CountTyped DEF RInv, EditorTypeOK, OldGoesOn, Placed
<1>1. 1 \in 1..Len(old) /\ q \in Saves /\ q.text \in Texts /\ q.ver <= Head_ /\ Len(old) \in Nat
  BY <1>0, SaveTyped DEF RInv, Bounded
<1>2. \A i \in 1..Len(old) : old[i].text \in Texts /\ old[i].ver <= Head_ /\ old[i].ver \in Nat
  BY <1>0, SaveTyped DEF Bounded
<1>t. ASSUME old' = Tail(old), UNCHANGED <<srv, ed, copy, count>> PROVE RInv'
  <2> DEFINE p == Tail(old)
  <2>1. /\ Len(old) \in Nat \ {0} /\ q \in Saves
        /\ p \in Seq(Saves) /\ Len(p) = Len(old) - 1 /\ \A i \in 1..(Len(old) - 1) : p[i] = old[i + 1]
        /\ p # <<>> => Len(old) > 1
    BY <1>0, TailFacts
  <2> HIDE DEF p
  <2>2. Grows /\ Head_' = Head_
    BY <1>0, <1>t, SameGrows
  <2>3. \A i \in 1..Len(p) : p[i].step = "queued" /\ p[i].text \in Texts /\ p[i].ver <= Head_
    <3> TAKE i \in 1..Len(p)
    <3>1. i + 1 \in 2..Len(old) /\ i + 1 \in 1..Len(old) /\ p[i] = old[i + 1]
      BY <2>1
    <3> QED BY <1>2, <3>1 DEF RInv, Placed
  <2>4. old' = p /\ (p # <<>> => 1 \in 1..Len(p)) /\ (\A i \in 2..Len(p) : i \in 1..Len(p))
    BY <1>t, <2>1 DEF p
  <2>5. /\ old' \in Seq(Saves) /\ (\A i \in 1..Len(old') : old'[i].text \in Texts /\ old'[i].ver <= Head_')
        /\ (\A i \in 2..Len(old') : old'[i].step = "queued") /\ (old' # <<>> => old'[1].step = "queued")
    BY <2>1, <2>2, <2>3, <2>4
  <2>6. old' # <<>> => AnswerOK(old[1])'
    BY <2>5 DEF AnswerOK
  <2> QED BY <1>0, <1>t, <2>2, <2>5, <2>6, OldKept
<1>h. ASSUME NEW x \in Saves, old' = <<x>> \o Tail(old), x.text = q.text, x.ver <= Head_', Grows, UNCHANGED <<ed, copy>>,
             count' \in Counts, count'.edits = count.edits, count'.forms = count.forms, count' = count \/ count'.events # 0,
             x.step = "ok" => x.ver # 0 /\ srv'.revs[x.ver] = x.text /\ x.ws # Nil /\ x.ws.ver = x.ver,
             x.step # "sent"
      PROVE  RInv'
  <2> DEFINE p == old'
  <2>1. /\ p \in Seq(Saves) /\ Len(p) = Len(old) /\ p[1] = x /\ \A i \in 2..Len(old) : p[i] = old[i]
        /\ p # <<>>
    <3>1. p = <<x>> \o Tail(old)
      BY <1>h
    <3> HIDE DEF p
    <3> QED BY <1>0, <1>h, <3>1, HeadFacts
  <2>2. Head_' \in Nat /\ Head_ <= Head_'
    BY <1>0, <1>h, GrowsFacts
  <2>3. \A i \in 1..Len(p) : p[i].text \in Texts /\ p[i].ver <= Head_'
    <3> TAKE i \in 1..Len(p)
    <3>1. i = 1 \/ (i \in 2..Len(old) /\ i \in 1..Len(old))
      BY <1>1, <2>1
    <3>2. i # 1 => old[i].ver <= Head_' /\ old[i].text \in Texts
      BY <1>0, <1>2, <2>2, <3>1
    <3> QED BY <1>h, <1>1, <2>1, <3>1, <3>2
  <2>4. \A i \in 2..Len(p) : p[i].step = "queued"
    BY <2>1 DEF RInv, Placed
  <2>5. AnswerOK(old[1])'
    BY <1>h, <2>1 DEF AnswerOK
  <2> QED BY <1>0, <1>h, <2>1, <2>3, <2>4, <2>5, OldKept
<1>3. CASE q.step = "queued" /\ old' = Put(q) \o Tail(old) /\ UNCHANGED <<srv, ed, copy, count>>
  <2>1. Put(q) = <<>>
    BY <1>0 DEF Put, Sends
  <2>2. Tail(old) \in Seq(Saves)
    BY <1>0, TailFacts
  <2>3. old' = Tail(old)
    BY <1>3, <2>1, <2>2
  <2> QED BY <1>3, <1>t, <2>3
<1>4. CASE PutServed(q) /\ old' = <<ServedAnswer(q)>> \o Tail(old) /\ UNCHANGED <<ed, copy>>
  <2> DEFINE x == ServedAnswer(q)
  <2>1. /\ Grows /\ count' = count /\ x \in Saves /\ x.gen = q.gen /\ x.text = q.text /\ x.ver <= Head_' /\ x.ver \in Nat
        /\ \/ /\ q.ver = Head_ /\ Head_' = Head_ + 1 /\ x.step = "ok" /\ x.ver = Head_' /\ x.ver # 0
              /\ srv'.revs[x.ver] = x.text /\ x.ws # Nil /\ x.ws.ver = x.ver
           \/ q.ver # Head_ /\ srv' = srv /\ Head_' = Head_ /\ x.step = "conflict" /\ x.ver = Head_
    BY <1>0, <1>1, <1>4, PutFacts
  <2>2. old' = <<x>> \o Tail(old)
    BY <1>4
  <2> HIDE DEF x
  <2> QED BY <1>0, <1>4, <1>h, <2>1, <2>2
<1>5. CASE Lost(q) /\ old' = <<[q EXCEPT !.step = "fail"]>> \o Tail(old) /\ UNCHANGED <<ed, copy>>
  <2> DEFINE x == [q EXCEPT !.step = "fail"]
  <2>1. /\ Grows /\ x \in Saves /\ x.gen = q.gen /\ x.text = q.text /\ x.ver <= Head_' /\ x.step = "fail"
        /\ count' \in Counts /\ count'.edits = count.edits /\ count'.forms = count.forms /\ count'.events # 0 /\ Alone'
    BY <1>0, <1>1, <1>5, LostFacts
  <2>2. old' = <<x>> \o Tail(old)
    BY <1>5
  <2> HIDE DEF x
  <2> QED BY <1>0, <1>5, <1>h, <2>1, <2>2
<1>6. CASE old' = Tail(old) /\ (IF ed.here THEN Landed(q) ELSE UNCHANGED <<ed, copy>>) /\ UNCHANGED <<srv, count>>
  BY <1>0, <1>6, <1>t
<1> QED BY <1>3, <1>4, <1>5, <1>6 DEF OldGoesOn
-----------------------------------------------------------------------------
(* The analyst comes and goes *)
LEMMA LeaveKept ==
  ASSUME RInv, Leave
  PROVE  RInv'
<1>0. /\ EditorTypeOK /\ Bounded /\ Head_ \in Nat /\ ed \in Editors /\ count \in Counts /\ chain \in Seq(Saves)
      /\ Loaded /\ UNCHANGED <<srv, load, copy, work>> /\ timer' = Nil /\ chain' = <<>> /\ Head_' = Head_
  BY Kept, CountTyped DEF RInv, EditorTypeOK, Leave, Head_
<1>1. ed.here /\ load = Nil /\ old = <<>> /\ ed.ws # Nil
  BY <1>0 DEF RInv, Placed, Loaded
<1>2. old' = chain
  <2>1. old' = <<>> \o chain
    BY <1>1 DEF Leave
  <2> QED BY <1>0, <2>1
<1>3. /\ ed' \in Editors /\ ed'.ws = ed.ws /\ ed'.saved = ed.saved /\ ed'.shown = ed.shown /\ ed'.conflict = ed.conflict
      /\ ed'.gen = 0 /\ ed'.form = ed.form /\ ed'.offer = ed.offer /\ ed'.here = FALSE
      /\ ed'.text = ed.text /\ ed'.unsaved = FALSE
  BY <1>0 DEF Leave, Editors
<1>4. count' \in Counts /\ count'.edits = count.edits /\ count'.forms = count.forms /\ count'.events # 0 /\ Alone'
  BY <1>0, Disturbed DEF Leave
<1>5. Grows
  BY <1>0, SameGrows
<1>6. op' = Nil /\ OpOK' /\ \A K : ~LiveOp(K)'
  BY DEF Leave, GivenUp, OpOK, LiveOp
<1>7. ~Loaded' /\ ~Locked'
  BY <1>3, <1>6 DEF Loaded, Locked
<1>8. EditorTypeOK'
  BY <1>0, <1>2, <1>3, <1>4, <1>6 DEF EditorTypeOK, Texts, Counts
<1>9. Bounded'
  BY <1>0, <1>2, <1>3, <1>6 DEF Bounded, Texts
<1>10. Placed'
  BY <1>0, <1>1, <1>2, <1>3, <1>7 DEF RInv, Placed
<1>11. Gens' /\ Screen' /\ Saving'
  BY <1>0, <1>3, <1>7 DEF Gens, Screen, Saving
<1>12. Answers'
  BY <1>0, <1>1, <1>2, <1>3, <1>7 DEF RInv, Answers, AnswerOK
<1>13. Copied' /\ Worked'
  BY <1>0, <1>3, <1>7 DEF RInv, Copied, Worked, Published
<1>14. Operated'
  BY <1>6 DEF Operated
<1> QED BY <1>4, <1>8, <1>9, <1>10, <1>11, <1>12, <1>13, <1>14 DEF RInv

\* The editor of a draft that is not fetched yet.
Emptied(e, ws) ==
  /\ e \in Editors /\ e.ws = ws /\ e.saved = 0 /\ e.shown = ed.shown /\ e.conflict = 0
  /\ e.gen = 0 /\ e.form = 0 /\ e.offer = Nil /\ e.pick = Nil /\ e.here /\ e.text = 0 /\ ~e.unsaved /\ e.state = "IDLE"
  /\ [step |-> "sent"] \in Fetches /\ [step |-> "sent"] # Nil
LEMMA EmptyEditor ==
  ASSUME EditorTypeOK, NEW ws \in Views \cup {Nil}, NEW e,
         e = [NoEditor EXCEPT !.ws = ws, !.shown = ed.shown] \/ (ws = Nil /\ e = [NoEditor EXCEPT !.shown = ed.shown])
  PROVE  Emptied(e, ws)
<1>1. ed.shown \in Nat
  BY Kept
<1>2. [step |-> "sent"] \in Fetches
  BY DEF Fetches
<1> DEFINE a == [NoEditor EXCEPT !.ws = ws, !.shown = ed.shown]
           b == [NoEditor EXCEPT !.shown = ed.shown]
<1>3. CASE e = a
  BY <1>1, <1>2, <1>3, ReportAssumption DEF NoEditor, Editors, Emptied
<1>4. CASE ws = Nil /\ e = b
  BY <1>1, <1>2, <1>4, ReportAssumption DEF NoEditor, Editors, Emptied
<1> QED BY <1>3, <1>4

LEMMA ReturnKept ==
  ASSUME Slips = {}, RInv, Return
  PROVE  RInv'
<1>0. /\ EditorTypeOK /\ Bounded /\ Head_ \in Nat /\ ed.shown \in Nat /\ ed.shown <= Head_ /\ ed.ws \in Views \cup {Nil}
      /\ UNCHANGED <<srv, timer, chain, old, op, copy, work, count>> /\ ~ed.here /\ old = <<>> /\ Head_' = Head_
      /\ ed' = [NoEditor EXCEPT !.ws = ed.ws, !.shown = ed.shown] /\ load' = [step |-> "sent"]
  BY Kept DEF RInv, Return, Head_
<1>1. chain = <<>> /\ timer = Nil /\ load = Nil /\ ~Loaded /\ ~Locked
  BY <1>0 DEF RInv, Placed, Loaded
<1>2. /\ ed' \in Editors /\ ed'.ws = ed.ws /\ ed'.saved = 0 /\ ed'.shown = ed.shown /\ ed'.conflict = 0
      /\ ed'.gen = 0 /\ ed'.form = 0 /\ ed'.offer = Nil /\ ed'.pick = Nil /\ ed'.here /\ ed'.text = 0 /\ ~ed'.unsaved /\ ed'.state = "IDLE"
      /\ load' \in Fetches /\ load' # Nil /\ load'.step = "sent"
  <2> DEFINE e == ed'
  <2>1. e = [NoEditor EXCEPT !.ws = ed.ws, !.shown = ed.shown]
    BY <1>0
  <2> HIDE DEF e
  <2>2. Emptied(e, ed.ws)
    BY <1>0, <2>1, EmptyEditor
  <2> QED BY <1>0, <2>2 DEF e, Emptied
<1>3. ~Loaded' /\ ~Locked'
  BY <1>0, <1>1, <1>2 DEF Loaded, Locked
<1>4. EditorTypeOK'
  <2>1. ed'.text \in Texts /\ {ed'.saved, ed'.shown, ed'.conflict} \subseteq 0..Head_
    BY <1>0, <1>2, TextsFacts
  <2> QED BY <1>0, <1>2, <2>1 DEF EditorTypeOK, Texts
<1>5. Bounded'
  BY <1>0, <1>1, <1>2 DEF Bounded, Texts, OpOK, Restores
<1>6. Placed' /\ Gens' /\ Answers' /\ Screen' /\ Saving'
  BY <1>0, <1>1, <1>2, <1>3 DEF Placed, Gens, Answers, AnswerOK, Screen, Saving
<1>7. Copied' /\ Worked' /\ Operated'
  BY <1>0, <1>2, <1>3 DEF RInv, Copied, Worked, Published, Operated, LiveOp, Locked
<1>8. Alone'
  BY <1>0 DEF RInv, Alone, Undisturbed
<1> QED BY <1>4, <1>5, <1>6, <1>7, <1>8 DEF RInv

LEMMA ReloadKept ==
  ASSUME RInv, Reload
  PROVE  RInv'
<1>0. /\ EditorTypeOK /\ Bounded /\ Head_ \in Nat /\ ed.shown \in Nat /\ ed.shown <= Head_ /\ count \in Counts
      /\ chain \in Seq(Saves) /\ old \in Seq(Saves)
      /\ UNCHANGED <<copy, work>> /\ timer' = Nil /\ chain' = <<>> /\ old' = <<>>
      /\ ed' = [NoEditor EXCEPT !.shown = ed.shown] /\ load' = [step |-> "sent"]
  BY Kept, CountTyped DEF RInv, Reload, EditorTypeOK
<1>1. Grows
  <2>1. srv' = srv \/ (chain # <<>> /\ srv' = Appended(chain[1].text)) \/ (old # <<>> /\ srv' = Appended(old[1].text))
    BY DEF Reload, Unheard
  <2>2. (chain # <<>> => chain[1].text \in Texts) /\ (old # <<>> => old[1].text \in Texts)
    BY <1>0, SaveTyped DEF Bounded
  <2>3. ASSUME srv' = srv PROVE Grows
    BY <1>0, <2>3, SameGrows
  <2>4. ASSUME chain # <<>>, srv' = Appended(chain[1].text) PROVE Grows
    BY <1>0, <2>2, <2>4, AppendedGrows
  <2>5. ASSUME old # <<>>, srv' = Appended(old[1].text) PROVE Grows
    BY <1>0, <2>2, <2>5, AppendedGrows
  <2> QED BY <2>1, <2>3, <2>4, <2>5
<1>2. /\ ed' \in Editors /\ ed'.ws = Nil /\ ed'.saved = 0 /\ ed'.shown = ed.shown /\ ed'.conflict = 0
      /\ ed'.gen = 0 /\ ed'.form = 0 /\ ed'.offer = Nil /\ ed'.pick = Nil /\ ed'.here /\ ed'.text = 0 /\ ~ed'.unsaved /\ ed'.state = "IDLE"
      /\ load' \in Fetches /\ load' # Nil /\ load'.step = "sent"
  <2> DEFINE e == ed'
  <2>1. e = [NoEditor EXCEPT !.shown = ed.shown]
    BY <1>0
  <2> HIDE DEF e
  <2>3. Nil \in Views \cup {Nil} /\ (e = [NoEditor EXCEPT !.ws = Nil, !.shown = ed.shown] \/ (Nil = Nil /\ e = [NoEditor EXCEPT !.shown = ed.shown]))
    BY <2>1
  <2>2. Emptied(e, Nil)
    BY <1>0, <2>3, EmptyEditor
  <2> QED BY <1>0, <2>2 DEF e, Emptied
<1>3. count' \in Counts /\ count'.edits = count.edits /\ count'.forms = count.forms /\ count'.events # 0 /\ Alone'
  BY <1>0, Disturbed DEF Reload
<1>4. op' = Nil /\ OpOK' /\ \A K : ~LiveOp(K)'
  BY DEF Reload, GivenUp, OpOK, LiveOp
<1>5. ~Loaded' /\ ~Locked'
  BY <1>2, <1>4 DEF Loaded, Locked
<1>g. /\ Head_' \in Nat /\ Head_ <= Head_'
      /\ \A t : Published(t) => Published(t)'
  BY <1>0, <1>1, GrowsFacts
<1>6. EditorTypeOK'
  <2>1. {ed'.saved, ed'.shown, ed'.conflict} \subseteq 0..Head_'
    BY <1>0, <1>2, <1>g
  <2>2. work' \in [text : 0..count'.edits, form : 0..count'.forms] /\ copy' \in Copies \cup {Nil}
    BY <1>0, <1>3 DEF EditorTypeOK
  <2>3. ed'.text \in Texts
    BY <1>2, TextsFacts
  <2>4. timer' \in Autosaves \cup {Nil} /\ chain' \in Seq(Saves) /\ old' \in Seq(Saves) /\ load' \in Fetches \cup {Nil}
    BY <1>0, <1>2
  <2> QED BY <1>1, <1>2, <1>3, <1>4, <2>1, <2>2, <2>3, <2>4 DEF EditorTypeOK, Grows, Texts, Counts
<1>7. Bounded'
  <2>1. copy' # Nil => copy'.text \in Texts /\ copy'.base <= Head_'
    BY <1>0, <1>g, Kept DEF Bounded
  <2> QED BY <1>0, <1>1, <1>2, <1>4, <2>1 DEF Bounded, Grows, Texts
<1>8. Placed' /\ Gens' /\ Answers' /\ Screen' /\ Saving'
  BY <1>0, <1>2, <1>5 DEF Placed, Gens, Answers, AnswerOK, Screen, Saving
<1>9. Copied' /\ Operated'
  BY <1>0, <1>2, <1>4, <1>5 DEF Copied, Operated
<1>10. Worked'
  <2>1. work.text # 0 => Published(work.text)' \/ (copy # Nil /\ copy.text = work.text)
    BY <1>0, <1>g DEF RInv, Worked
  <2> QED BY <1>0, <2>1 DEF RInv, Worked, Published
<1> QED BY <1>3, <1>6, <1>7, <1>8, <1>9, <1>10 DEF RInv
-----------------------------------------------------------------------------
(* The draft is fetched *)
LEMMA LoadReadsKept ==
  ASSUME RInv, LoadReads
  PROVE  RInv'
<1> DEFINE v == View
<1>0. /\ EditorTypeOK /\ Bounded /\ Head_ \in Nat /\ Head_' = Head_ /\ load # Nil
      /\ UNCHANGED <<srv, ed, timer, chain, old, op, copy, work, count>>
      /\ v \in Views /\ v.ver = Head_ /\ v.frozen = srv.frozen /\ load' = [step |-> "read", ws |-> v]
  BY Kept, ViewFacts DEF RInv, LoadReads, Head_
<1> HIDE DEF v
<1>1. load' \in Fetches /\ load'.step = "read" /\ load'.ws = v
  BY <1>0 DEF Fetches
<1>2. load' # Nil
  BY <1>1, ReportAssumption
<1>3. ~Loaded /\ ~Loaded' /\ ~Locked /\ ~Locked'
  BY <1>0, <1>2 DEF RInv, Placed, Loaded, Locked
<1>4. EditorTypeOK'
  BY <1>0, <1>1 DEF EditorTypeOK, Texts, Counts
<1>5. Bounded'
  BY <1>0, <1>1 DEF Bounded, Texts, OpOK, Restores
<1>6. Placed' /\ Gens' /\ Screen' /\ Saving'
  BY <1>0, <1>2, <1>3 DEF RInv, Placed, Gens, Screen, Saving
<1>7. Answers'
  <2>1. copy # Nil => copy.base <= v.ver
    BY <1>0 DEF Bounded
  <2> QED BY <1>0, <1>1, <1>3, <2>1 DEF RInv, Answers, AnswerOK
<1>8. Copied' /\ Worked' /\ Operated'
  BY <1>0, <1>3 DEF RInv, Copied, Worked, Published, Operated, LiveOp, Locked
<1>9. Alone'
  <2> SUFFICES ASSUME count'.events = 0 PROVE Undisturbed'
    BY DEF Alone
  <2>1. Undisturbed
    BY <1>0 DEF RInv, Alone
  <2>2. Head_ = 0 /\ v.frozen = {}
    <3>1. Head_ = 0
      BY <1>0, <2>1 DEF Undisturbed
    <3> QED BY <1>0, <3>1 DEF Bounded
  <2> QED BY <1>0, <1>1, <2>1, <2>2 DEF Undisturbed
<1> QED BY <1>4, <1>5, <1>6, <1>7, <1>8, <1>9 DEF RInv

LEMMA LoadLandsKept ==
  ASSUME RInv, LoadLands
  PROVE  RInv'
<1> DEFINE ws == load.ws
           v == ws.ver
           t == TextOf(v)
           st == IF v = 0 THEN "IDLE" ELSE "SAVED"
<1>0. /\ EditorTypeOK /\ Bounded /\ Head_ \in Nat /\ Head_' = Head_ /\ load # Nil /\ load.step = "read" /\ load' = Nil
      /\ UNCHANGED <<srv, timer, chain, old, op, copy, work, count>> /\ copy \in Copies \cup {Nil}
      /\ ed' = [NoEditor EXCEPT !.ws = ws, !.text = t, !.saved = v, !.shown = v, !.gen = ed.gen, !.state = st, !.offer = copy]
  BY Kept DEF RInv, LoadLands, Head_, EditorTypeOK
<1>1. timer = Nil /\ chain = <<>> /\ ed.gen = 0 /\ ed.here /\ old = <<>> /\ ~Loaded /\ ~Locked
  BY <1>0 DEF RInv, Placed, Loaded
<1>2. ws \in Views /\ v \in Nat /\ v <= Head_
  <2>1. load \in Fetches
    BY <1>0 DEF EditorTypeOK
  <2>2. ws \in Views
    BY <1>0, <2>1 DEF Fetches
  <2>3. v <= Head_
    BY <1>0 DEF Bounded
  <2> QED BY <2>2, <2>3 DEF Views
<1>3. t \in Texts /\ t \in Nat
  BY <1>0, <1>2, TextOfTyped
<1>s. st \in {"IDLE", "SAVED"}
  OBVIOUS
<1>4. t = TextOf(v) /\ ws # Nil
  BY <1>2, ReportAssumption
<1>w. copy # Nil => copy.base <= v
  BY <1>0 DEF RInv, Answers
<1>f. load # Nil /\ v = load.ws.ver /\ ws.frozen = load.ws.frozen
  BY <1>0
<1> HIDE DEF ws, v, t, st
<1>5. /\ ed' \in Editors /\ ed'.ws = ws /\ ed'.text = t /\ ed'.saved = v /\ ed'.shown = v /\ ed'.gen = 0 /\ ed'.state = st
      /\ ed'.offer = copy /\ ed'.conflict = 0 /\ ed'.form = 0 /\ ed'.pick = Nil /\ ed'.here /\ ~ed'.unsaved
  <2> DEFINE a == [NoEditor EXCEPT !.ws = ws, !.text = t, !.saved = v, !.shown = v]
             b == [a EXCEPT !.gen = ed.gen, !.state = st, !.offer = copy]
  <2>1. /\ a \in Editors /\ a.ws = ws /\ a.text = t /\ a.saved = v /\ a.shown = v
        /\ a.conflict = 0 /\ a.form = 0 /\ a.pick = Nil /\ a.here /\ ~a.unsaved
    BY <1>2, <1>3 DEF NoEditor, Editors
  <2>2. ed' = b
    BY <1>0 DEF NoEditor
  <2> HIDE DEF a
  <2>3. /\ b \in Editors /\ b.ws = a.ws /\ b.text = a.text /\ b.saved = a.saved /\ b.shown = a.shown /\ b.gen = 0 /\ b.state = st
        /\ b.offer = copy /\ b.conflict = a.conflict /\ b.form = a.form /\ b.pick = a.pick /\ b.here = a.here /\ b.unsaved = a.unsaved
    BY <1>0, <1>1, <1>s, <2>1 DEF Editors
  <2> HIDE DEF b
  <2> QED BY <2>1, <2>2, <2>3
<1>6. Loaded' /\ \A K : ~LiveOp(K)'
  BY <1>0, <1>1, <1>4, <1>5 DEF Loaded, LiveOp, Locked
<1>7. EditorTypeOK'
  <2>1. {ed'.saved, ed'.shown, ed'.conflict} \subseteq 0..Head_
    BY <1>0, <1>2, <1>5
  <2> QED BY <1>0, <1>3, <1>5, <2>1 DEF EditorTypeOK, Texts, Counts
<1>8. Bounded'
  BY <1>0, <1>2, <1>5 DEF Bounded, Texts, OpOK, Restores, v
<1>9. Placed' /\ Gens'
  BY <1>0, <1>1, <1>4, <1>5, <1>6 DEF Placed, Gens
<1>10. Answers'
  <2>1. v <= v
    BY <1>2
  <2> QED BY <1>0, <1>1, <1>5, <1>w, <2>1 DEF Answers, AnswerOK
<1>11. Screen'
  BY <1>0, <1>4, <1>5 DEF Screen, TextOf
<1>12. Copied' /\ Saving' /\ Worked' /\ Operated'
  BY <1>0, <1>5, <1>6, <1>s DEF RInv, Copied, DirtyOf, Saving, Worked, Published, Operated
<1>13. Alone'
  <2> SUFFICES ASSUME count'.events = 0 PROVE Undisturbed'
    BY DEF Alone
  <2>1. Undisturbed
    BY <1>0 DEF RInv, Alone
  <2>2. Head_ = 0 /\ copy = Nil /\ v = 0 /\ ws.frozen = {} /\ op = Nil
    BY <1>0, <1>1, <1>f, <2>1 DEF Undisturbed
  <2> QED BY <1>0, <1>1, <1>5, <1>s, <2>2 DEF Undisturbed
<1> QED BY <1>7, <1>8, <1>9, <1>10, <1>11, <1>12, <1>13 DEF RInv

LEMMA InitKept ==
  ASSUME ReportInit
  PROVE  RInv
<1>1. /\ srv = [revs |-> <<>>, signed |-> 0, job |-> Nil, frozen |-> {}] /\ Head_ = 0
      /\ ed = NoEditor /\ load = [step |-> "sent"]
      /\ timer = Nil /\ chain = <<>> /\ old = <<>> /\ op = Nil
      /\ copy = Nil /\ work = NoWork
      /\ count = [edits |-> 0, forms |-> 0, clicks |-> 0, events |-> 0]
  BY DEF ReportInit, Head_
<1>2. /\ ed \in Editors /\ ed.ws = Nil /\ ed.saved = 0 /\ ed.shown = 0 /\ ed.conflict = 0
      /\ ed.gen = 0 /\ ed.form = 0 /\ ed.offer = Nil /\ ed.pick = Nil /\ ed.here /\ ed.text = 0 /\ ~ed.unsaved /\ ed.state = "IDLE"
  BY <1>1 DEF NoEditor, Editors
<1>3. load \in Fetches /\ load.step = "sent" /\ load # Nil
  <2>1. load \in Fetches /\ load.step = "sent"
    BY <1>1 DEF Fetches
  <2> QED BY <2>1, ReportAssumption
<1>4. count \in Counts /\ count.edits = 0 /\ count.forms = 0 /\ work \in [text : 0..0, form : 0..0] /\ work.text = 0 /\ work.form = 0
  BY <1>1, ReportAssumption DEF Counts, NoWork
<1>5. srv \in [revs : Seq(Texts), signed : 0..0, job : FreezeJobs \cup {Nil}, frozen : SUBSET Outputs] /\ srv.job = Nil /\ srv.frozen = {}
  BY <1>1
<1>6. ~Loaded /\ ~Locked
  BY <1>1, <1>2 DEF Loaded, Locked
<1>7. EditorTypeOK
  <2>1. chain \in Seq(Saves) /\ old \in Seq(Saves)
    BY <1>1
  <2>2. work \in [text : 0..count.edits, form : 0..count.forms] /\ ed.text \in Texts /\ {ed.saved, ed.shown, ed.conflict} \subseteq 0..Head_
    BY <1>1, <1>2, <1>4, TextsFacts
  <2> QED BY <1>1, <1>2, <1>3, <1>4, <1>5, <2>1, <2>2 DEF EditorTypeOK, Counts
<1>8. Bounded
  BY <1>1, <1>2, <1>3, <1>5 DEF Bounded, OpOK
<1>9. Placed /\ Gens /\ Answers /\ Screen /\ Copied /\ Worked /\ Operated /\ Saving
  BY <1>1, <1>2, <1>3, <1>4, <1>6 DEF Placed, Gens, Answers, Screen, Copied, Worked, Operated, LiveOp, Saving
<1>10. Alone
  BY <1>1, <1>2, <1>3 DEF Alone, Undisturbed
<1> QED BY <1>7, <1>8, <1>9, <1>10 DEF RInv
-----------------------------------------------------------------------------
(* The answer of an operation *)
LEMMA OverKept ==
  ASSUME RInv, op # Nil, op' = Nil, UNCHANGED <<srv, ed, timer, chain, old, load, copy, work>>,
         op.step # "ok",
         count' = count \/ (count.events < MaxEvents /\ count' = [count EXCEPT !.events = @ + 1])
  PROVE  RInv'
<1>0. EditorTypeOK /\ Bounded /\ count \in Counts /\ Head_' = Head_
  BY CountTyped DEF RInv, Head_
<1>1. Grows
  BY <1>0, SameGrows
<1>2. GoesOn
  BY DEF GoesOn
<1>3. count' \in Counts /\ count'.edits = count.edits /\ count'.forms = count.forms /\ (count' = count \/ Alone')
  BY <1>0, Disturbed
<1>4. RSound'
  BY <1>1, <1>2, <1>3, ServerStep
<1>5. Alone'
  <2> SUFFICES ASSUME count' = count, count.events = 0 PROVE Undisturbed'
    BY <1>3 DEF Alone
  <2>1. Undisturbed
    BY DEF RInv, Alone
  <2> QED BY <1>0, <2>1 DEF Undisturbed
<1> QED BY <1>4, <1>5, RInvOf

\* Who locked the editor is in it, has its copy on screen and an answer that fits.
LEMMA LiveFacts ==
  ASSUME RInv, op # Nil
  PROVE  /\ EditorTypeOK /\ Bounded /\ Head_ \in Nat /\ Loaded /\ ed \in Editors /\ op \in Operations /\ OpOK /\ count \in Counts
         /\ work \in [text : 0..count.edits, form : 0..count.forms] /\ copy \in Copies \cup {Nil}
         /\ ed.ws \in Views /\ ed.ws.ver <= Head_ /\ ed.here /\ load = Nil /\ old = <<>>
         /\ op.ws # Nil => op.ws \in Views /\ op.ws.ver <= Head_ /\ op.ws.ver \in Nat
         /\ Undisturbed => ed.gen # 0
<1>1. /\ EditorTypeOK /\ Bounded /\ Head_ \in Nat /\ ed \in Editors /\ op \in Operations /\ OpOK /\ count \in Counts
      /\ work \in [text : 0..count.edits, form : 0..count.forms] /\ copy \in Copies \cup {Nil} /\ ed.ws \in Views \cup {Nil}
  BY Kept, CountTyped DEF RInv, EditorTypeOK, Bounded
<1>2. Loaded
  BY DEF RInv, Placed, Locked
<1>3. ed.ws \in Views /\ ed.ws.ver <= Head_ /\ ed.here /\ load = Nil /\ old = <<>>
  BY <1>1, <1>2 DEF RInv, Placed, Loaded, Bounded
<1>4. op.ws # Nil => op.ws \in Views /\ op.ws.ver <= Head_ /\ op.ws.ver \in Nat
  BY <1>1 DEF Operations, Views, OpOK
<1>5. Undisturbed => ed.gen # 0
  BY DEF Undisturbed
<1> QED BY <1>1, <1>2, <1>3, <1>4, <1>5

LEMMA FetchedKept ==
  ASSUME RInv, op # Nil, op.kind \notin {"restore", "changes"} \/ op.step # "ok", ed' \in Editors,
         ed'.text = ed.text, ed'.saved = ed.saved, ed'.shown = ed.shown, ed'.unsaved = ed.unsaved, ed'.gen = ed.gen,
         ed'.state = ed.state, ed'.conflict = ed.conflict, ed'.form = ed.form, ed'.here = ed.here,
         ed'.offer = IF ed.unsaved THEN ed.offer ELSE copy, ed'.ws \in Views, ed'.ws.ver <= Head_,
         UNCHANGED <<srv, timer, chain, old, load, copy, work, count>>,
         op' = Nil \/ (op.kind = "freeze" /\ op' = [op EXCEPT !.step = "poll"])
  PROVE  RInv'
<1>0. /\ EditorTypeOK /\ Bounded /\ Head_ \in Nat /\ Loaded /\ ed \in Editors /\ op \in Operations /\ OpOK /\ count \in Counts
      /\ work \in [text : 0..count.edits, form : 0..count.forms] /\ copy \in Copies \cup {Nil}
      /\ ed.ws \in Views /\ ed.ws.ver <= Head_ /\ ed.here /\ load = Nil /\ old = <<>>
      /\ op.ws # Nil => op.ws \in Views /\ op.ws.ver <= Head_ /\ op.ws.ver \in Nat
      /\ Undisturbed => ed.gen # 0
  BY LiveFacts
<1>1. CASE op' = Nil
  <2>1. OpOK' /\ (Locked' => Locked) /\ Operated'
    BY <1>1 DEF OpOK, Locked, Operated, LiveOp
  <2>2. Copied' /\ Worked'
    BY <1>0 DEF RInv, Copied, CopyFits, DirtyOf, Worked, Published, Loaded, Head_
  <2>3. /\ op' \in Operations \cup {Nil} /\ count' \in Counts /\ work' \in [text : 0..count'.edits, form : 0..count'.forms]
        /\ copy' \in Copies \cup {Nil} /\ copy' = copy
    BY <1>0, <1>1
  <2> QED BY <1>0, <1>1, <2>1, <2>2, <2>3, ScreenKept
<1>2. CASE op.kind = "freeze" /\ op' = [op EXCEPT !.step = "poll"]
  <2>1. op' \in Operations /\ op'.kind = "freeze" /\ op'.arg = op.arg /\ op'.ws = op.ws /\ op'.step = "poll"
    BY <1>0, <1>2 DEF Operations
  <2>2. OpOK'
    BY <1>0, <1>2, <2>1 DEF OpOK, Head_
  <2>3. (Locked' => Locked) /\ Operated'
    BY <1>2, <2>1 DEF RInv, Locked, Operated, LiveOp
  <2>4. Copied' /\ Worked'
    BY <1>0 DEF RInv, Copied, CopyFits, DirtyOf, Worked, Published, Loaded, Head_
  <2>5. /\ count' \in Counts /\ work' \in [text : 0..count'.edits, form : 0..count'.forms] /\ copy' \in Copies \cup {Nil} /\ copy' = copy
        /\ op' # Nil
    BY <1>0, <2>1, ReportAssumption
  <2>6. /\ Undisturbed /\ ed.gen = 0 => ed'.offer = Nil /\ op' = Nil /\ ed'.pick = Nil /\ ed'.ws.frozen = {}
        /\ Undisturbed /\ op' # Nil => op'.kind = op.kind /\ (op.kind = "freeze" \/ (op'.step = op.step /\ op'.ws = op.ws))
        /\ Undisturbed /\ op' = Nil => op = Nil \/ op.kind \notin {"restore", "changes"} \/ op.step # "ok"
    BY <1>0, <1>2, <2>1
  <2> QED BY <1>0, <2>1, <2>2, <2>3, <2>4, <2>5, <2>6, ScreenKept
<1> QED BY <1>1, <1>2

LEMMA SignedFacts ==
  ASSUME ed \in Editors, NEW ws, ws \in Views, ed' = [ed EXCEPT !.ws = ws, !.form = 0, !.offer = Nil]
  PROVE  /\ ed' \in Editors /\ ed'.ws = ws /\ ed'.text = ed.text /\ ed'.saved = ed.saved /\ ed'.shown = ed.shown /\ ed'.unsaved = ed.unsaved
         /\ ed'.gen = ed.gen /\ ed'.state = ed.state /\ ed'.conflict = ed.conflict /\ ed'.here = ed.here /\ ed'.form = 0 /\ ed'.offer = Nil
BY DEF Editors

LEMMA SignedKept ==
  ASSUME RInv, op # Nil, op.kind = "sign", op.step = "ok", op' = Nil,
         ed' = [ed EXCEPT !.ws.signed = op.ws.signed, !.form = 0, !.offer = Nil],
         copy' = Retained(ed'), work' = [work EXCEPT !.form = 0], UNCHANGED <<srv, timer, chain, old, load, count>>
  PROVE  RInv'
<1>0. /\ EditorTypeOK /\ Bounded /\ Head_ \in Nat /\ Loaded /\ ed \in Editors /\ op \in Operations /\ OpOK /\ count \in Counts
      /\ work \in [text : 0..count.edits, form : 0..count.forms] /\ copy \in Copies \cup {Nil}
      /\ ed.ws \in Views /\ ed.ws.ver <= Head_ /\ ed.here /\ load = Nil /\ old = <<>>
      /\ op.ws # Nil => op.ws \in Views /\ op.ws.ver <= Head_ /\ op.ws.ver \in Nat
      /\ Undisturbed => ed.gen # 0
  BY LiveFacts
<1>1. ~ed.unsaved /\ (copy = Nil \/ CopyFits)
  BY DEF RInv, Operated, LiveOp
<1> DEFINE sg == op.ws.signed
           ws == [ed.ws EXCEPT !.signed = sg]
<1>2. sg \in Nat
  BY <1>0 DEF OpOK, Views
<1>3. ed' = [ed EXCEPT !.ws = ws, !.form = 0, !.offer = Nil]
  BY <1>0 DEF Editors
<1> HIDE DEF sg
<1>4. ws \in Views /\ ws.ver = ed.ws.ver
  BY <1>0, <1>2 DEF Views
<1> HIDE DEF ws
<1>5. /\ ed' \in Editors /\ ed'.ws = ws /\ ed'.text = ed.text /\ ed'.saved = ed.saved /\ ed'.shown = ed.shown /\ ed'.unsaved = FALSE
      /\ ed'.gen = ed.gen /\ ed'.state = ed.state /\ ed'.conflict = ed.conflict /\ ed'.here = ed.here /\ ed'.form = 0 /\ ed'.offer = Nil
  <2>1. ed \in Editors /\ ws \in Views
    BY <1>0, <1>4
  <2>2. /\ ed' \in Editors /\ ed'.ws = ws /\ ed'.text = ed.text /\ ed'.saved = ed.saved /\ ed'.shown = ed.shown /\ ed'.unsaved = ed.unsaved
        /\ ed'.gen = ed.gen /\ ed'.state = ed.state /\ ed'.conflict = ed.conflict /\ ed'.here = ed.here /\ ed'.form = 0 /\ ed'.offer = Nil
    BY <1>3, <2>1, SignedFacts
  <2>3. ed.unsaved = FALSE
    BY <1>1, <2>1 DEF Editors
  <2> QED BY <2>2, <2>3
<1>6. copy' = Nil
  BY <1>5 DEF Retained, DirtyOf
<1>7. work'.form = 0 /\ work'.text = work.text /\ work' \in [text : 0..count'.edits, form : 0..count'.forms]
  BY <1>0 DEF Counts
<1>8. OpOK' /\ (Locked' => Locked) /\ Operated' /\ Copied'
  BY <1>5, <1>6 DEF OpOK, Locked, Operated, LiveOp, Copied, DirtyOf
<1>9. Worked'
  <2>1. work.text # 0 => Published(work.text)
    <3> SUFFICES ASSUME work.text # 0, copy # Nil, copy.text = work.text PROVE Published(work.text)
      BY DEF RInv, Worked
    <3>1. work.text = TextOf(ed.saved)
      BY <1>0, <1>1 DEF RInv, Screen, CopyFits
    <3>2. ed.saved \in 1..Head_ /\ srv.revs[ed.saved] = work.text
      BY <1>0, <3>1, Kept DEF TextOf
    <3> QED BY <3>2 DEF Published
  <2> QED BY <1>7, <2>1 DEF Worked, Published, Head_
<1>10. /\ ed'.ws \in Views /\ ed'.ws.ver <= Head_ /\ copy' \in Copies \cup {Nil} /\ count' \in Counts /\ op' \in Operations \cup {Nil}
       /\ ed'.unsaved = ed.unsaved
  BY <1>0, <1>1, <1>4, <1>5, <1>6
<1> QED BY <1>0, <1>5, <1>6, <1>7, <1>8, <1>9, <1>10, ScreenKept

LEMMA AdoptKept ==
  ASSUME RInv, op # Nil, op.kind \in {"restore", "shared", "changes"}, op.step = "ok", op' = Nil,
         timer = Nil, chain = <<>>, Adopt(op.ws), UNCHANGED <<srv, timer, chain, old, load, count>>
  PROVE  RInv'
<1> DEFINE ws == op.ws
           v == ws.ver
           t == TextOf(v)
           a == Adopted(ws)
<1>0. /\ EditorTypeOK /\ Bounded /\ Head_ \in Nat /\ Loaded /\ ed \in Editors /\ op \in Operations /\ OpOK /\ count \in Counts
      /\ work \in [text : 0..count.edits, form : 0..count.forms] /\ copy \in Copies \cup {Nil}
      /\ ed.ws \in Views /\ ed.ws.ver <= Head_ /\ ed.here /\ load = Nil /\ old = <<>>
      /\ op.ws # Nil => op.ws \in Views /\ op.ws.ver <= Head_ /\ op.ws.ver \in Nat
      /\ Undisturbed => ed.gen # 0
  BY LiveFacts
<1>1. ws \in Views /\ v \in Nat /\ v <= Head_ /\ ws # Nil
  BY <1>0 DEF OpOK
<1>2. t \in Texts /\ t \in Nat
  BY <1>0, <1>1, TextOfTyped
<1>3. copy' = Retained(a) /\ ed' = [a EXCEPT !.offer = copy'] /\ work' = IF op.kind = "changes" THEN work ELSE [work EXCEPT !.text = 0]
  BY DEF Adopt
<1>4. /\ a \in Editors /\ a.ws = ws /\ a.text = TextOf(ws.ver) /\ a.saved = ws.ver /\ a.shown = ws.ver /\ a.unsaved = FALSE
      /\ a.gen = ed.gen /\ a.state = "SAVED" /\ a.conflict = 0 /\ a.form = ed.form /\ a.offer = Nil /\ a.pick = Nil /\ a.here = ed.here
  BY <1>0, <1>1, <1>2, AdoptedFacts
<1>l. LiveOp({"restore", "shared", "changes"}) /\ LiveOp({"sign", "restore", "shared", "changes"})
      /\ (op.kind = "changes" => LiveOp({"sign", "freeze", "restore", "changes"}))
  BY DEF LiveOp
<1>u. (copy = Nil \/ CopyFits) /\ (op.kind = "changes" => ~ed.unsaved)
  BY <1>l DEF RInv, Operated
<1>a. Undisturbed => v = Head_
  BY DEF Undisturbed
<1>h. Head_' = Head_ /\ ws.ver = v /\ t = TextOf(v)
  BY DEF Head_, TextOf
<1> HIDE DEF a, t, v, ws
<1>5. /\ copy' \in Copies \cup {Nil}
      /\ DirtyOf(a) => copy' # Nil /\ copy'.text = a.text /\ copy'.form = a.form /\ copy'.base = a.saved
      /\ ~DirtyOf(a) => copy' = Nil
  BY <1>3, <1>4, RetainedFacts
<1>6. /\ copy' \in Copies \cup {Nil}
      /\ ed.form # 0 => copy' # Nil /\ copy'.text = t /\ copy'.form = ed.form /\ copy'.base = v
      /\ ed.form = 0 => copy' = Nil
  BY <1>4, <1>5, <1>h DEF DirtyOf
<1>7. /\ ed' \in Editors /\ ed'.ws = ws /\ ed'.text = t /\ ed'.saved = v /\ ed'.shown = v /\ ed'.unsaved = FALSE
      /\ ed'.gen = ed.gen /\ ed'.state = "SAVED" /\ ed'.conflict = 0 /\ ed'.form = ed.form /\ ed'.offer = copy' /\ ed'.pick = Nil
      /\ ed'.here = ed.here
  BY <1>3, <1>4, <1>6, <1>h DEF Editors
<1>8. /\ work' \in [text : 0..count'.edits, form : 0..count'.forms] /\ work'.form = work.form
      /\ work'.text # 0 => op.kind = "changes" /\ work'.text = work.text
  BY <1>0, <1>3 DEF Counts
<1>9. Loaded' /\ ~Locked' /\ \A K : ~LiveOp(K)'
  BY <1>0, <1>1, <1>7 DEF Loaded, Locked, LiveOp
<1>10. EditorTypeOK'
  <2>1. {ed'.saved, ed'.shown, ed'.conflict} \subseteq 0..Head_
    BY <1>0, <1>1, <1>7
  <2> QED BY <1>0, <1>2, <1>6, <1>7, <1>8, <1>h, <2>1 DEF EditorTypeOK, Texts, Counts
<1>11. Bounded'
  <2>1. copy' # Nil => copy'.text \in Texts /\ copy'.base <= Head_
    BY <1>1, <1>2, <1>6
  <2>2. ed'.ws.ver <= Head_
    BY <1>1, <1>7, <1>h
  <2> QED BY <1>0, <1>h, <2>1, <2>2 DEF Bounded, OpOK, Texts
<1>12. Placed' /\ Gens'
  BY <1>0, <1>1, <1>7, <1>9 DEF Placed, Gens
<1>13. Answers'
  <2>1. v <= v
    BY <1>1
  <2>2. copy' # Nil => copy'.base = v
    BY <1>6
  <2> QED BY <1>0, <1>7, <2>1, <2>2 DEF Answers, AnswerOK
<1>14. Screen'
  BY <1>7, <1>h DEF Screen, TextOf
<1>15. Copied'
  BY <1>6, <1>7 DEF Copied, CopyFits, DirtyOf
<1>16. Worked'
  <2>1. work.form # 0 => copy' # Nil /\ copy'.form = work.form
    BY <1>6, <1>u DEF RInv, Worked, CopyFits
  <2>2. work'.text # 0 => Published(work.text)
    <3> SUFFICES ASSUME work'.text # 0, copy # Nil, copy.text = work.text, work.text # 0 PROVE Published(work.text)
      BY <1>8 DEF RInv, Worked
    <3>1. work.text = TextOf(ed.saved)
      BY <1>0, <1>8, <1>u DEF RInv, Screen, CopyFits
    <3>2. ed.saved \in 1..Head_ /\ srv.revs[ed.saved] = work.text
      BY <1>0, <3>1, Kept DEF TextOf
    <3> QED BY <3>2 DEF Published
  <2> QED BY <1>8, <1>h, <2>1, <2>2 DEF Worked, Published
<1>17. Operated' /\ Saving'
  BY <1>7, <1>9 DEF Operated, Saving
<1>18. Alone'
  <2> SUFFICES ASSUME count'.events = 0 PROVE Undisturbed'
    BY DEF Alone
  <2>1. Undisturbed
    BY DEF RInv, Alone
  <2>2. ed.gen # 0 /\ v = Head_
    BY <1>0, <1>a, <2>1
  <2> QED BY <1>0, <1>7, <1>h, <2>2 DEF Undisturbed
<1> QED BY <1>10, <1>11, <1>12, <1>13, <1>14, <1>15, <1>16, <1>17, <1>18 DEF RInv

LEMMA FetchedFacts ==
  ASSUME NEW e \in Editors, NEW ws \in Views, copy \in Copies \cup {Nil}, NEW n, n = Fetched(e, ws)
  PROVE  /\ n \in Editors /\ n.ws = ws /\ n.text = e.text /\ n.saved = e.saved /\ n.shown = e.shown /\ n.unsaved = e.unsaved
         /\ n.gen = e.gen /\ n.state = e.state /\ n.conflict = e.conflict /\ n.form = e.form /\ n.here = e.here
         /\ n.offer = IF e.unsaved THEN e.offer ELSE copy
<1> DEFINE o == IF e.unsaved THEN e.offer ELSE copy
<1>1. o \in Copies \cup {Nil}
  BY DEF Editors
<1>2. n = [e EXCEPT !.ws = ws, !.offer = o]
  BY DEF Fetched
<1> HIDE DEF o
<1> DEFINE a == [e EXCEPT !.ws = ws]
<1>a. /\ a \in Editors /\ a.ws = ws /\ a.text = e.text /\ a.saved = e.saved /\ a.shown = e.shown /\ a.unsaved = e.unsaved
      /\ a.gen = e.gen /\ a.state = e.state /\ a.conflict = e.conflict /\ a.form = e.form /\ a.here = e.here
  BY DEF Editors
<1>b. n = [a EXCEPT !.offer = o]
  BY <1>2 DEF Editors
<1> HIDE DEF a
<1>3. /\ n \in Editors /\ n.ws = ws /\ n.text = e.text /\ n.saved = e.saved /\ n.shown = e.shown /\ n.unsaved = e.unsaved
      /\ n.gen = e.gen /\ n.state = e.state /\ n.conflict = e.conflict /\ n.form = e.form /\ n.here = e.here /\ n.offer = o
  BY <1>1, <1>a, <1>b DEF Editors
<1> QED BY <1>3 DEF o

LEMMA OpAnsweredKept ==
  ASSUME Slips = {}, RInv, OpAnswered
  PROVE  RInv'
<1>0. op # Nil /\ op.step \in {"ok", "no"} /\ UNCHANGED <<srv, timer, chain, old, load, count>> /\ op \in Operations
  BY DEF OpAnswered, RInv, EditorTypeOK
<1>1. CASE op.step = "no"
  <2>1. op' = Nil /\ UNCHANGED <<ed, copy, work>>
    BY <1>0, <1>1 DEF OpAnswered
  <2> QED BY <1>0, <1>1, <2>1, OverKept
<1>2. CASE op.step = "ok"
  <2>0. /\ EditorTypeOK /\ Bounded /\ Head_ \in Nat /\ Loaded /\ ed \in Editors /\ op \in Operations /\ OpOK /\ count \in Counts
        /\ work \in [text : 0..count.edits, form : 0..count.forms] /\ copy \in Copies \cup {Nil}
        /\ ed.ws \in Views /\ ed.ws.ver <= Head_ /\ ed.here /\ load = Nil /\ old = <<>>
        /\ op.ws # Nil => op.ws \in Views /\ op.ws.ver <= Head_ /\ op.ws.ver \in Nat
        /\ Undisturbed => ed.gen # 0
    BY <1>0, <1>2, LiveFacts
  <2>1. CASE op.kind = "sign"
    <3>1. op' = Nil /\ ed' = [ed EXCEPT !.ws.signed = op.ws.signed, !.form = 0, !.offer = Nil]
          /\ copy' = Retained(ed') /\ work' = [work EXCEPT !.form = 0]
      BY <1>0, <1>2, <2>1 DEF OpAnswered
    <3> QED BY <1>0, <1>2, <2>1, <3>1, SignedKept
  <2>2. CASE op.kind = "freeze"
    <3> DEFINE job == op.ws.job
               ws == [ed.ws EXCEPT !.job = job]
               n == ed'
    <3>1. op' = [op EXCEPT !.step = "poll"] /\ n = Fetched(ed, ws) /\ UNCHANGED <<copy, work>>
      BY <1>0, <1>2, <2>2 DEF OpAnswered
    <3>2. job \in FreezeJobs \cup {Nil}
      BY <1>0, <1>2, <2>0, <2>2 DEF OpOK, Views
    <3> HIDE DEF job
    <3>3. ws \in Views /\ ws.ver = ed.ws.ver
      BY <2>0, <3>2 DEF Views
    <3> HIDE DEF ws, n
    <3>4. /\ n \in Editors /\ n.ws = ws /\ n.text = ed.text /\ n.saved = ed.saved /\ n.shown = ed.shown /\ n.unsaved = ed.unsaved
          /\ n.gen = ed.gen /\ n.state = ed.state /\ n.conflict = ed.conflict /\ n.form = ed.form /\ n.here = ed.here
          /\ n.offer = IF ed.unsaved THEN ed.offer ELSE copy
      <4>1. ed \in Editors /\ ws \in Views /\ copy \in Copies \cup {Nil} /\ n = Fetched(ed, ws)
        BY <2>0, <3>1, <3>3
      <4> QED BY <4>1, FetchedFacts
    <3>5. /\ ed' \in Editors /\ ed'.text = ed.text /\ ed'.saved = ed.saved /\ ed'.shown = ed.shown /\ ed'.unsaved = ed.unsaved
          /\ ed'.gen = ed.gen /\ ed'.state = ed.state /\ ed'.conflict = ed.conflict /\ ed'.form = ed.form /\ ed'.here = ed.here
          /\ ed'.offer = (IF ed.unsaved THEN ed.offer ELSE copy) /\ ed'.ws \in Views /\ ed'.ws.ver <= Head_
      BY <2>0, <3>3, <3>4 DEF n
    <3> QED BY <1>0, <1>2, <2>2, <3>1, <3>5, FetchedKept
  <2>3. CASE op.kind = "file"
    <3> DEFINE fs == Filed(ed.ws.frozen, op.arg)
               ws == [ed.ws EXCEPT !.frozen = fs]
               e == Fetched(ed, ws)
               n == ed'
    <3>1. op' = Nil /\ n = [e EXCEPT !.pick = Nil] /\ UNCHANGED <<copy, work>>
      BY <1>0, <1>2, <2>3 DEF OpAnswered
    <3>2. fs \subseteq Outputs
      <4>1. ed.ws.frozen \subseteq Outputs /\ op.arg \in Outputs
        BY <1>0, <2>0, <2>3 DEF OpOK, Views
      <4> QED BY <4>1, FiledFacts
    <3> HIDE DEF fs
    <3>3. ws \in Views /\ ws.ver = ed.ws.ver
      BY <2>0, <3>2 DEF Views
    <3> HIDE DEF ws, n
    <3>4. /\ e \in Editors /\ e.ws = ws /\ e.text = ed.text /\ e.saved = ed.saved /\ e.shown = ed.shown /\ e.unsaved = ed.unsaved
          /\ e.gen = ed.gen /\ e.state = ed.state /\ e.conflict = ed.conflict /\ e.form = ed.form /\ e.here = ed.here
          /\ e.offer = IF ed.unsaved THEN ed.offer ELSE copy
      BY <2>0, <3>3, FetchedFacts
    <3> HIDE DEF e
    <3>5. /\ n \in Editors /\ n.ws = e.ws /\ n.text = e.text /\ n.saved = e.saved /\ n.shown = e.shown /\ n.unsaved = e.unsaved
          /\ n.gen = e.gen /\ n.state = e.state /\ n.conflict = e.conflict /\ n.form = e.form /\ n.here = e.here
          /\ n.offer = e.offer
      BY <3>1, <3>4 DEF Editors
    <3>6. /\ ed' \in Editors /\ ed'.text = ed.text /\ ed'.saved = ed.saved /\ ed'.shown = ed.shown /\ ed'.unsaved = ed.unsaved
          /\ ed'.gen = ed.gen /\ ed'.state = ed.state /\ ed'.conflict = ed.conflict /\ ed'.form = ed.form /\ ed'.here = ed.here
          /\ ed'.offer = (IF ed.unsaved THEN ed.offer ELSE copy) /\ ed'.ws \in Views /\ ed'.ws.ver <= Head_
      BY <2>0, <3>3, <3>4, <3>5 DEF n
    <3> QED BY <1>0, <1>2, <2>3, <3>1, <3>6, FetchedKept
  <2>4. CASE op.kind \in {"restore", "shared", "changes"}
    <3>1. timer = Nil /\ chain = <<>>
      BY <1>0, <1>2, <2>4 DEF OpAnswered, Busy
    <3>2. op' = Nil /\ Adopt(op.ws)
      BY <1>0, <1>2, <2>4 DEF OpAnswered
    <3> QED BY <1>0, <1>2, <2>4, <3>1, <3>2, AdoptKept
  <2>5. op.kind \in {"sign", "freeze", "restore", "shared", "file", "changes"}
    BY <1>0 DEF Operations, OpKinds
  <2> QED BY <2>1, <2>2, <2>3, <2>4, <2>5
<1> QED BY <1>0, <1>1, <1>2

LEMMA PollKept ==
  ASSUME RInv, Poll
  PROVE  RInv'
<1>0. op # Nil /\ op.step = "poll" /\ UNCHANGED <<srv, timer, chain, old, load, copy, work>> /\ op' = Nil
  BY DEF Poll
<1>1. CASE ed' = ed
  BY <1>0, <1>1, OverKept DEF Poll
<1>2. CASE ed' = Fetched(ed, View) /\ count' = count
  <2>0. /\ EditorTypeOK /\ Bounded /\ Head_ \in Nat /\ Loaded /\ ed \in Editors /\ op \in Operations /\ OpOK /\ count \in Counts
        /\ work \in [text : 0..count.edits, form : 0..count.forms] /\ copy \in Copies \cup {Nil}
        /\ ed.ws \in Views /\ ed.ws.ver <= Head_ /\ ed.here /\ load = Nil /\ old = <<>>
        /\ op.ws # Nil => op.ws \in Views /\ op.ws.ver <= Head_ /\ op.ws.ver \in Nat
        /\ Undisturbed => ed.gen # 0
    BY <1>0, <1>2, LiveFacts
  <2> DEFINE ws == View
             n == ed'
  <2>1. ws \in Views /\ ws.ver = Head_ /\ Head_ <= Head_
    BY <2>0, ViewFacts
  <2>2. n = Fetched(ed, ws)
    BY <1>2
  <2> HIDE DEF ws, n
  <2>4. /\ n \in Editors /\ n.ws = ws /\ n.text = ed.text /\ n.saved = ed.saved /\ n.shown = ed.shown /\ n.unsaved = ed.unsaved
        /\ n.gen = ed.gen /\ n.state = ed.state /\ n.conflict = ed.conflict /\ n.form = ed.form /\ n.here = ed.here
        /\ n.offer = IF ed.unsaved THEN ed.offer ELSE copy
    <3>1. ed \in Editors /\ ws \in Views /\ copy \in Copies \cup {Nil}
      BY <2>0, <2>1
    <3> QED BY <3>1, <2>2, FetchedFacts
  <2>5. /\ ed' \in Editors /\ ed'.text = ed.text /\ ed'.saved = ed.saved /\ ed'.shown = ed.shown /\ ed'.unsaved = ed.unsaved
        /\ ed'.gen = ed.gen /\ ed'.state = ed.state /\ ed'.conflict = ed.conflict /\ ed'.form = ed.form /\ ed'.here = ed.here
        /\ ed'.offer = (IF ed.unsaved THEN ed.offer ELSE copy) /\ ed'.ws \in Views /\ ed'.ws.ver <= Head_
    BY <2>1, <2>4 DEF n
  <2> QED BY <1>0, <1>2, <2>5, FetchedKept
<1> QED BY <1>0, <1>1, <1>2 DEF Poll
-----------------------------------------------------------------------------
(* Every step *)
LEMMA StutterKept ==
  ASSUME RInv, UNCHANGED reportVars
  PROVE  RInv'
<1>0. UNCHANGED <<srv, ed, timer, chain, old, op, load, copy, work, count>>
  BY DEF reportVars
<1>1. EditorTypeOK' /\ Bounded'
  BY <1>0 DEF RInv, EditorTypeOK, Bounded, OpOK, Restores, Texts, Counts, Head_
<1>2. Placed' /\ Gens' /\ Answers' /\ Saving'
  BY <1>0 DEF RInv, Placed, Gens, Answers, AnswerOK, Saving, Loaded, Locked
<1>3. Screen' /\ Copied' /\ Worked' /\ Operated'
  BY <1>0 DEF RInv, Screen, Copied, CopyFits, DirtyOf, Worked, Published, Operated, LiveOp, Loaded, TextOf, Head_
<1>4. Alone'
  BY <1>0 DEF RInv, Alone, Undisturbed, Head_
<1> QED BY <1>1, <1>2, <1>3, <1>4 DEF RInv

LEMMA NextKept ==
  ASSUME Slips = {}, RInv, LInv, ReportNext
  PROVE  RInv'
BY LoadReadsKept, LoadLandsKept, EditKept, TypeOpinionKept, QueueKept, ChainSendsKept, ChainServedKept, ChainLandsKept,
   OldGoesOnKept, RetryOverKept, ApplyKept, DiscardKept, OperationsBegin, SelectKept, OpServedKept, OpLostKept,
   OpAnsweredKept, PollKept, OthersKept, WorkerKept, LeaveKept, ReturnKept, ReloadKept, LeftServedKept
DEF ReportNext, StayNext

\* Events are counted up.
CountsUp == count' = count \/ \E f \in {"edits", "forms", "clicks", "events"} : count' = [count EXCEPT ![f] = @ + 1]
LEMMA EventsStay ==
  ASSUME ReportNext
  PROVE  CountsUp
<1>1. CASE Edit \/ TypeOpinion
  BY <1>1 DEF Edit, TypeOpinion, CountsUp
<1>2. CASE LoadReads \/ LoadLands \/ TimerFires \/ Retry \/ ChainSends \/ ChainLands
  BY <1>2 DEF LoadReads, LoadLands, TimerFires, Retry, ChainSends, ChainLands, CountsUp
<1>3. CASE ChainServed \/ OldGoesOn
  BY <1>3 DEF ChainServed, OldGoesOn, PutServed, Lost, CountsUp
<1>4. CASE RetryOver \/ ApplyRecovery \/ DiscardRecovery
  BY <1>4 DEF RetryOver, ApplyRecovery, DiscardRecovery, Pressed, CountsUp
<1>5. CASE SignOpinion \/ Freeze \/ RestoreRevision \/ AcceptShared \/ FileFrozen \/ RequestChanges
  BY <1>5 DEF SignOpinion, Freeze, RestoreRevision, AcceptShared, FileFrozen, RequestChanges, Begin, Pressed, CountsUp
<1>6. CASE SelectFrozen \/ OpServed \/ OpLost \/ OpAnswered \/ Poll \/ LeftServed
  BY <1>6 DEF SelectFrozen, OpServed, OpLost, OpAnswered, Poll, LeftServed, CountsUp
<1>7. CASE ColleagueSaves \/ ColleagueFreezes \/ WorkerPublishes \/ Leave \/ Return \/ Reload
  BY <1>7 DEF ColleagueSaves, ColleagueFreezes, Others, WorkerPublishes, Leave, Return, Reload, CountsUp
<1> QED BY <1>1, <1>2, <1>3, <1>4, <1>5, <1>6, <1>7 DEF ReportNext, StayNext

\* What is left was an operation of the analyst's, as its kind has it.
LEMMA LeftKept ==
  ASSUME RInv, LInv, ReportNext
  PROVE  LInv'
<1>1. count \in Counts
  BY CountTyped DEF RInv
<1>2. count.events # 0 => count'.events # 0
  BY <1>1, EventsStay DEF CountsUp, Counts
<1>3. CASE left' \subseteq left
  BY <1>2, <1>3 DEF LInv
<1>4. CASE GivenUp /\ (Leave \/ Reload)
  <2>1. count'.events # 0
    BY <1>1, <1>4, Disturbed DEF Leave, Reload
  <2> DEFINE o == [kind |-> op.kind, arg |-> op.arg, no |-> count.clicks]
  <2>2. ASSUME op # Nil PROVE o \in Orders
    <3>1. op \in Operations /\ OpOK /\ count.clicks \in Nat /\ Head_ \in Nat
      BY <1>1, <2>2, Kept DEF RInv, EditorTypeOK, Bounded, Counts
    <3>2. CASE op.kind \in {"sign", "freeze"}
      <4>1. op.arg \in {v \in Views : v.ver # 0}
        BY <2>2, <3>1, <3>2 DEF OpOK
      <4> QED BY <3>1, <3>2, <4>1 DEF Orders
    <3>3. CASE op.kind = "restore"
      BY <2>2, <3>1, <3>3 DEF OpOK, Orders
    <3>4. CASE op.kind \in {"file", "changes"}
      BY <2>2, <3>1, <3>4 DEF OpOK, Orders
    <3>5. CASE op.kind = "shared"
      BY <2>2, <3>1, <3>5 DEF OpOK, Orders
    <3> QED BY <3>1, <3>2, <3>3, <3>4, <3>5 DEF Operations, OpKinds
  <2> HIDE DEF o
  <2>3. left' \subseteq left \cup {o} /\ (op = Nil => left' = left)
    BY <1>4 DEF GivenUp, o
  <2> QED BY <2>1, <2>2, <2>3 DEF LInv
<1> QED BY <1>3, <1>4 DEF ReportNext, LeftServed, Leave, Reload

\* The invariant gives what the run checks of every state.
LEMMA SoundOf ==
  ASSUME RInv
  PROVE  NoFalseConflict /\ EditorTypeOK /\ WorkIsKept /\ CopyGuards /\ SavingHasWork
<1>1. NoFalseConflict
  <2>1. count.events \in Nat
    BY CountTyped DEF RInv, Counts
  <2> QED BY <2>1 DEF RInv, Alone, Undisturbed, NoFalseConflict
<1>2. WorkIsKept
  BY DEF RInv, Worked, Published, WorkIsKept, Somewhere
<1>3. CopyGuards
  <2> SUFFICES ASSUME Loaded, Unguarded PROVE CopyFits
    BY DEF CopyGuards, CopyFits
  <2>1. DirtyOf(ed)
    BY DEF Unguarded, DirtyOf
  <2>2. work # NoWork
    BY DEF Unguarded, NoWork
  <2> QED BY <2>1, <2>2 DEF RInv, Copied
<1>4. SavingHasWork
  BY DEF RInv, Placed, Saving, Loaded, SavingHasWork
<1> QED BY <1>1, <1>2, <1>3, <1>4 DEF RInv
-----------------------------------------------------------------------------
(* What a step does to the server *)
LEMMA QuietSteps ==
  ASSUME UNCHANGED srv
  PROVE  ReportSteps
<1>1. NoBlindOverwrite
  <2> SUFFICES ASSUME NEW v \in (Head_ + 1)..Len(srv.revs) PROVE FALSE
    BY DEF NoBlindOverwrite
  <2>1. Head_ = Len(srv.revs)
    BY DEF Head_
  <2> QED BY <2>1
<1>2. FreezesTheScreen
  BY DEF FreezesTheScreen
<1> QED BY <1>1, <1>2 DEF ReportSteps

\* A save that appends was sent with the version on the screen.
LEMMA AppendSteps ==
  ASSUME EditorTypeOK, Bounded, NEW t \in Texts, srv' = Appended(t), ed.shown = Head_ \/ ~Mine(t)
  PROVE  ReportSteps
<1>1. Grows /\ Head_' = Head_ + 1 /\ srv'.revs[Head_ + 1] = t /\ srv'.job = srv.job /\ srv'.signed = srv.signed /\ Head_ \in Nat
  BY AppendedGrows, Kept
<1>2. NoBlindOverwrite
  <2> SUFFICES ASSUME NEW v \in (Head_ + 1)..Len(srv'.revs), Mine(srv'.revs[v]), NEW u \in (ed.shown + 1)..(v - 1)
               PROVE  FALSE
    BY DEF NoBlindOverwrite
  <2>1. v = Head_ + 1
    BY <1>1 DEF Head_
  <2>2. Mine(t)
    BY <1>1, <2>1
  <2> QED BY <1>1, <2>1, <2>2
<1>3. FreezesTheScreen
  BY <1>1 DEF FreezesTheScreen
<1> QED BY <1>2, <1>3 DEF ReportSteps

LEMMA SentSteps ==
  ASSUME RInv, NEW q \in Saves, q.text \in Texts, q.ver = Head_, q.ver <= ed.shown, srv' = Appended(q.text)
  PROVE  ReportSteps
<1>1. ed.shown = Head_
  BY Kept DEF RInv
<1> QED BY <1>1, AppendSteps DEF RInv

LEMMA HeadSent ==
  ASSUME RInv, NEW c \in {chain, old}, c # <<>>, c[1].step = "sent"
  PROVE  c[1] \in Saves /\ c[1].text \in Texts /\ c[1].ver <= ed.shown
<1>1. c \in Seq(Saves)
  BY DEF RInv, EditorTypeOK
<1>2. 1 \in 1..Len(c) /\ c[1] \in Saves
  BY <1>1, SaveTyped
<1> QED BY <1>2 DEF RInv, Bounded, Answers, AnswerOK

LEMMA SavesStep ==
  ASSUME RInv, ChainServed \/ OldGoesOn \/ Reload
  PROVE  ReportSteps
<1>1. \/ srv' = srv
      \/ chain # <<>> /\ chain[1].step = "sent" /\ chain[1].ver = Head_ /\ srv' = Appended(chain[1].text)
      \/ old # <<>> /\ old[1].step = "sent" /\ old[1].ver = Head_ /\ srv' = Appended(old[1].text)
  <2>1. CASE ChainServed
    BY <2>1 DEF ChainServed, PutServed, Lost
  <2>2. CASE OldGoesOn
    BY <2>2 DEF OldGoesOn, PutServed, Lost
  <2>3. CASE Reload
    BY <2>3 DEF Reload, Unheard
  <2> QED BY <2>1, <2>2, <2>3
<1>2. CASE srv' = srv
  BY <1>2, QuietSteps
<1>3. CASE chain # <<>> /\ chain[1].step = "sent" /\ chain[1].ver = Head_ /\ srv' = Appended(chain[1].text)
  <2>1. chain[1] \in Saves /\ chain[1].text \in Texts /\ chain[1].ver <= ed.shown
    BY <1>3, HeadSent
  <2> QED BY <1>3, <2>1, SentSteps
<1>4. CASE old # <<>> /\ old[1].step = "sent" /\ old[1].ver = Head_ /\ srv' = Appended(old[1].text)
  <2>1. old[1] \in Saves /\ old[1].text \in Texts /\ old[1].ver <= ed.shown
    BY <1>4, HeadSent
  <2> QED BY <1>4, <2>1, SentSteps
<1> QED BY <1>1, <1>2, <1>3, <1>4

LEMMA ColleaguesStep ==
  ASSUME RInv, ColleagueSaves \/ ColleagueFreezes \/ WorkerPublishes
  PROVE  ReportSteps
<1>0. /\ EditorTypeOK /\ Bounded /\ Head_ \in Nat /\ count \in Counts
      /\ srv \in [revs : Seq(Texts), signed : 0..Head_, job : FreezeJobs \cup {Nil}, frozen : SUBSET Outputs]
  BY Kept, CountTyped DEF RInv, EditorTypeOK
<1>s. ASSUME srv'.revs = srv.revs, srv'.job = srv.job \/ srv'.job.st # "QUEUED" PROVE ReportSteps
  <2>1. NoBlindOverwrite
    <3> SUFFICES ASSUME NEW v \in (Head_ + 1)..Len(srv.revs) PROVE FALSE
      BY <1>s DEF NoBlindOverwrite
    <3> QED BY <1>0 DEF Head_
  <2>2. FreezesTheScreen
    BY <1>s DEF FreezesTheScreen
  <2> QED BY <2>1, <2>2 DEF ReportSteps
<1>1. CASE ColleagueSaves
  <2>1. count.events \in Nat /\ count.events < MaxEvents /\ MaxEdits \in Nat /\ MaxEvents \in Nat
    BY <1>0, <1>1, TextsFacts DEF ColleagueSaves, Others, Counts
  <2> DEFINE t == MaxEdits + count.events + 1
  <2>2. t \in Texts /\ ~Mine(t)
    BY <2>1 DEF Texts, Mine
  <2>3. srv' = Appended(t)
    BY <1>1 DEF ColleagueSaves, Others
  <2> HIDE DEF t
  <2> QED BY <1>0, <2>2, <2>3, AppendSteps
<1>2. CASE ColleagueFreezes
  <2>1. srv'.revs = srv.revs /\ srv'.job = srv.job
    BY <1>0, <1>2 DEF ColleagueFreezes, Others
  <2> QED BY <1>s, <2>1
<1>3. CASE WorkerPublishes
  <2>1. srv.job \in FreezeJobs
    BY <1>0, <1>3, Kept DEF WorkerPublishes
  <2> DEFINE o == [ver |-> srv.job.ver, st |-> "FROZEN", mine |-> TRUE]
             j1 == [srv.job EXCEPT !.st = "FAILED"]
             j2 == [srv.job EXCEPT !.st = "PUBLISHED"]
  <2>2. j1.st = "FAILED" /\ j2.st = "PUBLISHED"
    BY <2>1 DEF FreezeJobs
  <2>3. \/ srv' = [srv EXCEPT !.job = j1]
        \/ srv' = [srv EXCEPT !.job = j2, !.frozen = @ \cup {o}]
    <3>1. srv' \in {[srv EXCEPT !.job.st = "FAILED"], [srv EXCEPT !.job.st = "PUBLISHED", !.frozen = @ \cup {o}]}
      BY <1>3 DEF WorkerPublishes
    <3> QED BY <3>1
  <2> HIDE DEF j1, j2, o
  <2>4. srv'.revs = srv.revs /\ srv'.job \in {j1, j2}
    BY <1>0, <2>3
  <2> QED BY <1>s, <2>2, <2>4
<1> QED BY <1>1, <1>2, <1>3

LEMMA OperationStep ==
  ASSUME RInv, OpServed
  PROVE  ReportSteps
<1>0. /\ Head_ \in Nat /\ op \in Operations /\ op # Nil /\ op.step = "sent"
      /\ srv \in [revs : Seq(Texts), signed : 0..Head_, job : FreezeJobs \cup {Nil}, frozen : SUBSET Outputs]
  BY Kept DEF RInv, OpServed, EditorTypeOK
<1>1. NoBlindOverwrite
  <2> SUFFICES op' # op
    BY DEF NoBlindOverwrite
  <2>1. op'.step = "no" \/ op'.step = "ok"
    BY <1>0 DEF OpServed, Operations
  <2> QED BY <1>0, <2>1
<1>2. FreezesTheScreen
  <2> SUFFICES ASSUME srv'.job # srv.job
               PROVE  ed.text = srv.revs[srv'.job.ver] /\ ~ed.unsaved /\ ed.form = 0 /\ srv'.job.ver = Head_ /\ srv.signed = Head_
    BY DEF FreezesTheScreen
  <2> DEFINE job == [ver |-> Head_, st |-> "QUEUED"]
  <2>1. op.kind = "freeze" /\ op.arg.ver = Head_ /\ srv.signed = Head_ /\ srv' = [srv EXCEPT !.job = job]
    <3> DEFINE r == Outcome(op)
    <3>1. op.kind \in OpKinds /\ srv' = r.srv
      BY <1>0 DEF Operations, OpServed
    <3> HIDE DEF r
    <3>2. \A s, ws : r = Done(s, ws) => srv' = s
      BY <3>1 DEF Done
    <3>3. r = Refused => srv' = srv
      BY <3>1 DEF Refused
    <3>4. \/ srv' = srv
          \/ srv' = [srv EXCEPT !.signed = Head_]
          \/ op.kind = "freeze" /\ op.arg.ver = Head_ /\ srv.signed = Head_ /\ srv' = [srv EXCEPT !.job = [ver |-> Head_, st |-> "QUEUED"]]
          \/ srv' = Appended(op.arg.text)
          \/ srv' = [srv EXCEPT !.frozen = Filed(@, op.arg)]
          \/ srv' = Changes(op.arg)
      <4>1. op.kind \in OpKinds
        BY <3>1
      <4> HIDE DEF job
      <4> QED BY <4>1, <3>2, <3>3, Outcomes DEF r
    <3>5. /\ [srv EXCEPT !.signed = Head_].job = srv.job /\ [srv EXCEPT !.frozen = Filed(@, op.arg)].job = srv.job
          /\ Appended(op.arg.text).job = srv.job /\ Changes(op.arg).job = srv.job
      BY <1>0 DEF Appended, Changes
    <3> QED BY <3>4, <3>5
  <2>2. srv'.job.ver = Head_
    BY <1>0, <2>1
  <2>3. ed.form = 0 /\ ed.text = srv.revs[op.arg.ver] /\ ~ed.unsaved
    BY <1>0, <2>1 DEF RInv, Operated, LiveOp
  <2> QED BY <2>1, <2>2, <2>3
<1> QED BY <1>1, <1>2 DEF ReportSteps

LEMMA StepSound ==
  ASSUME RInv, ReportNext
  PROVE  ReportSteps
<1>1. CASE srv' = srv
  BY <1>1, QuietSteps
<1>2. CASE srv' # srv
  <2>1. ChainServed \/ OldGoesOn \/ Reload \/ ColleagueSaves \/ ColleagueFreezes \/ WorkerPublishes \/ OpServed \/ LeftServed
    BY <1>2 DEF ReportNext, StayNext, LoadReads, LoadLands, Edit, TypeOpinion, TimerFires, Retry, ChainSends, ChainLands, RetryOver,
       ApplyRecovery, DiscardRecovery, SignOpinion, Freeze, RestoreRevision, AcceptShared, SelectFrozen, FileFrozen,
       RequestChanges, Begin, OpLost, OpAnswered, Poll, Leave, Return
  <2>2. LeftServed => ReportSteps
    BY DEF LeftServed, ReportSteps, NoBlindOverwrite, FreezesTheScreen
  <2> QED BY <2>1, <2>2, SavesStep, ColleaguesStep, OperationStep
<1> QED BY <1>1, <1>2
-----------------------------------------------------------------------------
(* The theorems *)

\* The report's side of a step of the run is a step of the report; the tab's leaves the report alone.
LEMMA ReportSide ==
  ASSUME [MCNext]_<<part, vars, reportVars>>
  PROVE  /\ part' = part
         /\ part = "report" => ReportNext \/ UNCHANGED reportVars
         /\ part # "report" => UNCHANGED reportVars
<1>1. CASE part = "tab" /\ Next /\ UNCHANGED <<part, reportVars>>
  BY <1>1
<1>2. CASE part = "report" /\ ReportNext /\ UNCHANGED <<part, vars>>
  BY <1>2
<1>3. CASE UNCHANGED <<part, vars, reportVars>>
  BY <1>3
<1> QED BY <1>1, <1>2, <1>3 DEF MCNext

ReportHolds == part = "report" => RInv /\ LInv
LEMMA ReportHoldsAlways ==
  ASSUME Slips = {}
  PROVE  MCSpec => []ReportHolds
<1>1. MCInit => ReportHolds
  BY InitKept DEF MCInit, ReportInit, LInv, ReportHolds
<1>2. ReportHolds /\ [MCNext]_<<part, vars, reportVars>> => ReportHolds'
  <2> SUFFICES ASSUME ReportHolds, [MCNext]_<<part, vars, reportVars>>, part' = "report" PROVE RInv' /\ LInv'
    BY DEF ReportHolds
  <2>1. part = "report" /\ (ReportNext \/ UNCHANGED reportVars)
    BY ReportSide
  <2>2. RInv /\ LInv
    BY <2>1 DEF ReportHolds
  <2>3. CASE ReportNext
    BY <2>2, <2>3, NextKept, LeftKept
  <2>4. CASE UNCHANGED reportVars
    BY <2>2, <2>4, StutterKept DEF reportVars, LInv
  <2> QED BY <2>1, <2>3, <2>4
<1> QED BY <1>1, <1>2, PTL DEF MCSpec

\* Every variable of the report editor keeps its type: in particular no version that the screen,
\* a save or an answer names is beyond the server's head.
THEOREM ReportTypes ==
  ASSUME Slips = {}
  PROVE  MCSpec => [](part = "report" => ReportTypeOK)
<1>1. ReportHolds => (part = "report" => ReportTypeOK)
  BY DEF ReportHolds, RInv, LInv, ReportTypeOK
<1> QED BY <1>1, ReportHoldsAlways, PTL

\* Through timers, saves in flight, reloads and leaving, what was typed is on the screen, in a
\* revision or in the browser's copy, unsaved work on the screen has its copy, SAVING has a save to
\* come, and an analyst who works alone meets no conflict.
THEOREM ReportSound ==
  ASSUME Slips = {}
  PROVE  MCSpec => []ReportStaysSound
<1>1. ReportHolds => ReportStaysSound
  BY SoundOf DEF ReportHolds, ReportStaysSound, ReportIsSound, ReportTypeOK, LInv
<1> QED BY <1>1, ReportHoldsAlways, PTL

\* However the saves and the colleagues interleave, a save replaces no revision that the analyst
\* has not had on the screen or chosen to replace, and a freeze is of what the screen shows.
THEOREM ReportStepsKept ==
  ASSUME Slips = {}
  PROVE  MCSpec => ReportStepsSound
<1>1. ReportHolds /\ [MCNext]_<<part, vars, reportVars>> => [part = "report" => ReportSteps]_reportVars
  <2> SUFFICES ASSUME ReportHolds, [MCNext]_<<part, vars, reportVars>>, part = "report", ~UNCHANGED reportVars
               PROVE  ReportSteps
    OBVIOUS
  <2>1. ReportNext
    BY ReportSide
  <2>2. RInv
    BY DEF ReportHolds
  <2> QED BY <2>1, <2>2, StepSound
<1> QED BY <1>1, ReportHoldsAlways, PTL DEF MCSpec, ReportStepsSound
=============================================================================
