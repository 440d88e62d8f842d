----------------------------- MODULE LiveSource -----------------------------
(***************************************************************************)
(* What live mode writes into a source file: live-wrap.mjs and             *)
(* live-insert.mjs put a block of preview markup around or beside the      *)
(* element the user picked, the agent fills it with variants, and          *)
(* live-accept.mjs replaces the block by one variant or by the original.   *)
(* A .svelte file is left alone until the accept: its variants are         *)
(* components in a directory of their own, and a manifest remembers the    *)
(* lines to replace.  Copy edits the user has staged but not applied       *)
(* (manual-edits-buffer.mjs) are read by wrap and scrubbed by accept.      *)
(*                                                                         *)
(* A file is a sequence of lines.  Of a line only what the scripts search  *)
(* for is kept: its kind, the session its marker or attribute names, the   *)
(* variant number, and for a line of content the element and its text.     *)
(* An element is one line; indentation is left out.                        *)
(***************************************************************************)
EXTENDS Naturals, FiniteSets, Sequences, SequencesExt

CONSTANTS
  Sessions,    \* live sessions
  Elements,    \* the elements of the page
  Pages,       \* the pages the file is part of
  Kinds,       \* kinds of source file to look at
  Word,        \* Word[e]: the text of e in the source
  Odd,         \* the element that may be dynamic or scattered
  None, N,     \* N: variants of a session
  Overlap,     \* kinds of file in which several sessions may be open at once
  Nested,      \* whether a session may start inside the block of another
  MaxEdits     \* bound: copy edits staged by the user

ASSUME SourceAssumption ==
  /\ Kinds \subseteq {"html", "jsx", "svelte", "generated"} /\ Overlap \subseteq Kinds
  /\ N \in Nat \ {0} /\ MaxEdits \in Nat /\ Nested \in BOOLEAN
  /\ None \notin Sessions \cup Elements
  /\ Odd \in Elements

VARIABLES
  oddity,     \* what is special about Odd, see Dynamic and Scattered
  kind,       \* the extension of the file, or that it is generated
  lines,      \* the file
  buffer,     \* staged copy edits: [e, page, old, new]
  manifest,   \* manifest[s]: what the component directory of s says, or None
  sess,       \* sess[s]: how far the agent is with s, and what it wrapped
  edits       \* how often the user staged an edit

vars == <<oddity, kind, lines, buffer, manifest, sess, edits>>

(* Elements whose text is an expression in the source, and elements whose  *)
(* text is spread over several tags.                                       *)
Dynamic   == IF oddity = "dynamic" THEN {Odd} ELSE {}
Scattered == IF oddity = "scattered" THEN {Odd} ELSE {}

Variants == 1..N
Edited == N + 1

-----------------------------------------------------------------------------
(* Lines. *)

Line(k, s, v) == [k |-> k, s |-> s, v |-> v, e |-> None, t |-> <<None, 0>>]
El(e, t)      == [k |-> "el", s |-> None, v |-> 0, e |-> e, t |-> t]

(* The text of an element: what the author wrote, or what a variant or an  *)
(* edit made of it.                                                        *)
Written(e)  == <<Word[e], 0>>
Draft(s, v) == <<s, v>>

Depth(l) == IF l.k \in {"div", "open", "orig", "var", "carb"} THEN 1
            ELSE IF l.k = "close" THEN 0 - 1 ELSE 0

(* The line on which the tag that opens on line i closes, searched no      *)
(* further than line b; 0 when it does not close.                          *)
Closing(ls, i, b) ==
  LET level[j \in i..b] == Depth(ls[j]) + (IF j = i THEN 0 ELSE level[j - 1])
      closed == {j \in i..b : level[j] <= 0}
  IN  IF closed = {} THEN 0 ELSE CHOOSE j \in closed : \A k \in closed : j <= k

First(S) == IF S = {} THEN 0 ELSE CHOOSE i \in S : \A j \in S : i <= j
Final(S) == IF S = {} THEN 0 ELSE CHOOSE i \in S : \A j \in S : j <= i

Replaced(ls, a, b, new) == SubSeq(ls, 1, a - 1) \o new \o SubSeq(ls, b + 1, Len(ls))

-----------------------------------------------------------------------------
(* live-wrap: find the element. *)

(* Every line of content whose class matches; comments and the tags of     *)
(* preview markup are skipped, what stands inside it is not.  All elements *)
(* of the model share their classes.                                       *)
Candidates(ls) == {i \in DOMAIN ls : ls[i].k = "el"}

(* The text of the picked element as the page shows it: with the staged    *)
(* edit, if there is one, and with its expressions evaluated.              *)
Shown(ls, e, page) ==
  LET at == First({i \in Candidates(ls) : ls[i].e = e})
      staged == {op \in buffer : op.e = e /\ op.page = page}
  IN  IF e \in Dynamic THEN <<None, 1>>
      ELSE IF staged # {} THEN (CHOOSE op \in staged : TRUE).new
      ELSE ls[at].t

(* Elements that do not say the text are kept. *)
FilterByTextNone(ls, found, text) == {i \in found : ls[i].t # text}

FilterByText(ls, found, text) == {i \in found : ls[i].t = text}

(* The line of the element, 0 when there is none, or that several lines    *)
(* match as well.                                                          *)
Match(ls, text) ==
  LET found == Candidates(ls)
      fit   == FilterByText(ls, found, text)
  IN  IF Cardinality(found) <= 1 \/ text = None \/ fit = {} THEN [at |-> First(found), ambiguous |-> FALSE]
      ELSE [at |-> First(fit), ambiguous |-> Cardinality(fit) > 1]

-----------------------------------------------------------------------------
(* live-wrap: staged copy edits that touch the picked lines. *)

MayAffect(op, l) == l.t = op.old
Applies(op, l)   == l.t = op.old /\ l.e \notin Scattered

(* The staged edits of the page, in any order, applied to the line; failed *)
(* when one seems to touch it and cannot be applied.                       *)
Buffered(l, page) ==
  LET here == {op \in buffer : op.page = page}
      hits == {op \in here : Applies(op, l)}
  IN  [failed |-> \E op \in here : MayAffect(op, l) /\ ~Applies(op, l),
       line   |-> IF hits = {} THEN l ELSE [l EXCEPT !.t = (CHOOSE op \in hits : TRUE).new]]

Blocked(l) == \E op \in buffer : MayAffect(op, l)

WrapperLines(s, original) ==
  LET held == <<Line("orig", None, 0), original, Line("close", None, 0), Line("here", s, 0)>>
  IN  IF kind = "jsx"
      THEN <<Line("open", s, 0), Line("start", s, 0)>> \o held \o <<Line("end", s, 0), Line("close", None, 0)>>
      ELSE <<Line("start", s, 0), Line("open", s, 0)>> \o held \o <<Line("close", None, 0), Line("end", s, 0)>>

(* The JSX insert scaffold without its closing tag. *)
InsertWrapperLinesOpen(s) ==
  <<Line("open", s, 0), Line("start", s, 0), Line("here", s, 0), Line("end", s, 0)>>

InsertWrapperLines(s) ==
  IF kind = "jsx"
  THEN <<Line("open", s, 0), Line("start", s, 0), Line("here", s, 0), Line("end", s, 0), Line("close", None, 0)>>
  ELSE <<Line("start", s, 0), Line("open", s, 0), Line("here", s, 0), Line("close", None, 0), Line("end", s, 0)>>

(* Insertion at the end of an element's line or in front of it. *)
InsertLine(at, position) == IF position = "before" THEN at ELSE at + 1

-----------------------------------------------------------------------------
(* live-wrap and live-insert as run by the agent for a generate event. *)

Open(s) == sess[s].st \in {"wrapped", "written"}

(* One session at a time, except where Overlap says otherwise. *)
MayStart(s) == sess[s].st = "free" /\ \A r \in Sessions : Open(r) => kind \in Overlap

(* The element is not one that an open session holds. *)
Apart(e) == Nested \/ \A r \in Sessions : Open(r) => sess[r].hit # e

Started(s, e, page, mode, hit, was, sure) ==
  sess' = [sess EXCEPT ![s] = [st |-> "wrapped", e |-> e, page |-> page, mode |-> mode,
                               hit |-> hit, was |-> was, sure |-> sure, v |-> 0]]

ScaffoldSvelteComponentSession(s, at) ==
  manifest' = [manifest EXCEPT ![s] = [mode |-> "replace", from |-> at, to |-> at]]

ScaffoldSvelteComponentInsertSession(s, at) ==
  manifest' = [manifest EXCEPT ![s] = [mode |-> "insert", from |-> at, to |-> at]]

Wrap(s) ==
  \E e \in Elements, page \in Pages, withText \in BOOLEAN, withPage \in BOOLEAN :
    LET found == Match(lines, IF withText THEN Shown(lines, e, page) ELSE None)
        l == lines[found.at]
        kept == IF withPage THEN Buffered(l, page) ELSE [failed |-> Blocked(l), line |-> l]
    IN  /\ MayStart(s) /\ kind # "generated"
        /\ found.at # 0 /\ ~found.ambiguous
        /\ ~kept.failed
        /\ IF kind = "svelte"
           THEN /\ ScaffoldSvelteComponentSession(s, found.at)
                /\ UNCHANGED lines
           ELSE /\ lines' = Replaced(lines, found.at, found.at, WrapperLines(s, kept.line))
                /\ UNCHANGED manifest
        /\ Apart(l.e)
        /\ Started(s, e, page, "replace", l.e, l.t,
                   withText /\ e \notin Dynamic /\ \A op \in buffer : op.e # e)
        /\ UNCHANGED <<oddity, kind, buffer, edits>>

Insert(s) ==
  \E e \in Elements, page \in Pages, position \in {"before", "after"} :
    LET found == Match(lines, Shown(lines, e, page))
        at == InsertLine(found.at, position)
    IN  /\ MayStart(s) /\ kind # "generated"
        /\ found.at # 0 /\ ~found.ambiguous /\ Apart(lines[found.at].e)
        /\ IF kind = "svelte"
           THEN /\ ScaffoldSvelteComponentInsertSession(s, at)
                /\ UNCHANGED lines
           ELSE /\ lines' = Replaced(lines, at, at - 1, InsertWrapperLines(s))
                /\ UNCHANGED manifest
        /\ Started(s, e, page, "insert", s, <<None, 0>>, FALSE)
        /\ UNCHANGED <<oddity, kind, buffer, edits>>

(* A generated file is refused, and the agent writes the scaffold into the *)
(* served file by hand.                                                    *)
WrapByHand(s) ==
  \E e \in Elements, page \in Pages :
    LET at == First({i \in Candidates(lines) : lines[i].e = e})
    IN  /\ MayStart(s) /\ kind = "generated" /\ Apart(e)
        /\ lines' = Replaced(lines, at, at, WrapperLines(s, lines[at]))
        /\ Started(s, e, page, "replace", e, lines[at].t, TRUE)
        /\ UNCHANGED <<oddity, kind, buffer, manifest, edits>>

(* The agent writes the variants in one edit at the line wrap reported,    *)
(* with or without a style element; in a Svelte project it writes the      *)
(* component files.                                                        *)
Write(s) ==
  \E styled \in BOOLEAN :
    LET at == First({i \in DOMAIN lines : lines[i].k = "here" /\ lines[i].s = s})
        variant(v) == <<Line("var", None, v), El(sess[s].hit, Draft(s, v)), Line("close", None, 0)>>
        all[v \in 0..N] == IF v = 0 THEN (IF styled THEN <<Line("style", s, 0)>> ELSE <<>>)
                           ELSE all[v - 1] \o variant(v)
    IN  /\ sess[s].st = "wrapped"
        /\ IF kind = "svelte" THEN UNCHANGED lines
           ELSE lines' = Replaced(lines, at + 1, at, all[N])
        /\ sess' = [sess EXCEPT ![s].st = "written"]
        /\ UNCHANGED <<oddity, kind, buffer, manifest, edits>>

-----------------------------------------------------------------------------
(* live-accept: read the block. *)

(* The block of whichever session comes first. *)
FindMarkerBlockAny(ls, s) ==
  [start |-> First({i \in DOMAIN ls : ls[i].k = "start"}),
   end   |-> First({i \in DOMAIN ls : ls[i].k = "end"})]

FindMarkerBlock(ls, s) ==
  [start |-> First({i \in DOMAIN ls : ls[i].k = "start" /\ ls[i].s = s}),
   end   |-> First({i \in DOMAIN ls : ls[i].k = "end" /\ ls[i].s = s})]

SessionFileFound(s) == \E i \in DOMAIN lines : lines[i].k = "start" /\ lines[i].s = s

(* The range of the markers, also in JSX. *)
ExpandReplaceRangeMarkers(ls, b) == b

(* In JSX the markers are inside the wrapper: back from the start marker   *)
(* to the tag of this session, forward to the tag that closes it.          *)
ExpandReplaceRange(ls, b) ==
  LET s      == ls[b.start].s
      fence  == Final({i \in 1..(b.start - 1) : ls[i].k = "end" /\ ls[i].s = s})
      opener == Final({i \in (fence + 1)..(b.start - 1) : ls[i].k = "open" /\ ls[i].s = s})
      from   == IF opener = 0 THEN b.start ELSE opener
      to     == Closing(ls, from, Len(ls))
  IN  IF kind # "jsx" THEN b
      ELSE [start |-> from, end |-> IF to >= b.end THEN to ELSE b.end]

ExtractInnerByAttr(ls, b, k, v) ==
  LET at == First({i \in b.start..b.end : ls[i].k = k /\ ls[i].v = v})
      to == IF at = 0 THEN 0 ELSE Closing(ls, at, b.end)
  IN  IF to = 0 THEN <<>> ELSE SubSeq(ls, at + 1, to - 1)

(* The original cut one line short. *)
ExtractOriginalShort(ls, b) == Tail(ExtractInnerByAttr(ls, b, "orig", 0))

ExtractOriginal(ls, b)   == ExtractInnerByAttr(ls, b, "orig", 0)
ExtractVariant(ls, b, v) == ExtractInnerByAttr(ls, b, "var", v)
ExtractCss(ls, b, s)     == \E i \in b.start..b.end : ls[i].k = "style" /\ ls[i].s = s

(* A variant that came with a style element is stitched in with it, to be  *)
(* cleaned up by the agent.                                                *)
BuildCarbonizeReplacement(s, v, css, restored) ==
  LET body == <<Line("cstart", s, 0), Line("style", s, 0), Line("cend", s, 0), Line("var", None, v)>>
              \o restored \o <<Line("close", None, 0)>>
  IN  IF ~css THEN restored
      ELSE IF kind = "jsx" THEN <<Line("carb", s, 0)>> \o body \o <<Line("close", None, 0)>>
      ELSE body

-----------------------------------------------------------------------------
(* live-accept: write. *)

Decided(s, st, v) == sess' = [sess EXCEPT ![s].st = st, ![s].v = v]

(* Staged edits of the page whose text, old or new, stands in the original *)
(* of the accepted block are dropped from the buffer.                      *)
ScrubManualEdits(original, page) ==
  LET segments == {original[i].t : i \in {j \in DOMAIN original : original[j].k = "el"}}
  IN  buffer' = {op \in buffer : ~(op.page = page /\ {op.old, op.new} \cap segments # {})}

HandleAccept(s, v, page) ==
  LET b    == FindMarkerBlock(lines, s)
      r    == ExpandReplaceRange(lines, b)
      new  == ExtractVariant(lines, b, v)
      css  == ExtractCss(lines, b, s)
  IN  IF new = <<>>
      THEN Decided(s, "unhandled", 0) /\ UNCHANGED <<lines, buffer>>
      ELSE /\ lines' = Replaced(lines, r.start, r.end, BuildCarbonizeReplacement(s, v, css, new))
           /\ ScrubManualEdits(ExtractOriginal(lines, b), page)
           /\ Decided(s, IF css THEN "carbonize" ELSE "accepted", v)

HandleDiscard(s) ==
  LET b == FindMarkerBlock(lines, s)
      r == ExpandReplaceRange(lines, b)
  IN  /\ lines' = Replaced(lines, r.start, r.end, ExtractOriginal(lines, b))
      /\ Decided(s, "discarded", 0)
      /\ UNCHANGED buffer

RemoveSvelteComponentSession(s) == manifest' = [manifest EXCEPT ![s] = None]

(* The accepted component replaces the lines the manifest remembers, if    *)
(* the file still has that many.  The scaffold made a stub for every        *)
(* variant, so the component file is there.                                *)
InlineSvelteComponentAccept(s, v) ==
  LET m == manifest[s]
      new == <<El(sess[s].hit, Draft(s, v))>>
      inside == IF m.mode = "insert" THEN m.from <= Len(lines) + 1 ELSE m.to <= Len(lines)
  IN  IF ~inside
      THEN Decided(s, "unhandled", 0) /\ UNCHANGED <<lines, manifest>>
      ELSE /\ lines' = Replaced(lines, m.from, IF m.mode = "insert" THEN m.from - 1 ELSE m.to, new)
           /\ RemoveSvelteComponentSession(s)
           /\ Decided(s, "accepted", v)

(* The page lets the user accept once variants have arrived; in a file that *)
(* is edited in place they may have been taken out again.                  *)
AcceptCli(s) ==
  \E v \in Variants :
    /\ Open(s) /\ (kind = "svelte" => sess[s].st = "written")
    /\ IF SessionFileFound(s)
       THEN IF kind = "generated"
            THEN Decided(s, "fallback", v) /\ UNCHANGED <<lines, buffer, manifest>>
            ELSE HandleAccept(s, v, sess[s].page) /\ UNCHANGED manifest
       ELSE IF manifest[s] # None
            THEN InlineSvelteComponentAccept(s, v) /\ UNCHANGED buffer
            ELSE Decided(s, "unhandled", 0) /\ UNCHANGED <<lines, buffer, manifest>>
    /\ UNCHANGED <<oddity, kind, edits>>

DiscardCli(s) ==
  /\ Open(s)
  /\ IF SessionFileFound(s)
     THEN IF kind = "generated"
          THEN Decided(s, "fallback", 0) /\ UNCHANGED <<lines, buffer, manifest>>
          ELSE HandleDiscard(s) /\ UNCHANGED manifest
     ELSE IF manifest[s] # None
          THEN RemoveSvelteComponentSession(s) /\ Decided(s, "discarded", 0) /\ UNCHANGED <<lines, buffer>>
          ELSE Decided(s, "unhandled", 0) /\ UNCHANGED <<lines, buffer, manifest>>
  /\ UNCHANGED <<oddity, kind, edits>>

(* The agent rewrites the stitched-in block into permanent form. *)
Carbonize(s) ==
  LET at   == First({i \in DOMAIN lines : lines[i].k = "cstart" /\ lines[i].s = s})
      to   == Closing(lines, at + 3, Len(lines))
      wrap == IF kind = "jsx" THEN 1 ELSE 0
  IN  /\ sess[s].st = "carbonize"
      /\ lines' = Replaced(lines, at - wrap, to + wrap, SubSeq(lines, at + 4, to - 1))
      /\ sess' = [sess EXCEPT ![s].st = "accepted"]
      /\ UNCHANGED <<oddity, kind, buffer, manifest, edits>>

(* In a generated file it takes its own wrapper out again; the variant     *)
(* went into the true source, which is another file.                       *)
UnwrapByHand(s) ==
  LET b == FindMarkerBlock(lines, s)
  IN  /\ sess[s].st = "fallback"
      /\ lines' = Replaced(lines, b.start, b.end, ExtractOriginal(lines, b))
      /\ sess' = [sess EXCEPT ![s].st = IF sess[s].v = 0 THEN "discarded" ELSE "elsewhere"]
      /\ UNCHANGED <<oddity, kind, buffer, manifest, edits>>

(* The helper goes down: it removes every component directory. *)
Shutdown ==
  /\ \E s \in Sessions : manifest[s] # None
  /\ manifest' = [s \in Sessions |-> None]
  /\ UNCHANGED <<oddity, kind, lines, buffer, sess, edits>>

(* The user edits the text of an element on the page and leaves the edit   *)
(* staged, or discards those of the page.                                  *)
StageEdit ==
  \E e \in Elements \ Dynamic, page \in Pages :
    LET at == First({i \in Candidates(lines) : lines[i].e = e})
    IN  /\ edits < MaxEdits /\ at # 0
        /\ \A r \in Sessions : Open(r) => sess[r].hit # e
        /\ \A op \in buffer : op.e # e
        /\ buffer' = buffer \cup {[e |-> e, page |-> page, old |-> lines[at].t, new |-> <<Word[e], Edited>>]}
        /\ edits' = edits + 1
        /\ UNCHANGED <<oddity, kind, lines, manifest, sess>>

DropEdit ==
  /\ \E op \in buffer : buffer' = {kept \in buffer : kept.page # op.page}
  /\ UNCHANGED <<oddity, kind, lines, manifest, sess, edits>>

-----------------------------------------------------------------------------
Fresh == [st |-> "free", e |-> None, page |-> None, mode |-> "none",
          hit |-> None, was |-> <<None, 0>>, sure |-> FALSE, v |-> 0]

Init ==
  /\ kind \in Kinds /\ oddity \in {"dynamic", "scattered"}
  /\ LET body == SetToSeq(Elements)
     IN  lines = <<Line("div", None, 0)>> \o [i \in DOMAIN body |-> El(body[i], Written(body[i]))]
                 \o <<Line("close", None, 0)>>
  /\ buffer = {} /\ edits = 0
  /\ manifest = [s \in Sessions |-> None]
  /\ sess = [s \in Sessions |-> Fresh]

Step(s) == Wrap(s) \/ Insert(s) \/ WrapByHand(s) \/ Write(s) \/ AcceptCli(s) \/ DiscardCli(s)
           \/ Carbonize(s) \/ UnwrapByHand(s)

Next == (\E s \in Sessions : Step(s)) \/ Shutdown \/ StageEdit \/ DropEdit

Spec == Init /\ [][Next]_vars

-----------------------------------------------------------------------------
(* Properties. *)

(* What a reader of the finished file would see: the content with every    *)
(* open block resolved to its original.                                    *)
Page(ls) ==
  LET previews == {j \in DOMAIN ls : ls[j].k = "var" /\ ls[j - 1].k # "cend"}
      hidden == UNION {j..Closing(ls, j, Len(ls)) : j \in previews}
      seen == [i \in DOMAIN ls |-> IF ls[i].k = "el" /\ i \notin hidden THEN <<ls[i].e, ls[i].t>> ELSE <<>>]
  IN  SelectSeq(seen, LAMBDA x : x # <<>>)

(* The file is balanced: its tags close, and every session that is open in *)
(* it has one pair of markers in order.                                    *)
TypeOK ==
  /\ kind \in Kinds /\ oddity \in {"dynamic", "scattered"} /\ edits \in 0..MaxEdits
  /\ Closing(lines, 1, Len(lines)) = Len(lines)
  /\ \A s \in Sessions :
       LET b == FindMarkerBlock(lines, s)
       IN  /\ sess[s].st \in {"free", "wrapped", "written", "carbonize", "accepted", "discarded",
                              "fallback", "elsewhere", "unhandled"}
           /\ b.start <= b.end /\ (b.start = 0 <=> b.end = 0)

(* Wrapping, previewing, accepting and discarding never lose or double an  *)
(* element: each stands in the file once.                                  *)
EachElementOnce ==
  LET seen == Page(lines)
  IN  \A e \in Elements : Cardinality({i \in DOMAIN seen : seen[i][1] = e}) = 1

(* Once a session is over and cleaned up, nothing of it is left in the     *)
(* file: no marker, no wrapper, no style element.                          *)
NothingLeftBehind ==
  \A s \in Sessions : sess[s].st \in {"free", "accepted", "discarded", "elsewhere"}
    => \A i \in DOMAIN lines : lines[i].s # s

(* An accept changes the page in one place: where the element stood stands *)
(* the chosen variant of that session.  Staged edits of other elements and *)
(* the blocks of other sessions stay as they were.                         *)
PutsTheVariant ==
  \A s \in Sessions :
    (Open(s) /\ sess'[s].st \in {"accepted", "carbonize"}) =>
      LET before == Page(lines)
          after  == Page(lines')
          same(i) == IF sess[s].mode = "replace" /\ before[i][1] = sess[s].hit
                     THEN after[i] = <<sess[s].hit, Draft(s, sess'[s].v)>>
                     ELSE after[i] = before[i]
          new == <<s, Draft(s, sess'[s].v)>>
      IN  IF sess[s].mode = "replace"
          THEN Len(after) = Len(before) /\ \A i \in DOMAIN before : same(i)
          ELSE SelectSeq(after, LAMBDA x : x # new) = before /\ Len(after) = Len(before) + 1

AcceptPutsTheVariant == [][PutsTheVariant]_vars

(* Given the text of the picked element, wrap takes that element and no    *)
(* other, as long as the source says what the page shows.                  *)
WrapTakesThePicked == \A s \in Sessions : sess[s].sure => sess[s].hit = sess[s].e

(* The rewriting of the source is sound: every element stands once, the    *)
(* picked one is the one wrapped, and a session that is over left nothing. *)
SourceSound == TypeOK /\ EachElementOnce /\ NothingLeftBehind /\ WrapTakesThePicked
=============================================================================
