----------------------------- MODULE StyleCascade -----------------------------
(***************************************************************************)
(* The computed styles of the static HTML engine (css-cascade.mjs): it has *)
(* no browser, so it collects the rules of a page, orders the declarations *)
(* of every element and computes inherited, variable and relative values   *)
(* itself.  A page grows here by one declaration at a time; Computed is    *)
(* what the engine makes of it, Browser what CSS says.                     *)
(*                                                                         *)
(* Only the ancestors of an element matter to its style: the elements are  *)
(* a path 1..Depth from the root.  A selector is its simple parts and the  *)
(* elements it matches; a value is a sequence of tokens, and valid CSS.    *)
(***************************************************************************)
EXTENDS Integers, Sequences, FiniteSets, SequencesExt, TLC

CONSTANTS
  Depth,       \* the elements of a path, the root first
  Selectors,   \* [parts: Seq of [k: id | class | type, inside: "" | where | not], hits: SUBSET 1..Depth]
  Pages,       \* sets of declarations [prop, value, important] that a page draws on
  MaxDecls,    \* bound: declarations of a page
  Blank

VARIABLES
  sheet,    \* the rules in source order: [sel, decls]
  attr,     \* the style attribute of each element: a sequence of declarations
  drawn     \* what this page draws on

cascadeVars == <<sheet, attr, drawn>>
----------------------------------------------------------------------------
(* Values *)
Len_(u, n) == [k |-> "len", u |-> u, n |-> n]     \* n tenths of the unit u
Color(c) == [k |-> "color", c |-> c]
Var(name, fallback) == [k |-> "var", name |-> name, fb |-> fallback]
Word(x) == [k |-> "word", w |-> x]
Image == [k |-> "image"]
Inherit == [k |-> "inherit"]

EdgeSides == <<"top", "right", "bottom", "left">>
Inherited == {"color", "font-family", "font-size", "font-style", "font-weight", "line-height", "letter-spacing"}
Side(box, side, what) == box \o "-" \o side \o what
Boxed(box, what) == {Side(box, EdgeSides[i], what) : i \in 1..4}
Widths == Boxed("border", "-width")
BorderColors == Boxed("border", "-color")
Paddings == Boxed("padding", "")
Longhand == Inherited \cup Widths \cup BorderColors \cup Paddings
              \cup {"background-color", "background-image", "transition-property", "transition-timing-function",
                     "animation-name", "animation-timing-function"}
ZeroLength == Len_("px", 0)

\* STATIC_DEFAULT_STYLE; "none" is what the engine has for an initial value of its own: '', normal, 400.
Default(p) ==
  CASE p \in Widths \cup Paddings -> ZeroLength
    [] p = "font-size" -> Len_("px", 160)
    [] p = "background-color" -> Color("clear")
    [] p = "color" \/ p \in BorderColors -> Color("black")
    [] OTHER -> Word("none")
----------------------------------------------------------------------------
(* Shorthands *)
IsLength(t) == t.k = "len" /\ t.u # "none"
IsColor(t) == t.k \in {"color", "var"}
First(v, Is(_)) == LET at == {i \in DOMAIN v : Is(v[i])}
                   IN  IF at = {} THEN <<>> ELSE <<v[CHOOSE i \in at : \A j \in at : i <= j]>>
Each(ps, v) == [i \in DOMAIN ps |-> <<ps[i], v>>]
AllFour(ps, v) == IF v = <<>> THEN <<>> ELSE Each(ps, v[1])

ParseBorder(v) == [width |-> First(v, IsLength), color |-> First(v, IsColor)]

BoxValues(v) ==
  LET n == Len(v)
  IN  <<v[1], v[IF n > 1 THEN 2 ELSE 1], v[IF n > 2 THEN 3 ELSE 1], v[IF n > 3 THEN 4 ELSE IF n > 1 THEN 2 ELSE 1]>>
FourSides(box, what, v) == [i \in 1..4 |-> <<Side(box, EdgeSides[i], what), BoxValues(v)[i]>>]
OnSides(box, what, sides) == [i \in DOMAIN sides |-> Side(box, sides[i], what)]

BorderSides(v, sides) ==
  AllFour(OnSides("border", "-width", sides), ParseBorder(v).width)
    \o AllFour(OnSides("border", "-color", sides), ParseBorder(v).color)

\* The color of a background is looked for in front of its image.
BackgroundParts(v) ==
  LET images == {i \in DOMAIN v : v[i].k = "image"}
      front == IF images = {} THEN v ELSE SubSeq(v, 1, (CHOOSE i \in images : \A j \in images : i <= j) - 1)
  IN  (IF images = {} THEN <<>> ELSE <<<<"background-image", Image>>>>)
        \o AllFour(<<"background-color">>, First(front, IsColor))

\* font: italic, weight, size, line height and family; without a size only the first two.
Weights == {Word("bold"), Word("normal"), Word("700")}
Font(v) ==
  LET size == First(v, IsLength)
      rest == IF size = <<>> THEN <<>>
              ELSE SubSeq(v, 1 + CHOOSE i \in DOMAIN v : v[i] = size[1] /\ \A j \in 1..(i - 1) : ~IsLength(v[j]), Len(v))
  IN  AllFour(<<"font-style">>, First(v, LAMBDA t : t = Word("italic")))
        \o AllFour(<<"font-weight">>, First(v, LAMBDA t : t \in Weights))
        \o AllFour(<<"font-size">>, size)
        \o AllFour(<<"line-height">>, First(rest, LAMBDA t : t.k = "len"))
        \o AllFour(<<"font-family">>, First(rest, LAMBDA t : t.k = "word"))

\* transition and animation: the name is the first token that looks like one,
\* which a timing such as ease-in-out does and a property in "s" does not.
Timings == {"ease", "linear", "ease-in-out", "step-start"}
PluralNames == {"border-radius"}
NotAName(p) == {"ease", "linear"} \cup (IF p = "transition" THEN PluralNames ELSE {})
Named(p, name, v) ==
  AllFour(<<name>>, First(v, LAMBDA t : t.k = "word" /\ t.w \notin NotAName(p)))
    \o AllFour(<<p \o "-timing-function">>, First(v, LAMBDA t : t.k = "word" /\ t.w \in Timings))

Custom == {"--a", "--b"}
SideOf(p) == {i \in 1..4 : p = "border-" \o EdgeSides[i]}

Expand(p, v) ==
  CASE p \in Custom \/ p \in Longhand -> <<<<p, v[1]>>>>
    [] p = "background" -> BackgroundParts(v)
    [] p = "border" -> BorderSides(v, EdgeSides)
    [] SideOf(p) # {} -> BorderSides(v, <<EdgeSides[CHOOSE i \in SideOf(p) : TRUE]>>)
    [] p = "border-width" -> FourSides("border", "-width", v)
    [] p = "border-color" -> FourSides("border", "-color", v)
    [] p = "padding" -> FourSides("padding", "", v)
    [] p = "font" -> Font(v)
    [] p = "transition" -> Named(p, "transition-property", v)
    [] p = "animation" -> Named(p, "animation-name", v)
    [] OTHER -> <<>>
----------------------------------------------------------------------------
(* The order of declarations *)
\* staticSpecificity: parts inside :where() are stripped, a :not() counts as a
\* class, and an id in it once more as an id.
Parts(sel, Is(_)) == Cardinality({i \in DOMAIN sel.parts : Is(sel.parts[i])})
Specificity(sel) ==
  <<Parts(sel, LAMBDA x : x.k = "id" /\ x.inside # "where"),
    Parts(sel, LAMBDA x : x.inside = "not" \/ (x.k = "class" /\ x.inside = "")),
    Parts(sel, LAMBDA x : x.k = "type" /\ x.inside = "")>>

(* Mutant: an equal declaration further down does not replace. *)
ReplacesStrictly(a, b) ==
  IF a.important # b.important THEN b.important
  ELSE IF a.inline # b.inline THEN b.inline
  ELSE IF \E i \in 1..3 : a.spec[i] # b.spec[i]
       THEN \E i \in 1..3 : b.spec[i] > a.spec[i] /\ \A j \in 1..(i - 1) : a.spec[j] = b.spec[j]
  ELSE b.order > a.order

\* compareStaticPriority(a, b): does b replace a?
Replaces(a, b) ==
  IF a.important # b.important THEN b.important
  ELSE IF a.inline # b.inline THEN b.inline
  ELSE IF \E i \in 1..3 : a.spec[i] # b.spec[i]
       THEN \E i \in 1..3 : b.spec[i] > a.spec[i] /\ \A j \in 1..(i - 1) : a.spec[j] = b.spec[j]
  ELSE b.order >= a.order

\* What an element is given, in the order the engine meets it: its rules, then its attribute.
Meta(d, spec, inline, order) ==
  [prop |-> d.prop, value |-> d.value, important |-> d.important, spec |-> spec, inline |-> inline, order |-> order]
Occurrences(n) ==
  LET ruled(i) == IF n \in sheet[i].sel.hits
                  THEN [j \in DOMAIN sheet[i].decls |->
                          Meta(sheet[i].decls[j], Specificity(sheet[i].sel), FALSE, i - 1)]
                  ELSE <<>>
  IN  FlattenSeq([i \in DOMAIN sheet |-> ruled(i)])
        \o [j \in DOMAIN attr[n] |-> Meta(attr[n][j], <<1, 0, 0>>, TRUE, Len(sheet) + j)]

\* The longhands of it, each with where it came from.
Longhands(n) ==
  LET os == Occurrences(n)
      parts(i) == LET es == Expand(os[i].prop, os[i].value)
                  IN  [k \in DOMAIN es |-> [at |-> i, p |-> es[k][1], t |-> es[k][2], by |-> os[i]]]
  IN  FlattenSeq([i \in DOMAIN os |-> parts(i)])

\* applyStaticDeclaration: a map in order of first insertion.
NoneSpecified == [keys |-> <<>>, of |-> <<>>]
Put(m, x) ==
  IF x.p \in DOMAIN m.of THEN [m EXCEPT !.of[x.p] = x]
  ELSE [keys |-> Append(m.keys, x.p), of |-> (x.p :> x) @@ m.of]
Apply(m, x) ==
  IF x.p \notin DOMAIN m.of \/ Replaces(m.of[x.p].by, x.by) THEN Put(m, x) ELSE m
Specified(n) == FoldLeft(Apply, NoneSpecified, Longhands(n))
----------------------------------------------------------------------------
(* Computed values *)
RECURSIVE ResolveVarRefs(_, _, _)
ResolveVarRefs(t, customs, depth) ==
  IF t.k # "var" \/ depth > 8 THEN t
  ELSE IF t.name \in DOMAIN customs THEN ResolveVarRefs(customs[t.name], customs, depth + 1)
  ELSE IF t.fb # Blank THEN ResolveVarRefs(t.fb, customs, depth + 1)
  ELSE t

\* resolveLengthPx; a number without a unit counts as a multiple of the base.
ResolveLength(t, base) ==
  IF t.k # "len" THEN t
  ELSE CASE t.u = "px" -> t
         [] t.u = "rem" -> Len_("px", t.n * 16)
         [] t.u \in {"em", "none"} -> Len_("px", (t.n * base.n) \div 10)
         [] t.u = "%" -> Len_("px", (t.n * base.n) \div 1000)

Normalize(p, t, customs, parent, current) ==
  LET r == ResolveVarRefs(t, customs, 0)
  IN  CASE r = Inherit -> parent[p]
        [] r # Inherit /\ p = "font-size" -> ResolveLength(r, parent[p])
        [] r # Inherit /\ p \in {"line-height", "letter-spacing"} -> ResolveLength(r, current["font-size"])
        [] OTHER -> r

\* Custom properties are resolved in the order of the map, each with those before it.
CustomsOf(m, outer) ==
  FoldLeft(LAMBDA c, p : IF p \notin Custom THEN c
                         ELSE [q \in DOMAIN c \cup {p} |->
                                 IF q = p THEN ResolveVarRefs(m.of[p].t, c, 0) ELSE c[q]],
           outer, m.keys)

(* Mutant: whatever the element does not say is taken from its parent. *)
GivenAll(parent) == parent

Given(parent) == [p \in Longhand |-> IF p \in Inherited THEN parent[p] ELSE Default(p)]

\* computeNode, down the path: the values and custom properties of element n.
Root == [style |-> [p \in Longhand |-> Default(p)], customs |-> <<>>]
ComputeNode(outer, n) ==
  LET m == Specified(n)
      customs == CustomsOf(m, outer.customs)
      set(s, p) == IF p \in Custom THEN s
                   ELSE [s EXCEPT ![p] = Normalize(p, m.of[p].t, customs, outer.style, s)]
  IN  [style |-> FoldLeft(set, Given(outer.style), m.keys), customs |-> customs]
Computed(n) == FoldLeft(ComputeNode, Root, [i \in 1..n |-> i]).style
----------------------------------------------------------------------------
(* What CSS says: of the above only the tokens and the length of a token are used *)
Current == [k |-> "current"]
Initial(p) == CASE p \in BorderColors -> Current
                [] p = "color" -> Color("black")
                [] p = "background-color" -> Color("clear")
                [] p = "font-size" -> Len_("px", 160)
                [] p \in Widths \cup Paddings -> ZeroLength
                [] OTHER -> Word("none")

\* The longhands of a property; a shorthand sets those it omits to their initial values.
Covers(p) ==
  CASE p = "background" -> {"background-color", "background-image"}
    [] p = "border" -> Widths \cup BorderColors
    [] SideOf(p) # {} -> {p \o "-width", p \o "-color"}
    [] p = "border-width" -> Widths
    [] p = "border-color" -> BorderColors
    [] p = "padding" -> Paddings
    [] p = "font" -> {"font-style", "font-weight", "font-size", "line-height", "font-family"}
    [] p = "transition" -> {"transition-property", "transition-timing-function"}
    [] p = "animation" -> {"animation-name", "animation-timing-function"}
    [] p \in Longhand \cup Custom -> {p}
    [] OTHER -> {}

\* Which tokens of a shorthand are of a kind with q.  A border that is given a
\* width is taken to be drawn, a variable to be a color.
Fits(q, t) ==
  CASE q \in Widths -> t.k = "len"
    [] q \in BorderColors \cup {"background-color"} -> t.k \in {"color", "var"}
    [] q = "background-image" -> t.k = "image"
    [] q = "font-style" -> t = Word("italic")
    [] q = "font-weight" -> t \in Weights
    [] q \in {"transition-timing-function", "animation-timing-function"} -> t.k = "word" /\ t.w \in Timings
    [] OTHER -> t.k = "word" /\ t.w \notin Timings
OfSide(v, i) == IF i \in DOMAIN v THEN v[i] ELSE IF i - 2 \in DOMAIN v THEN v[i - 2] ELSE v[1]
SideIn(q) == CHOOSE i \in 1..4 : q \in {Side("border", EdgeSides[i], "-width"), Side("border", EdgeSides[i], "-color"),
                                          Side("padding", EdgeSides[i], "")}
Nth(s, i) == IF i \in DOMAIN s THEN s[i] ELSE Blank
Says(p, v, q) ==
  CASE p = q -> v[1]
    [] p \in {"border-width", "border-color", "padding"} -> OfSide(v, SideIn(q))
    [] p = "font" /\ q = "font-family" -> Last(v)
    [] p = "font" /\ q \in {"font-size", "line-height"} ->
         Nth(SelectSeq(v, LAMBDA t : t.k = "len"), IF q = "font-size" THEN 1 ELSE 2)
    [] OTHER -> Nth(SelectSeq(v, LAMBDA t : Fits(q, t)), 1)

\* The declarations of element n with their weights: importance, attribute, selector, place.
Weight(sel) == [i \in 1..3 |-> Parts(sel, LAMBDA x : x.k = <<"id", "class", "type">>[i] /\ x.inside # "where")]
Said(n) ==
  UNION {{[of |-> sheet[i].decls[j], rank |-> <<0>> \o Weight(sheet[i].sel) \o <<i, j>>] : j \in DOMAIN sheet[i].decls} :
           i \in {i \in DOMAIN sheet : n \in sheet[i].sel.hits}}
    \cup {[of |-> attr[n][j], rank |-> <<1, 0, 0, 0, 0, j>>] : j \in DOMAIN attr[n]}
Above(x, y) ==
  \/ x.of.important /\ ~y.of.important
  \/ x.of.important = y.of.important
     /\ \E i \in 1..6 : x.rank[i] > y.rank[i] /\ \A j \in 1..(i - 1) : x.rank[j] = y.rank[j]
Winner(ds, q) ==
  LET d == (CHOOSE x \in ds : \A y \in ds \ {x} : Above(x, y)).of
      term == Says(d.prop, d.value, q)
  IN  IF ds = {} THEN Blank ELSE IF term = Blank THEN Initial(q) ELSE term
WinnersOf(ds) == [q \in Longhand \cup Custom |-> Winner({d \in ds : q \in Covers(d.of.prop)}, q)]
\* won[n][p] is the term that wins p on element n.
Winners == [n \in 1..Depth |-> WinnersOf(Said(n))]

\* A variable stands for the value it has on the nearest element that declares it.
RECURSIVE Substitute(_, _, _, _)
Substitute(won, t, n, depth) ==
  IF t.k # "var" THEN t
  ELSE LET homes == {m \in 1..n : won[m][t.name] # Blank}
           home == CHOOSE m \in homes : \A k \in homes : k <= m
           r == IF homes = {} \/ depth > Cardinality(Custom) * Depth THEN Blank
                ELSE Substitute(won, won[home][t.name], home, depth + 1)
       IN  IF r # Blank THEN r ELSE IF t.fb # Blank THEN Substitute(won, t.fb, n, depth) ELSE Blank

\* A line height without a unit is inherited as it is, a ratio.
Ratio(p, t) == p = "line-height" /\ t.k = "len" /\ t.u = "none"
Styled(won, outer, n) ==
  LET say == [p \in Longhand |-> IF won[n][p] = Blank THEN Blank ELSE Substitute(won, won[n][p], n, 0)]
      unset(p) == IF p \in Inherited THEN outer[p] ELSE Initial(p)
      value(p, base) == CASE say[p] = Blank -> unset(p)
                          [] say[p] = Inherit -> outer[p]
                          [] OTHER -> IF p \in {"font-size", "line-height", "letter-spacing"} /\ ~Ratio(p, say[p])
                                      THEN ResolveLength(say[p], base) ELSE say[p]
      size == value("font-size", outer["font-size"])
  IN  [p \in Longhand |-> IF p = "font-size" THEN size ELSE value(p, size)]
Browser(won, n) ==
  LET s == FoldLeft(LAMBDA outer, m : Styled(won, outer, m), [p \in Longhand |-> Initial(p)], [i \in 1..n |-> i])
  IN  [s EXCEPT !["line-height"] = ResolveLength(@, s["font-size"])]
----------------------------------------------------------------------------
(* Where the engine is known to differ *)
StandsBefore(n, p, q) ==
  LET ks == SelectSeq(Specified(n).keys, LAMBDA k : k \in {p, q}) IN \E i, j \in DOMAIN ks : i < j /\ ks[i] = p /\ ks[j] = q
\* A custom property declared before one it refers to, or by itself.
LateVariable(won, n) ==
  \E p, q \in Custom :
    won[n][p] # Blank /\ won[n][p].k = "var" /\ won[n][p].name = q /\ (p = q \/ StandsBefore(n, p, q))
DanglingVariable(won, n) ==
  \E p \in Longhand \cup Custom : won[n][p] # Blank /\ Substitute(won, won[n][p], n, 0) = Blank
\* A relative line height or spacing declared before the font size it is relative to.
LateFontSize(n) == \E p \in {"line-height", "letter-spacing"} : StandsBefore(n, p, "font-size")
\* A ratio is inherited as pixels.
InheritedRatio(won, n) ==
  \E m \in 1..(n - 1) : \E x \in {won[m]["line-height"]} :
    x # Blank /\ Ratio("line-height", x) /\ \E k \in (m + 1)..n : won[k]["font-size"] # Blank
\* A shorthand that omits what another declaration, or the parent, sets.
Gives(d, q) == q \in Covers(d.of.prop) /\ Says(d.of.prop, d.of.value, q) # Blank
PartialShorthand(n) ==
  \E d \in Said(n) : \E q \in Covers(d.of.prop) :
    ~Gives(d, q) /\ (q \in Inherited \/ \E e \in Said(n) : Gives(e, q))
\* A color of a background behind its image.
ColorBehindImage(n) ==
  \E d \in Said(n) : d.of.prop = "background" /\ \E i, j \in DOMAIN d.of.value : i < j /\ d.of.value[i] = Image /\ IsColor(d.of.value[j])
\* A name behind a timing with a hyphen, or a transition of a property in "s".
OddName(n) ==
  \E d \in Said(n) : d.of.prop \in {"transition", "animation"} /\ \E i \in DOMAIN d.of.value :
    \/ d.of.value[i].w \in PluralNames
    \/ d.of.value[i].w \in {"ease-in-out", "step-start"} /\ \A j \in 1..(i - 1) : d.of.value[j].w \in Timings
\* A :not() of something other than a class.
OddNot(n) == \E i \in DOMAIN sheet : n \in sheet[i].sel.hits /\ \E x \in ToSet(sheet[i].sel.parts) : x.inside = "not" /\ x.k # "class"
PlainElement(won, n) ==
  \A m \in 1..n : ~(LateVariable(won, m) \/ DanglingVariable(won, m) \/ LateFontSize(m) \/ InheritedRatio(won, m)
                    \/ PartialShorthand(m) \/ ColorBehindImage(m) \/ OddName(m) \/ OddNot(m))
\* A border color nobody gives is the color of the text; the engine makes it black.
BlackBorder(engine, browser) == browser = Current /\ engine = Color("black")
----------------------------------------------------------------------------
CascadeInit == sheet = <<>> /\ attr = [n \in 1..Depth |-> <<>>] /\ drawn \in Pages

Count == FoldLeft(LAMBDA c, r : c + Len(r.decls), 0, sheet) + FoldLeft(LAMBDA c, n : c + Len(attr[n]), 0, [n \in 1..Depth |-> n])

AddRule(sel, d) == sheet' = Append(sheet, [sel |-> sel, decls |-> <<d>>]) /\ UNCHANGED <<attr, drawn>>
Declare(d) ==
  /\ sheet # <<>>
  /\ sheet' = [sheet EXCEPT ![Len(sheet)].decls = Append(@, d)]
  /\ UNCHANGED <<attr, drawn>>
Style(n, d) == attr' = [attr EXCEPT ![n] = Append(@, d)] /\ UNCHANGED <<sheet, drawn>>

CascadeNext == Count < MaxDecls /\ \E d \in drawn :
  \/ \E sel \in Selectors : AddRule(sel, d)
  \/ Declare(d)
  \/ \E n \in 1..Depth : Style(n, d)

CascadeSpec == CascadeInit /\ [][CascadeNext]_cascadeVars
----------------------------------------------------------------------------
(* Properties *)
TypeOK ==
  /\ drawn \in Pages /\ Count <= MaxDecls
  /\ \A i \in DOMAIN sheet : sheet[i].sel \in Selectors /\ sheet[i].decls # <<>> /\ ToSet(sheet[i].decls) \subseteq drawn
  /\ DOMAIN attr = 1..Depth /\ \A n \in 1..Depth : ToSet(attr[n]) \subseteq drawn

\* Outside the differences named above the engine gives every element of a page
\* the style a browser gives it, whatever the order, weight, shorthand and
\* inheritance of its declarations.
ComputedAsInBrowser ==
  \A won \in {Winners}, n \in 1..Depth : PlainElement(won, n) =>
    \A code \in {Computed(n)}, browser \in {Browser(won, n)} : \A p \in Longhand :
      code[p] = browser[p] \/ BlackBorder(code[p], browser[p])
=============================================================================
