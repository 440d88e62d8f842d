---------------------------- MODULE DetectorRules ----------------------------
(***************************************************************************)
(* The element and page rules of the design detector (detector/rules/      *)
(* checks.mjs) under its two engines: "static" reads computed styles from  *)
(* the cascade of StyleCascade and knows no layout; "browser" runs in the  *)
(* page and knows it.  Each rule has a core the engines share and an       *)
(* adapter in each of them, so the adapters can drift apart.               *)
(*                                                                         *)
(* A page grows in document order, an element at a time.  Colours are      *)
(* records of what the rules ask of them: luminance and alpha in percent,  *)
(* the spread of the channels, the hue.  Lengths are pixels, letter        *)
(* spacing hundredths of a pixel, text is its length.                      *)
(***************************************************************************)
EXTENDS Integers, Sequences, FiniteSets, SequencesExt, FiniteSetsExt

CONSTANTS None,
          Families,    \* [elements, upto]: a page takes its elements from one
          View         \* the viewport: [w, h]

VARIABLES page, family
vars == <<page, family>>

Sides == {"top", "right", "bottom", "left"}
Engines == {"static", "browser"}
White == [lum |-> 100, chroma |-> 0, hue |-> 0, a |-> 100, cream |-> FALSE]
Clear == [White EXCEPT !.a = 0]
Zero == [s \in Sides |-> 0]

\* An element with the defaults of the cascade.
Plain == [tag |-> "div", up |-> 0, own |-> 0, emoji |-> FALSE, caps |-> FALSE,
          color |-> [White EXCEPT !.lum = 0], bg |-> Clear, image |-> "none", stops |-> <<>>, clip |-> FALSE,
          size |-> 16, bold |-> FALSE, italic |-> FALSE, serif |-> FALSE, upper |-> FALSE, justify |-> FALSE,
          line |-> None, track |-> 0,
          border |-> Zero, edge |-> White, radius |-> 0, outline |-> FALSE, shadow |-> <<>>,
          pad |-> Zero, margin |-> Zero, w |-> 0, h |-> 0,
          pos |-> "static", over |-> "visible", escapes |-> FALSE, decor |-> FALSE, src |-> "none",
          props |-> {}, bounce |-> FALSE, class |-> {},
          box |-> [left |-> 0, top |-> 0, right |-> 0, bottom |-> 0], spill |-> 0]

SafeTags == {"blockquote", "nav", "a", "pre", "code", "span", "td", "li", "label", "button", "html", "body", "img", "svg"}
BorderSafeTags == SafeTags \ {"label"}
Headings == {"h1", "h2", "h3"}
Level(n) == CASE n.tag = "h1" -> 1 [] n.tag = "h2" -> 2 [] n.tag = "h3" -> 3
-----------------------------------------------------------------------------
(* The tree.  Elements are numbered in document order; 1 is <html>.        *)

Path(pg, i) == LET up[j \in 0..Len(pg)] == IF j = 0 THEN <<>> ELSE <<j>> \o up[pg[j].up] IN up[i]
Within(pg, i) == {j \in DOMAIN pg : \E k \in DOMAIN Path(pg, j) : Path(pg, j)[k] = i}
Kids(pg, i) == {j \in DOMAIN pg : pg[j].up = i}
\* previousElementSibling, 0 when there is none.
Before(pg, i) == Max({j \in 1..(i - 1) : pg[j].up = pg[i].up} \cup {0})
TextLen(pg, i) == FoldSet(LAMBDA j, sum : sum + pg[j].own, 0, Within(pg, i))
\* closest(): the nearest of an element and its ancestors with a property.
Nearest(pg, i, P(_)) == LET f == SelectSeq(Path(pg, i), P) IN IF f = <<>> THEN 0 ELSE f[1]
Inside(pg, i, tags) == Nearest(pg, i, LAMBDA j : pg[j].tag \in tags) # 0
Width(n) == n.box.right - n.box.left
Height(n) == n.box.bottom - n.box.top
-----------------------------------------------------------------------------
(* Colours.                                                                *)

HasChroma(c, t) == c.chroma >= t
Purple(c) == c.hue \in 260..310
Cyan(c) == c.hue \in 160..200
\* contrastRatio < 3.0 or 4.5; text alpha is not composited.
TooFaint(t, b, large) ==
  LET hi == Max({t.lum, b.lum}) + 5
      lo == Min({t.lum, b.lum}) + 5
  IN IF large THEN hi < 3 * lo ELSE 2 * hi < 9 * lo
Large(n) == n.size >= 24 \/ (n.size >= 19 /\ n.bold)

\* What ends the walk of resolveBackground: a colour solid enough for the
\* engine.  Decorative layers over a colour are ignored.
Solid(e, n) == n.bg.a > 10 /\ (e = "browser" \/ n.bg.a >= 50)

\* resolveBackground: the colour behind an element, None behind a gradient.
Background(e, pg, i) ==
  LET k == Nearest(pg, i, LAMBDA j : Solid(e, pg[j]) \/ pg[j].image # "none")
  IN IF k = 0 THEN White
     ELSE IF Solid(e, pg[k]) THEN pg[k].bg
     ELSE IF pg[k].tag \in {"body", "html"} THEN White ELSE None

\* resolveGradientStops: the nearest gradient with stops.
Stops(pg, i) ==
  LET k == Nearest(pg, i, LAMBDA j : pg[j].image = "gradient" /\ pg[j].stops # <<>>)
  IN IF k = 0 THEN <<>> ELSE pg[k].stops

GroundsOfFirstStop(e, pg, i) ==
  LET b == Background(e, pg, i)
  IN IF b # None THEN {b} ELSE IF Stops(pg, i) = <<>> THEN {} ELSE {Stops(pg, i)[1]}
\* The colours text is measured against.
Grounds(e, pg, i) ==
  LET b == Background(e, pg, i) IN IF b # None THEN {b} ELSE Range(Stops(pg, i))

\* The browser's guess of how dark a gradient behind a glow is: the average.
Average(cs) ==
  LET sum(f(_)) == FoldSeq(LAMBDA c, s : s + f(c), 0, cs)
  IN [White EXCEPT !.lum = sum(LAMBDA c : c.lum) \div Len(cs), !.chroma = 0]
Surround(e, pg, i) ==
  LET from == IF pg[i].up = 0 THEN i ELSE pg[i].up
      b == Background(e, pg, from)
      s == Stops(pg, pg[i].up)
  IN IF b # None \/ e = "static" \/ s = <<>> THEN b ELSE Average(s)
-----------------------------------------------------------------------------
(* Element rules.  An operator holds when its engine reports the finding.  *)

StandsOutAmongEquals(n, s) ==
  /\ n.border[s] >= 2 /\ n.edge.chroma >= 30
  /\ \E t \in Sides \ {s} : n.border[t] <= 1 \/ n.border[s] >= n.border[t] * 2
\* checkBorders: one side, thick and tinted, that stands out from the rest.
StandsOut(n, s) ==
  /\ n.border[s] >= 2 /\ n.edge.chroma >= 30
  /\ \/ \A t \in Sides \ {s} : n.border[t] <= 1
     \/ \A t \in Sides \ {s} : n.border[s] >= n.border[t] * 2
Tabs(e, n) ==
  IF n.tag \in BorderSafeTags \/ (e = "browser" /\ (Width(n) < 20 \/ Height(n) < 20)) THEN {}
  ELSE {s \in Sides : StandsOut(n, s) /\ (n.radius > 0 \/ (s \in {"left", "right"} /\ n.border[s] >= 3))}
SideTab(e, pg, i) == Tabs(e, pg[i]) \cap {"left", "right"} # {}
AccentOnRounded(e, pg, i) == Tabs(e, pg[i]) \cap {"top", "bottom"} # {}

\* checkColors: links and inline tags are skipped, unless they are buttons
\* with a surface of their own.
Judged(n) ==
  n.tag \in SafeTags => n.tag \in {"a", "button"} /\ n.own > 0 /\ n.bg.a > 50
Painted(e, n) == Judged(n) /\ (e = "browser" => Width(n) >= 10 /\ Height(n) >= 10)
Reads(e, n) == Painted(e, n) /\ n.own > 0 /\ ~n.emoji

GrayOnColor(e, pg, i) ==
  LET n == pg[i]  g == Grounds(e, pg, i)
  IN \/ /\ Reads(e, n) /\ g # {}
        /\ ~HasChroma(n.color, 20) /\ n.color.lum > 5 /\ n.color.lum < 85
        /\ \A b \in g : HasChroma(b, 40)
     \/ Painted(e, n) /\ {"text-gray", "bg-red"} \subseteq n.class
LowContrast(e, pg, i) ==
  LET n == pg[i]
  IN /\ Reads(e, n)
     /\ \E b \in Grounds(e, pg, i) : TooFaint(n.color, b, Large(n))
     /\ ~(e = "static" /\ Background(e, pg, i) = None /\ n.color.a < 100)
GradientText(e, pg, i) == Painted(e, pg[i]) /\ pg[i].clip /\ pg[i].image = "gradient"

\* ai-color-palette: purple headings in both engines, gradients and neon text
\* in the browser's checkElementAIPaletteDOM only.
PurpleHeading(e, n) ==
  /\ Reads(e, n) /\ HasChroma(n.color, 50) /\ Purple(n.color) /\ (n.tag \in Headings \/ n.size >= 20)
NeonText(pg, i) ==
  LET n == pg[i]
      b == IF n.up = 0 THEN None ELSE Surround("browser", pg, i)
  IN /\ HasChroma(n.color, 80) /\ (Purple(n.color) \/ Cyan(n.color))
     /\ b # None /\ b.lum < 10
PaletteGradient(n) ==
  n.image = "gradient" /\ \E k \in DOMAIN n.stops :
    HasChroma(n.stops[k], 50) /\ (Purple(n.stops[k]) \/ Cyan(n.stops[k]))
AIPalette(e, pg, i) ==
  \/ PurpleHeading(e, pg[i])
  \/ e = "browser" /\ (PaletteGradient(pg[i]) \/ NeonText(pg, i))

\* checkGlow: a tinted, blurred shadow on a dark surround.
DarkGlow(e, pg, i) ==
  LET b == Surround(e, pg, i)
  IN /\ b # None /\ b.lum < 10
     /\ \E k \in DOMAIN pg[i].shadow : HasChroma(pg[i].shadow[k].color, 30) /\ pg[i].shadow[k].blur > 4

LayoutProps == {"width", "height", "padding", "margin"}
LayoutTransition(e, pg, i) == pg[i].tag \notin SafeTags /\ pg[i].props \cap LayoutProps # {}
BounceEasing(e, pg, i) ==
  pg[i].tag \notin SafeTags /\ (pg[i].bounce \/ (e = "browser" /\ "animate-bounce" \in pg[i].class))

\* checkIconTile: an icon in a square tile above a heading.  The static
\* engine takes the sizes from the style and does not ask what is on top.
IconTile(e, pg, i) ==
  LET s == Before(pg, i)
      t == pg[s]
      w == IF e = "browser" THEN Width(t) ELSE t.w
      h == IF e = "browser" THEN Height(t) ELSE t.h
      icons == {j \in Within(pg, s) \ {s} : pg[j].tag \in {"svg", "i"}}
      icon == pg[Min(icons)]
      iw == IF icons = {} THEN 0 ELSE IF e = "browser" THEN Width(icon) ELSE icon.w
  IN /\ pg[i].tag \in Headings /\ s # 0 /\ t.tag \notin Headings
     /\ w \in 32..128 /\ h \in 32..128 /\ 10 * w >= 7 * h /\ 10 * w <= 14 * h
     /\ t.bg.a > 10 \/ t.image # "none" \/ t.border["top"] > 0
     /\ 2 * t.radius < w
     /\ icons # {} \/ (Kids(pg, s) = {} /\ t.own > 0 /\ t.emoji)
     /\ 100 * iw < 95 * w
     /\ e = "browser" => t.box.bottom <= pg[i].box.top + 4 \/ pg[i].box.top = 0 \/ t.box.bottom = 0

ItalicSerif(e, pg, i) == pg[i].tag \in {"h1", "h2"} /\ pg[i].italic /\ pg[i].serif /\ pg[i].size >= 48

Uppercase(n) == n.upper \/ n.caps
\* checkHeroEyebrow: a small label above the h1, tracked capitals or a bold accent.
HeroEyebrow(e, pg, i) ==
  LET s == Before(pg, i)  t == pg[s]
  IN /\ pg[i].tag = "h1" /\ s # 0 /\ t.tag \notin Headings
     /\ TextLen(pg, s) \in 2..60 /\ t.size \in 1..14
     /\ (Uppercase(t) /\ t.track >= 160) \/ (t.bold /\ HasChroma(t.color, 40))

BrokenImage(e, pg, i) == e = "static" /\ pg[i].tag = "img" /\ pg[i].src = "none"

OversizedH1(e, pg, i) ==
  LET n == pg[i]
  IN /\ n.tag = "h1" /\ n.size >= 72 /\ TextLen(pg, i) >= 40
     /\ e = "browser" => \/ 100 * Height(n) >= 28 * View.h
                         \/ 4 * Width(n) * Height(n) >= View.w * View.h
-----------------------------------------------------------------------------
(* checkQuality.  rect-dependent parts run in the browser only.            *)

BodyText(n) == n.own > 10
Prose == {"p", "li", "td", "blockquote"}
LineLength(e, pg, i) ==
  LET n == pg[i]
  IN /\ e = "browser" /\ BodyText(n) /\ n.tag \in Prose /\ TextLen(pg, i) > 80
     /\ 2 * Width(n) > 85 * n.size

\* hasVisibleBackgroundBoundary: its own colour differs from the first one behind it.
Same(c, d) == c.lum = d.lum /\ c.hue = d.hue /\ c.chroma = d.chroma /\ c.a - d.a \in -3..3
BgBoundary(pg, i) ==
  /\ pg[i].bg.a > 5
  /\ LET k == Nearest(pg, pg[i].up, LAMBDA j : pg[j].bg.a > 5) IN k # 0 => ~Same(pg[i].bg, pg[k].bg)

\* Padding too small for the text it surrounds, on a side that has an edge.
Cramped(e, pg, i) ==
  LET n == pg[i]
      edged(s) == BgBoundary(pg, i) \/ n.border[s] > 0
      tight(s) == IF s \in {"top", "bottom"} THEN n.pad[s] < 4 \/ 10 * n.pad[s] < 3 * n.size
                                            ELSE n.pad[s] < 8 \/ 2 * n.pad[s] < n.size
  IN /\ e = "browser" /\ BodyText(n) /\ TextLen(pg, i) > 20 /\ Width(n) > 100 /\ Height(n) > 30
     /\ ~(n.tag = "code" /\ ~Inside(pg, i, {"pre"}))
     /\ BgBoundary(pg, i) \/ Cardinality({s \in Sides : n.border[s] > 0}) >= 2
     /\ \E s \in Sides : edged(s) /\ tight(s)

Gap(s, outer, inner) ==
  CASE s = "top" -> inner.top - outer.top [] s = "left" -> inner.left - outer.left
    [] s = "bottom" -> outer.bottom - inner.bottom [] s = "right" -> outer.right - inner.right
Apart(o, b) == b.bottom < o.top \/ b.top > o.bottom \/ b.right < o.left \/ b.left > o.right
TextEdge == {"a", "button", "code", "h1", "h2", "h3", "li", "p", "pre", "span", "td"}
\* textDescendantsFlushSides.
TextAt(pg, i, s) ==
  \E j \in Within(pg, i) \ {i} :
    /\ pg[j].tag \in TextEdge /\ pg[j].own > 4 /\ Width(pg[j]) > 0 /\ Height(pg[j]) > 0
    /\ ~Apart(pg[i].box, pg[j].box) /\ Gap(s, pg[i].box, pg[j].box) <= 4

InsulatedAsLaidOut(e, pg, i, s) ==
  \E j \in Kids(pg, i) :
    IF e = "browser" THEN Width(pg[j]) > 0 /\ Height(pg[j]) > 0 /\ Gap(s, pg[i].box, pg[j].box) >= 4
                     ELSE pg[j].pad[s] >= 4 \/ pg[j].margin[s] >= 4
InsulatedByAll(e, pg, i, s) ==
  \A j \in Kids(pg, i) :
    \/ pg[j].pad[s] >= 4 \/ pg[j].margin[s] >= 4
    \/ e = "browser" /\ Width(pg[j]) > 0 /\ Height(pg[j]) > 0 /\ Gap(s, pg[i].box, pg[j].box) >= 4
\* A direct child keeps its own distance: by its style, or as laid out.
Insulated(e, pg, i, s) ==
  \E j \in Kids(pg, i) :
    \/ pg[j].pad[s] >= 4 \/ pg[j].margin[s] >= 4
    \/ e = "browser" /\ Width(pg[j]) > 0 /\ Height(pg[j]) > 0 /\ Gap(s, pg[i].box, pg[j].box) >= 4

FlushSkip == {"html", "body", "a", "button", "label", "code", "pre", "td"}
FullBleed(e, pg, i) ==
  e = "browser" /\ 100 * Width(pg[i]) >= 94 * View.w /\ BgBoundary(pg, i) /\ ~pg[i].outline
Bounded(e, pg, i, s) ==
  \/ pg[i].border[s] > 0 /\ pg[i].edge.a > 5
  \/ pg[i].outline
  \/ BgBoundary(pg, i) /\ ~(FullBleed(e, pg, i) /\ s \in {"left", "right"})
\* Children flush against a visible boundary of a container without own text.
FlushSides(e, pg, i) ==
  LET n == pg[i]
  IN IF n.tag \in FlushSkip \/ BodyText(n) \/ n.pos \in {"absolute", "fixed"} \/ Kids(pg, i) = {}
          \/ \A j \in Kids(pg, i) : TextLen(pg, j) <= 4
     THEN {}
     ELSE {s \in Sides : /\ Bounded(e, pg, i, s) /\ n.pad[s] <= 2 /\ ~Insulated(e, pg, i, s)
                         /\ e = "browser" => TextAt(pg, i, s)}
Flush(e, pg, i) == FlushSides(e, pg, i) # {}

ViewportEdge(e, pg, i) ==
  LET n == pg[i]
  IN /\ e = "browser" /\ BodyText(n) /\ TextLen(pg, i) > 40 /\ n.tag \in {"p", "li"}
     /\ ~Inside(pg, i, {"nav", "header"}) /\ n.bg.a = 0 /\ n.pos \notin {"absolute", "fixed"}
     /\ 2 * Width(n) > View.w /\ (n.box.left < 16 \/ n.box.right > View.w - 16)

TightLeading(e, pg, i) ==
  LET n == pg[i]
  IN BodyText(n) /\ TextLen(pg, i) > 50 /\ n.tag \notin Headings /\ n.line # None
     /\ n.line > 0 /\ 10 * n.line < 13 * n.size
Justified(e, pg, i) == BodyText(pg[i]) /\ pg[i].justify
TinyText(e, pg, i) ==
  LET n == pg[i]
  IN BodyText(n) /\ TextLen(pg, i) > 20 /\ n.size < 12 /\ n.tag # "code" /\ ~n.upper
     /\ ~Inside(pg, i, {"button", "a", "label", "pre", "nav"})
     /\ Nearest(pg, i, LAMBDA j : pg[j].class \cap {"badge", "meta"} # {}) = 0
AllCaps(e, pg, i) == BodyText(pg[i]) /\ TextLen(pg, i) > 30 /\ pg[i].upper /\ pg[i].tag \notin Headings
\* More than 0.05em apart, or 0.05em or more together; hundredths of a pixel.
WideTracking(e, pg, i) ==
  BodyText(pg[i]) /\ TextLen(pg, i) > 20 /\ ~pg[i].upper /\ pg[i].track > 5 * pg[i].size
NegativeTracking(e, pg, i) ==
  BodyText(pg[i]) /\ TextLen(pg, i) > 20 /\ pg[i].track <= -5 * pg[i].size
-----------------------------------------------------------------------------
(* Surfaces, clipping and overflow.                                        *)

\* A hairline border with a wide shadow (reported with --gpt only).
ThinBorderWideShadow(e, pg, i) ==
  LET n == pg[i]
  IN /\ Cardinality({s \in Sides : n.border[s] = 1}) >= 2 /\ n.edge.a >= 28
     /\ \E k \in DOMAIN n.shadow : n.shadow[k].blur >= 16 /\ n.shadow[k].color.a >= 12

\* A positioned descendant that a clipping ancestor would cut off: where it
\* is, in the browser; where its offsets put it, in the static engine.
Escapes(e, pg, i, j) ==
  LET laid == e = "browser" /\ (Width(pg[i]) > 0 \/ Height(pg[i]) > 0) /\ (Width(pg[j]) > 0 \/ Height(pg[j]) > 0)
  IN IF laid THEN \E s \in Sides : Gap(s, pg[i].box, pg[j].box) < -2 ELSE pg[j].escapes
ClippedOverflow(e, pg, i) ==
  /\ pg[i].over = "hidden" /\ "carousel" \notin pg[i].class
  /\ \E j \in Within(pg, i) \ {i} :
       pg[j].pos \in {"absolute", "fixed"} /\ ~pg[j].decor /\ Escapes(e, pg, i, j)

TextOverflow(e, pg, i) ==
  LET n == pg[i]
  IN /\ e = "browser" /\ n.tag \notin {"pre", "code", "svg"} /\ n.own > 0
     /\ \A k \in DOMAIN Path(pg, i) : pg[Path(pg, i)[k]].over # "auto"
     /\ ~(n.pos = "absolute" /\ Width(n) <= 2 /\ Height(n) <= 2 /\ n.over = "hidden")
     /\ Width(n) > 0 /\ n.spill >= 16
-----------------------------------------------------------------------------
(* Page rules.                                                             *)

\* isCardLike, isCardLikeDOM: the static engine takes a surface from a class
\* or an inline style, the browser also from the computed background.
CardTags == {"div", "p", "h1", "h2", "h3", "i"}
Card(e, n) ==
  /\ n.tag \in CardTags
  /\ n.shadow # <<>> \/ n.class \cap {"shadow", "border"} # {}
  /\ n.radius > 0 \/ n.class \cap {"rounded", "bg-white"} # {} \/ (e = "browser" /\ n.bg.a > 0)
\* A card somewhere inside a card, if it is not a floating layer.
InnerCards(e, pg) ==
  {i \in DOMAIN pg :
     /\ Card(e, pg[i]) /\ TextLen(pg, i) >= 10 /\ "modal" \notin pg[i].class
     /\ IF e = "browser" THEN pg[i].pos \notin {"absolute", "fixed"} /\ Width(pg[i]) >= 50 /\ Height(pg[i]) >= 30
                         ELSE "absolute" \notin pg[i].class
     /\ Nearest(pg, pg[i].up, LAMBDA j : Card(e, pg[j])) # 0}
NestedCardsOutermost(e, pg, i) ==
  LET f == InnerCards(e, pg) IN i \in f /\ Nearest(pg, pg[i].up, LAMBDA j : j \in f) = 0
\* Only the innermost of them are reported.
NestedCards(e, pg, i) ==
  LET f == InnerCards(e, pg) IN i \in f /\ Within(pg, i) \cap f = {i}

\* A page background in the warm off-white of the default palette.
CreamPalette(e, pg, i) ==
  LET bg == IF pg[2].bg.a = 0 THEN pg[1].bg ELSE pg[2].bg
  IN i = 2 /\ ((bg.a > 0 /\ bg.cream) \/ "bg-amber-50" \in pg[2].class \cup pg[1].class)

\* A heading more than one level below the heading before it.
SkippedHeading(e, pg, i) ==
  LET before == {j \in 1..(i - 1) : pg[j].tag \in Headings}
  IN pg[i].tag \in Headings /\ before # {} /\ Level(pg[i]) > Level(pg[Max(before)]) + 1

\* Tracked capitals above section headings, on a page that has three of them.
KickerSkips == {"nav", "li", "td"}
Kicker(pg, i) ==
  LET k == Before(pg, i)  t == pg[k]
  IN /\ pg[i].tag \in {"h2", "h3"} /\ k # 0 /\ ~Inside(pg, i, KickerSkips) /\ ~Inside(pg, k, KickerSkips)
     /\ LET c == Nearest(pg, i, LAMBDA j : pg[j].tag \in {"button", "a", "li"}) IN c = 0 \/ k \notin Within(pg, c)
     /\ TextLen(pg, i) >= 3 /\ pg[i].size >= 20
     /\ t.tag \in {"p", "span", "div"} /\ TextLen(pg, k) \in 2..34
     /\ Uppercase(t) /\ t.size \in 1..14 /\ t.track >= 100 /\ t.track >= 8 * t.size
SectionKickers(e, pg, i) ==
  Kicker(pg, i) /\ Cardinality({j \in DOMAIN pg : Kicker(pg, j)}) >= 3

\* Three sizes or more, and none twice the smallest.
FlatHierarchy(e, pg, i) ==
  LET sizes == {pg[j].size : j \in {k \in DOMAIN pg : pg[k].tag \notin {"html", "body"}}}
      seen == {z \in sizes : z < 200 /\ z >= IF e = "static" THEN 8 ELSE 1}
  IN i = 2 /\ Cardinality(seen) >= 3 /\ Max(seen) < 2 * Min(seen)
-----------------------------------------------------------------------------
Rules ==
  {"side-tab", "border-accent-on-rounded", "gray-on-color", "low-contrast", "gradient-text", "ai-color-palette",
   "dark-glow", "layout-transition", "bounce-easing", "icon-tile-stack", "italic-serif-display", "hero-eyebrow-chip",
   "broken-image", "oversized-h1", "line-length", "cramped-padding", "flush", "body-text-viewport-edge",
   "tight-leading", "justified-text", "tiny-text", "all-caps-body", "wide-tracking", "extreme-negative-tracking",
   "gpt-thin-border-wide-shadow", "clipped-overflow-container", "text-overflow", "nested-cards", "cream-palette",
   "skipped-heading", "repeated-section-kickers", "flat-type-hierarchy"}

\* Which rule an engine applies to an element: the rule tables of
\* detect-html.mjs and collectBrowserFindings.  The overlay skips html and
\* body for element rules, and "flush" is reported as cramped-padding.
Holds(r, e, pg, i) ==
  CASE r = "side-tab" -> SideTab(e, pg, i)
    [] r = "border-accent-on-rounded" -> AccentOnRounded(e, pg, i)
    [] r = "gray-on-color" -> GrayOnColor(e, pg, i)
    [] r = "low-contrast" -> LowContrast(e, pg, i)
    [] r = "gradient-text" -> GradientText(e, pg, i)
    [] r = "ai-color-palette" -> AIPalette(e, pg, i)
    [] r = "dark-glow" -> DarkGlow(e, pg, i)
    [] r = "layout-transition" -> LayoutTransition(e, pg, i)
    [] r = "bounce-easing" -> BounceEasing(e, pg, i)
    [] r = "icon-tile-stack" -> IconTile(e, pg, i)
    [] r = "italic-serif-display" -> ItalicSerif(e, pg, i)
    [] r = "hero-eyebrow-chip" -> HeroEyebrow(e, pg, i)
    [] r = "broken-image" -> BrokenImage(e, pg, i)
    [] r = "oversized-h1" -> OversizedH1(e, pg, i)
    [] r = "line-length" -> LineLength(e, pg, i)
    [] r = "cramped-padding" -> Cramped(e, pg, i)
    [] r = "flush" -> Flush(e, pg, i)
    [] r = "body-text-viewport-edge" -> ViewportEdge(e, pg, i)
    [] r = "tight-leading" -> TightLeading(e, pg, i)
    [] r = "justified-text" -> Justified(e, pg, i)
    [] r = "tiny-text" -> TinyText(e, pg, i)
    [] r = "all-caps-body" -> AllCaps(e, pg, i)
    [] r = "wide-tracking" -> WideTracking(e, pg, i)
    [] r = "extreme-negative-tracking" -> NegativeTracking(e, pg, i)
    [] r = "gpt-thin-border-wide-shadow" -> ThinBorderWideShadow(e, pg, i)
    [] r = "clipped-overflow-container" -> ClippedOverflow(e, pg, i)
    [] r = "text-overflow" -> TextOverflow(e, pg, i)
    [] r = "nested-cards" -> NestedCards(e, pg, i)
    [] r = "cream-palette" -> CreamPalette(e, pg, i)
    [] r = "skipped-heading" -> SkippedHeading(e, pg, i)
    [] r = "repeated-section-kickers" -> SectionKickers(e, pg, i)
    [] r = "flat-type-hierarchy" -> FlatHierarchy(e, pg, i)

PageRules == {"nested-cards", "cream-palette", "skipped-heading", "repeated-section-kickers", "flat-type-hierarchy"}
Reports(e, pg) ==
  {f \in Rules \X DOMAIN pg :
     (e = "browser" /\ f[1] \notin PageRules => f[2] > 2) /\ Holds(f[1], e, pg, f[2])}
-----------------------------------------------------------------------------
Init ==
  /\ family \in Families
  /\ \E b \in family.elements : b.tag = "body" /\ page = <<[Plain EXCEPT !.tag = "html"], [b EXCEPT !.up = 1]>>

\* The next element of the document: a child of the last one or of one it is in.
AddElement ==
  /\ Len(page) < family.upto
  /\ \E n \in family.elements : \E k \in DOMAIN Path(page, Len(page)) :
       LET up == Path(page, Len(page))[k]
       IN n.tag # "body" /\ up > 1 /\ page' = Append(page, [n EXCEPT !.up = up])
  /\ UNCHANGED family

Next == AddElement
Spec == Init /\ [][Next]_vars
-----------------------------------------------------------------------------
(* Where the engines differ by design or by drift, for a finding of rule r *)
(* on element i.                                                           *)

OnPath(pg, i, P(_)) == \E k \in DOMAIN Path(pg, i) : P(pg[Path(pg, i)[k]])
Translucent(n) == n.bg.a > 10 /\ n.bg.a < 50
\* Asked of the layout, which the static engine does not have.
NeedsLayout == {"line-length", "cramped-padding", "body-text-viewport-edge", "text-overflow",
                "clipped-overflow-container", "icon-tile-stack"}
Small(n) == Width(n) < 20 \/ Height(n) < 20
Differs(r, pg, i) ==
  \/ r \in NeedsLayout
  \/ pg[i].tag \in {"html", "body"} /\ r \notin PageRules
  \/ r = "broken-image"                                      \* static only
  \/ r \in {"side-tab", "border-accent-on-rounded", "gray-on-color", "low-contrast", "gradient-text",
             "ai-color-palette"} /\ Small(pg[i])
  \/ r \in {"gray-on-color", "low-contrast", "dark-glow"} /\ OnPath(pg, i, Translucent)
  \/ r = "low-contrast" /\ pg[i].color.a < 100 /\ OnPath(pg, i, LAMBDA n : n.image # "none")
  \/ r = "dark-glow" /\ OnPath(pg, i, LAMBDA n : n.image = "gradient")
  \/ r = "ai-color-palette" /\ (PaletteGradient(pg[i]) \/ NeonText(pg, i))
  \/ r = "bounce-easing" /\ "animate-bounce" \in pg[i].class
  \/ r = "nested-cards" /\ \E j \in DOMAIN pg :
       \/ pg[j].bg.a > 0 \/ pg[j].pos # "static" \/ "absolute" \in pg[j].class
       \/ Width(pg[j]) < 50 \/ Height(pg[j]) < 30
  \/ r = "flat-type-hierarchy" /\ \E j \in DOMAIN pg : pg[j].size < 8

\* The engines give one verdict on an element, except where they are known to
\* differ; and where the browser only refines with what it measures, it takes
\* findings away and adds none.
EnginesAgree ==
  LET s == Reports("static", page)
      b == Reports("browser", page)
  IN /\ \A f \in (s \ b) \cup (b \ s) : Differs(f[1], page, f[2]) \/ f[1] \in {"flush", "oversized-h1"}
     /\ \A f \in b : f[1] \in {"flush", "oversized-h1"} => f \in s

\* What is painted behind an element, in a page of opaque surfaces: the colour
\* or the gradient of the nearest element that has one.
Opaque(n) == n.bg.a \in {0, 100} /\ (n.bg.a = 100 => n.image = "none") /\ n.image # "url"
Behind(pg, i) ==
  LET on == Range(Path(pg, i))
      near == {j \in on : pg[j].bg.a = 100 \/ pg[j].image # "none"}
      top == Max(near)
  IN IF near = {} THEN {White} ELSE IF pg[top].bg.a = 100 THEN {pg[top].bg} ELSE Range(pg[top].stops)
\* Text is reported as too faint exactly when some colour behind it is too near
\* to its own.  A gradient of the body is taken for texture, over white.
ContrastIsAsSeen ==
  \A i \in 3..Len(page), e \in Engines :
    /\ \A k \in DOMAIN Path(page, i) : Opaque(page[Path(page, i)[k]])
    /\ page[2].image = "none" /\ page[i].color.a = 100 /\ ~Small(page[i])
    /\ page[i].own > 0 /\ ~page[i].emoji /\ page[i].tag \notin SafeTags
    => (<<"low-contrast", i>> \in Reports(e, page)
          <=> \E b \in Behind(page, i) : TooFaint(page[i].color, b, Large(page[i])))

\* One side at most stands out, and turning the element round turns the verdict.
Mirror(s) == CASE s = "left" -> "right" [] s = "right" -> "left" [] OTHER -> s
Turned(n) == [n EXCEPT !.border = [s \in Sides |-> n.border[Mirror(s)]]]
OneTabPerElement ==
  \A i \in DOMAIN page, e \in Engines :
    /\ Cardinality(Tabs(e, page[i])) <= 1
    /\ Tabs(e, Turned(page[i])) = {Mirror(s) : s \in Tabs(e, page[i])}

\* Nested cards are reported once for each nest: no report inside another, and
\* none lost on the way to the innermost.
NestsAreReportedOnce ==
  \A e \in Engines :
    LET r == {i \in DOMAIN page : <<"nested-cards", i>> \in Reports(e, page)}
    IN /\ \A i, j \in r : i # j => j \notin Within(page, i)
       /\ \A i \in InnerCards(e, page) : Within(page, i) \cap r # {}

\* A finding of cramped children is about a side that has an edge to see and,
\* laid out, text at it that no child's own inset keeps away.
FlushIsSeen ==
  \A i \in DOMAIN page : \A s \in FlushSides("browser", page, i) :
    /\ \E j \in Within(page, i) \ {i} : page[j].own > 4 /\ Gap(s, page[i].box, page[j].box) <= 4
    /\ \A j \in Kids(page, i) : page[j].pad[s] < 4 /\ page[j].margin[s] < 4

VerdictsAreSound == ContrastIsAsSeen /\ OneTabPerElement /\ NestsAreReportedOnce /\ FlushIsSeen
=============================================================================
