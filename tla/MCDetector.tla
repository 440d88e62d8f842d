------------------------------ MODULE MCDetector ------------------------------
(* The cascade of the static engine on small style sheets, and the rules of  *)
(* both engines on small documents, side by side: part says which.           *)
EXTENDS DetectorRules, StyleCascade

VARIABLE part

Body == [Plain EXCEPT !.tag = "body", !.box = [left |-> 0, top |-> 0, right |-> 1000, bottom |-> 800]]
Box(l, t, r, b) == [left |-> l, top |-> t, right |-> r, bottom |-> b]
El(tag) == [Plain EXCEPT !.tag = tag, !.box = Box(0, 0, 400, 200)]
Hue(l, c, h) == [White EXCEPT !.lum = l, !.chroma = c, !.hue = h]
Dark == Hue(3, 0, 0)
Red == Hue(20, 200, 0)
Violet == Hue(15, 120, 280)
Gray == Hue(13, 0, 0)
Half(c) == [c EXCEPT !.a = 40]
Only(s, v) == [Zero EXCEPT ![s] = v]
All(v) == [s \in Sides |-> v]

Colours ==
  {Body, [Body EXCEPT !.bg = Dark], [Body EXCEPT !.image = "gradient", !.stops = <<Dark, Gray>>],
   [El("div") EXCEPT !.bg = Dark], [El("div") EXCEPT !.bg = Half(Dark)], [El("div") EXCEPT !.bg = Red],
   [El("div") EXCEPT !.image = "gradient", !.stops = <<White, Violet>>], [El("div") EXCEPT !.bg = Dark, !.image = "url"],
   [El("p") EXCEPT !.own = 12, !.color = Gray], [El("p") EXCEPT !.own = 12, !.color = White, !.bold = TRUE, !.size = 20],
   [El("a") EXCEPT !.own = 12, !.bg = Violet, !.color = Violet], [El("h2") EXCEPT !.own = 12, !.color = [Violet EXCEPT !.a = 60]],
   [El("div") EXCEPT !.shadow = <<[color |-> Violet, blur |-> 12]>>, !.color = Violet]}
Borders ==
  {Body} \cup {[El("div") EXCEPT !.border = [Zero EXCEPT ![s] = w, !["right"] = v], !.edge = Red, !.radius = r] :
                 s \in {"top", "left"}, w \in {2, 4}, v \in {1, 2}, r \in {0, 6}}
  \cup {[El("span") EXCEPT !.border = Only("left", 4), !.edge = Red],
        [El("div") EXCEPT !.border = All(4), !.edge = Red, !.radius = 6],
        [El("div") EXCEPT !.border = All(1), !.edge = Red, !.shadow = <<[color |-> Half(Dark), blur |-> 20]>>],
        [El("div") EXCEPT !.border = Only("left", 4), !.edge = Red, !.box = Box(0, 0, 10, 10)]}
Text(n) == [El("p") EXCEPT !.own = n]
Boxes ==
  {Body, [El("div") EXCEPT !.border = All(1)], [El("div") EXCEPT !.bg = Dark, !.box = Box(0, 0, 1000, 200)],
   [El("div") EXCEPT !.border = Only("left", 1)], [El("div") EXCEPT !.outline = TRUE, !.pad = Only("left", 8)],
   [El("div") EXCEPT !.border = Only("left", 1), !.pos = "absolute"],
   [El("div") EXCEPT !.border = All(1), !.over = "hidden"], [Text(30) EXCEPT !.box = Box(2, 2, 398, 50)],
   [Text(30) EXCEPT !.box = Box(30, 30, 300, 198), !.margin = Only("top", 12)],
   [El("span") EXCEPT !.own = 8, !.box = Box(0, 100, 40, 120), !.pad = Only("left", 6)],
   [El("span") EXCEPT !.own = 8, !.box = Box(390, 190, 460, 260), !.pos = "absolute", !.escapes = TRUE],
   [Text(60) EXCEPT !.box = Box(0, 0, 900, 60), !.line = 18, !.size = 16, !.spill = 20]}
Cards ==
  {Body, [El("div") EXCEPT !.class = {"shadow", "rounded"}, !.own = 12], [El("div") EXCEPT !.class = {"border"}, !.bg = Gray, !.own = 12],
   [El("div") EXCEPT !.class = {"shadow", "rounded", "modal"}], [El("div") EXCEPT !.class = {"border", "bg-white"}, !.pos = "absolute"],
   El("div"), Text(12)}
Heads ==
  {Body, [Body EXCEPT !.bg = [White EXCEPT !.cream = TRUE, !.lum = 90]],
   [El("h1") EXCEPT !.own = 44, !.size = 80, !.italic = TRUE, !.serif = TRUE, !.box = Box(0, 0, 400, 100)],
   [El("h2") EXCEPT !.own = 12, !.size = 22], [El("h3") EXCEPT !.own = 12, !.size = 20],
   [El("p") EXCEPT !.own = 8, !.upper = TRUE, !.size = 12, !.track = 160],
   [El("div") EXCEPT !.w = 48, !.h = 48, !.bg = Red, !.box = Box(0, 0, 48, 48), !.own = 1, !.emoji = TRUE],
   [El("p") EXCEPT !.own = 40, !.size = 11, !.track = -60], [El("p") EXCEPT !.own = 40, !.upper = TRUE, !.justify = TRUE],
   [El("div") EXCEPT !.props = {"width"}, !.bounce = TRUE]}

Sections ==
  {Body, [El("h2") EXCEPT !.own = 12, !.size = 22], [El("p") EXCEPT !.own = 8, !.upper = TRUE, !.size = 12, !.track = 160]}

MCFamilies == {[elements |-> Sections, upto |-> 7]} \cup {[elements |-> f, upto |-> 4] : f \in {Borders, Boxes}}
              \cup {[elements |-> f, upto |-> 5] : f \in {Colours, Cards, Heads}}
MCView == [w |-> 1000, h |-> 800]
-----------------------------------------------------------------------------
Part(k, inside) == [k |-> k, inside |-> inside]
\* .a:not(.b), :where(#c) p i, :not(i)
MCSelectors == {
  [parts |-> <<Part("class", ""), Part("class", "not")>>, hits |-> {2}],
  [parts |-> <<Part("id", "where"), Part("type", ""), Part("type", "")>>, hits |-> {1, 2}],
  [parts |-> <<Part("type", "not")>>, hits |-> {1}]}
D(p, v) == [prop |-> p, value |-> v, important |-> FALSE]
Bang(d) == [d EXCEPT !.important = TRUE]
px(n) == Len_("px", 10 * n)

MCPages == {
  {D("color", <<Color("red")>>), Bang(D("color", <<Color("blue")>>)), D("color", <<Inherit>>), D("outline-color", <<Color("red")>>),
   D("padding", <<px(1), px(2), px(3), px(4)>>)},
  {D("background", <<Color("blue")>>), D("background", <<Color("red"), Image>>), D("background", <<Image, Color("red")>>), D("background-color", <<Color("red")>>),
   Bang(D("background-color", <<Color("green")>>))},
  {D("--a", <<Color("red")>>), D("--a", <<Var("--b", Color("green"))>>), D("--b", <<Color("blue")>>),
   D("color", <<Var("--a", Color("green"))>>), Bang(D("background-color", <<Var("--a", Blank)>>))},
  {D("font-size", <<Len_("em", 20)>>), D("font-size", <<px(20)>>), D("line-height", <<Len_("em", 20)>>),
   D("line-height", <<Len_("none", 15)>>), D("letter-spacing", <<Len_("em", 1)>>),
   D("font", <<Word("italic"), Word("bold"), px(10), Len_("em", 30), Word("serif")>>)},
  {D("border", <<px(2), Word("solid"), Color("red")>>), D("border", <<Word("none")>>), D("border-left", <<px(5), Var("--a", Color("red"))>>),
   D("border-width", <<px(1), px(3)>>), D("border-color", <<Color("blue"), Color("red"), Color("green")>>),
   D("color", <<Color("green")>>)},
  {D("transition", <<Word("width"), Word("ease-in-out")>>), D("transition", <<Word("ease"), Word("border-radius")>>),
   D("animation", <<Word("linear"), Word("bounce")>>), D("animation", <<Word("step-start"), Word("bounce")>>),
   D("transition-property", <<Word("all")>>), D("animation-name", <<Word("fade")>>)}}
-----------------------------------------------------------------------------
StylesAreTheBrowsers == part = "cascade" => TypeOK /\ ComputedAsInBrowser
EnginesAgreeSoundly == part = "rules" => EnginesAgree /\ VerdictsAreSound

MCInit ==
  \/ part = "rules" /\ Init /\ sheet = None /\ attr = None /\ drawn = None
  \/ part = "cascade" /\ CascadeInit /\ page = None /\ family = None
MCNext ==
  \/ part = "rules" /\ Next /\ UNCHANGED <<part, sheet, attr, drawn>>
  \/ part = "cascade" /\ CascadeNext /\ UNCHANGED <<part, page, family>>
MCSpec == MCInit /\ [][MCNext]_<<part, page, family, sheet, attr, drawn>>
=============================================================================
