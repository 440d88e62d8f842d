------------------------------ MODULE Worksheet ------------------------------
(***************************************************************************)
(* The read-only worksheet of the Model page (WorksheetSurface and         *)
(* WorksheetGrid in ModelBuilder.tsx, worksheet* in modelBuilderState.ts): *)
(* which columns and rows its period families, sections and row groups     *)
(* name, and the cell under inspection while the analyst filters columns,  *)
(* folds rows and moves with the keyboard.  A tab's structure is read off  *)
(* its cells: [row, col, sem, period, value], sem and period Blank when the *)
(* serializer gave none, value a family label, another text or a number.   *)
(***************************************************************************)
EXTENDS Integers, Sequences, FiniteSets, FiniteSetsExt

CONSTANTS Blank, Tabs,       \* [id, cells, rows, cols]
          FamilyLabels, SegmentIds,
          Anchors, Debt       \* sequences: the semantic ids that open sections, the sets of ids of each kind of debt

VARIABLES tab, family, folded, selected, active
sheetVars == <<tab, family, folded, selected, active>>

Texts == FamilyLabels \cup {"heading", "label"}
Filled(c) == c.value # Blank
AtRow(t, r) == {c \in t.cells : c.row = r}
Earliest(cells) == CHOOSE c \in cells : \A d \in cells : c.row < d.row \/ (c.row = d.row /\ c.col <= d.col)
Latest(cells) == CHOOSE c \in cells : \A d \in cells : d.row < c.row \/ (c.row = d.row /\ d.col <= c.col)
-----------------------------------------------------------------------------
(* Period families: the label that a column of period cells is headed by. *)
PeriodColumns(t) == {c.col : c \in {d \in t.cells : d.period # Blank}}
Labels(t, col) ==
  {c \in t.cells : c.col = col /\ c.sem = Blank /\ c.period = Blank /\ c.value \in FamilyLabels}
FamilyColumns(t) == {col \in PeriodColumns(t) : Labels(t, col) # {}}
FamilyOf(t, col) == Latest(Labels(t, col)).value
Families(t) == {FamilyOf(t, col) : col \in FamilyColumns(t)}
ColumnsOf(t, f) == {col \in FamilyColumns(t) : FamilyOf(t, col) = f}

\* The rows from the first family label down to the data, which stay on top.
PeriodHeaderRows(t) ==
  LET on == {c \in t.cells : c.col \in FamilyColumns(t)}
      heads == {c \in on : c.sem = Blank /\ c.period = Blank /\ Filled(c)}
      labels == {c \in heads : c.value \in Families(t)}
      data == {c \in on : c.period # Blank}
  IN IF labels = {} \/ data = {} THEN {}
     ELSE {c.row : c \in {d \in heads : d.row >= Earliest(labels).row /\ d.row < Earliest(data).row}}
-----------------------------------------------------------------------------
(* Sections and row groups: from the heading above an anchor to the next. *)
IsHeader(t, r) ==
  LET full == {c \in AtRow(t, r) : Filled(c)}
  IN Cardinality(full) = 1 /\ \A c \in full : c.col = 1 /\ c.value \in Texts
\* headerBefore: the top of the nearest block of headings above a row; 0 when there is none.
HeaderBefore(t, row) ==
  LET near == Max({r \in 1..(row - 1) : IsHeader(t, r)} \cup {0})
  IN IF near = 0 THEN 0 ELSE Min({r \in 1..near : \A k \in r..near : IsHeader(t, k)})
AnchorRow(t, ids) ==
  LET at == {c \in t.cells : c.sem \in ids} IN IF at = {} THEN 0 ELSE Earliest(at).row
Start(t, ids) == IF AnchorRow(t, ids) = 0 THEN 0 ELSE HeaderBefore(t, AnchorRow(t, ids))
EndingOnTheNext(starts, k, last) ==
  LET later == {j \in DOMAIN starts : starts[j] > starts[k] \/ (starts[j] = starts[k] /\ j > k)}
  IN IF later = {} THEN last ELSE Min({starts[j] : j \in later})
\* Sorted by first row; each ends above the next, nothing left to one that starts with it.
Ending(starts, k, last) ==
  LET later == {j \in DOMAIN starts : starts[j] > starts[k] \/ (starts[j] = starts[k] /\ j > k)}
  IN IF later = {} THEN last ELSE Min({starts[j] : j \in later}) - 1
Group(t, kind, n, top, bottom) == [id |-> [tab |-> t.id, kind |-> kind, n |-> n], top |-> top, bottom |-> bottom]

SectionStarts(t) == [k \in {j \in DOMAIN Anchors : Start(t, {Anchors[j]}) # 0} |-> Start(t, {Anchors[k]})]
Section(t, k) == Group(t, "section", SectionStarts(t)[k], SectionStarts(t)[k], Ending(SectionStarts(t), k, t.rows))
Sections(t) == {Section(t, k) : k \in DOMAIN SectionStarts(t)}

Foldable(t) == {k \in DOMAIN SectionStarts(t) : Anchors[k] \in {"cash_flow", "cash"}}
Business(t) ==
  LET at == {c.row : c \in {d \in t.cells : d.sem \in SegmentIds}}
  IN IF at = {} THEN {}
     ELSE LET h == HeaderBefore(t, Min(at))
          IN {Group(t, "business", 0, IF h # 0 THEN h ELSE Min(at) - 1, Max(at))}
DebtStarts(t) == [k \in {j \in DOMAIN Debt : Start(t, Debt[j]) # 0} |-> Start(t, Debt[k])]
DebtGroups(t) ==
  UNION {{Group(t, "debt", k, DebtStarts(t)[k], Ending(DebtStarts(t), k, Section(t, s).bottom)) : k \in DOMAIN DebtStarts(t)} :
           s \in {j \in DOMAIN SectionStarts(t) : Anchors[j] = "cash"}}
GroupsOf(t) == {Section(t, k) : k \in Foldable(t)} \cup Business(t) \cup DebtGroups(t)
Inside(g, row) == row > g.top /\ row <= g.bottom

\* What WorksheetSurface memoizes of a tab.
Shape == [t \in Tabs |->
  [families |-> [f \in Families(t) |-> ColumnsOf(t, f)], groups |-> GroupsOf(t), header |-> PeriodHeaderRows(t),
   sections |-> Sections(t)]]
Groups == Shape[tab].groups
ColumnsUnder(f) == IF f \in DOMAIN Shape[tab].families THEN {1} \cup Shape[tab].families[f] ELSE 1..tab.cols
RowsUnder(t, closed) == {r \in 1..t.rows : \A g \in Shape[t].groups : ~(g.id \in closed /\ Inside(g, r))}
-----------------------------------------------------------------------------
\* The grid, mounted anew, puts the keyboard on the first cell that is shown.
Corner(t, closed) == [row |-> Min(RowsUnder(t, closed) \cup {t.rows}), col |-> 1]
SheetInit ==
  /\ tab \in Tabs
  /\ family = "ALL" /\ folded = {} /\ selected = Blank /\ active = [row |-> 1, col |-> 1]

\* A click or Enter on a visible cell that has a lineage (taken to be those of a semantic id).
Select ==
  /\ \E c \in tab.cells : /\ c.row \in RowsUnder(tab, folded) /\ c.col \in ColumnsUnder(family) /\ c.sem # Blank
                          /\ selected' = [row |-> c.row, col |-> c.col]
  /\ UNCHANGED <<tab, family, folded, active>>

\* setFamily: a selection in a column that goes is dropped; the grid is mounted anew.
SetFamily ==
  \E f \in DOMAIN Shape[tab].families \cup {"ALL"} :
    /\ f # family /\ family' = f
    /\ selected' = IF selected # Blank /\ f # "ALL" => selected.col \in ColumnsUnder(f) THEN selected ELSE Blank
    /\ active' = Corner(tab, folded)
    /\ UNCHANGED <<tab, folded>>

\* toggleGroup: a selection inside the group is dropped, folded or not.
DroppedNever(g) == FALSE
Dropped(g) == selected # Blank /\ Inside(g, selected.row)
ToggleGroup ==
  \E g \in Groups :
    /\ folded' = IF g.id \in folded THEN folded \ {g.id} ELSE folded \cup {g.id}
    /\ selected' = IF Dropped(g) THEN Blank ELSE selected
    /\ active' = Corner(tab, folded')
    /\ UNCHANGED <<tab, family>>

\* selectTab: the filter and the selection go, the folds of each tab stay.
SelectTab ==
  /\ tab' \in Tabs \ {tab}
  /\ family' = "ALL" /\ selected' = Blank
  /\ active' = Corner(tab', folded)
  /\ UNCHANGED folded

\* Arrow keys: the next visible row or column, stopping at the edge.
Arrow ==
  \E step \in {-1, 1} :
    /\ \/ LET on == {r \in RowsUnder(tab, folded) : (r - active.row) * step > 0}
          IN active' = [active EXCEPT !.row = IF on = {} THEN @ ELSE IF step = 1 THEN Min(on) ELSE Max(on)]
       \/ LET on == {c \in ColumnsUnder(family) : (c - active.col) * step > 0}
          IN active' = [active EXCEPT !.col = IF on = {} THEN @ ELSE IF step = 1 THEN Min(on) ELSE Max(on)]
    /\ UNCHANGED <<tab, family, folded, selected>>

SheetNext == Select \/ SetFamily \/ ToggleGroup \/ SelectTab \/ Arrow
SheetSpec == SheetInit /\ [][SheetNext]_sheetVars
-----------------------------------------------------------------------------
\* The cell whose lineage is shown, and the one the keyboard is on, are in the
\* grid whatever was filtered and folded since, and so are the rows that head it.
LineageIsOnSheet ==
  /\ selected # Blank => selected.row \in RowsUnder(tab, folded) /\ selected.col \in ColumnsUnder(family)
  /\ active.row \in RowsUnder(tab, folded) /\ active.col \in ColumnsUnder(family)
  /\ Shape[tab].header \subseteq RowsUnder(tab, folded)
\* Sections follow one another to the end of the sheet, each holding its
\* anchor, and folding hides no heading of another section.
WellLaid(t) ==
  /\ \A s, u \in Shape[t].sections : s.top < u.top => s.bottom < u.top
  /\ \A k \in DOMAIN SectionStarts(t) : LET s == Section(t, k) IN AnchorRow(t, {Anchors[k]}) \in s.top..s.bottom
  /\ \A s \in Shape[t].sections : IsHeader(t, s.top)
LaidOut == {t \in Tabs : WellLaid(t)}
SectionsPartition ==
  /\ tab \in LaidOut
  /\ \A s \in Shape[tab].sections : s.top \in RowsUnder(tab, folded) \/ \E g \in Groups : g.id.kind # "section" /\ Inside(g, s.top)
WorksheetIsSound == LineageIsOnSheet /\ SectionsPartition
=============================================================================
