------------------------------ MODULE MCModelPage ------------------------------
(* The Model page: the forecast draft against a moving server, and the       *)
(* worksheet under the analyst's hands, side by side: part says which.       *)
EXTENDS ForecastDraft, Worksheet, TLC

VARIABLE part

CONSTANTS q1, q2
MCDefaults == [s \in Slot |-> 0]
MCScopes == {{q2}}
MCTheirs == {(q1 :> 1) @@ (q2 :> 1)}
C(r, k, sem, p, v) == [row |-> r, col |-> k, sem |-> sem, period |-> p, value |-> v]
Full ==
  {C(1, 1, Blank, Blank, "label"), C(1, 2, Blank, Blank, "QUARTER"), C(1, 3, Blank, Blank, "LTM"), C(2, 2, Blank, Blank, "label"),
   C(3, 1, Blank, Blank, "heading"), C(4, 1, Blank, Blank, "label"), C(4, 2, "revenue", "p1", "number"), C(4, 3, "revenue", "p2", "number"),
   C(5, 1, Blank, Blank, "label"), C(5, 2, "seg", "p1", "number"), C(6, 1, Blank, Blank, "heading"), C(7, 1, Blank, Blank, "label"),
   C(7, 3, "cash_flow", "p2", "number"), C(8, 1, Blank, Blank, "heading"), C(9, 1, Blank, Blank, "heading"), C(10, 1, Blank, Blank, "label"), C(10, 2, "cash", "p1", "number"),
   C(11, 1, Blank, Blank, "heading"), C(12, 1, Blank, Blank, "label"), C(12, 2, "secured", "p1", "number"),
    C(13, 1, Blank, Blank, "heading"), C(14, 3, "unsecured", "p2", "number")}
Bare == {C(1, 1, Blank, Blank, "label"), C(1, 2, Blank, Blank, "number"), C(2, 2, "seg", "p1", "number"), C(3, 1, Blank, Blank, "heading"),
         C(6, 2, Blank, Blank, "YTD")}
MCTabs == {[id |-> "full", cells |-> Full, rows |-> 14, cols |-> 3], [id |-> "bare", cells |-> Bare, rows |-> 6, cols |-> 2]}
MCDebt == <<{"secured"}, {"unsecured"}, {"other"}>>
MCAnchors == <<"revenue", "cash_flow", "cash", "growth">>
-----------------------------------------------------------------------------
DraftIsSound == part = "forecast" => ForecastIsSound
SheetIsSound == part = "sheet" => WorksheetIsSound
DraftsAreKept == [][part = "forecast" => DraftIsKept]_vars

MCInit ==
  \/ part = "forecast" /\ Init
     /\ tab = Blank /\ family = Blank /\ folded = Blank /\ selected = Blank /\ active = Blank
  \/ part = "sheet" /\ SheetInit
     /\ srv = None /\ ui = None /\ load = None /\ calcs = None /\ save = None /\ saved = None /\ late = None
MCNext ==
  \/ part = "forecast" /\ Next /\ UNCHANGED <<part, sheetVars>>
  \/ part = "sheet" /\ SheetNext /\ UNCHANGED <<part, vars>>
MCSpec == MCInit /\ [][MCNext]_<<part, vars, sheetVars>>
=============================================================================
