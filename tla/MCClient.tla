------------------------------ MODULE MCClient ------------------------------
(* One tab of the workspace, and the report editor in it, side by side: part *)
(* says which.                                                               *)
EXTENDS WorkspaceClient, ReportDraft, TLC

VARIABLE part

CONSTANTS c1, c2, cx, r1, r2, r3, r4, n1, n2
MCCaseOf == (r1 :> c1) @@ (r2 :> c1) @@ (r3 :> c2) @@ (r4 :> c2) @@ (n1 :> c1) @@ (n2 :> c2)
MCFresh == (c1 :> n1) @@ (c2 :> n2)
MCOpening == (c1 :> r1) @@ (c2 :> r3)
L(c, r) == [case |-> c, run |-> r]
MCLinks == {L(None, None), L(c1, r2), L(c1, r4)}
-----------------------------------------------------------------------------
TabStaysCoherent == part = "tab" => TabIsCoherent
TabDraftKept == [][part = "tab" => DraftLeftAsked]_vars
ReportStaysSound == part = "report" => ReportIsSound
ReportStepsSound == [][part = "report" => ReportSteps]_reportVars

MCInit ==
  \/ /\ part = "tab" /\ Init
     /\ srv = Nil /\ ed = Nil /\ timer = Nil /\ chain = Nil /\ old = Nil /\ op = Nil /\ left = Nil /\ load = Nil
     /\ copy = Nil /\ work = Nil /\ count = Nil
  \/ /\ part = "report" /\ ReportInit
     /\ w = None /\ head = None /\ done = None /\ wish = None /\ gestures = 0 /\ rushes = 0 /\ drops = 0
MCNext ==
  \/ part = "tab" /\ Next /\ UNCHANGED <<part, reportVars>>
  \/ part = "report" /\ ReportNext /\ UNCHANGED <<part, vars>>
MCSpec == MCInit /\ [][MCNext]_<<part, vars, reportVars>>
=============================================================================
