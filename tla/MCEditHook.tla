------------------------------ MODULE MCEditHook ------------------------------
EXTENDS EditHook, TLC
CONSTANTS s1, c1, p1, p2, page, sheet, tpl, ra, rb, v1, x1, x2

MCKind == [f \in File |-> CASE f = page -> "ui" [] f = sheet -> "style" [] f = tpl -> "template"]
MCSheets == [f \in File |-> IF f = page /\ sheet \in File THEN <<sheet>> ELSE <<>>]
MCBatch == {<<page>>, <<sheet>>}
MCRule == (x1 :> ra) @@ (x2 :> rb)
MCValue == (x1 :> v1) @@ (x2 :> None)

Local(sec) == [shared |-> NoSection, local |-> sec]
Shared(sec) == [shared |-> sec, local |-> NoSection]
MCStart == {Shared(NoSection), Local([NoSection EXCEPT !.on = "on", !.rules = {rb}])}

Symmetric == Permutations({p1, p2})
=============================================================================
